------------------------- MODULE ConversationProofs -------------------------
(***************************************************************************)
(* Proofs about module Conversation, for every setting, every history and  *)
(* any number of failures.  The answer the gateway gives itself, and        *)
(* whether it lets a request through, follow from the client's setting      *)
(* alone (Decided).  Everything else needs that the history is a sequence   *)
(* of messages such as this client's and this upstream's (AreMessages),     *)
(* which each side only ever adds to: then the session stays (Identified)   *)
(* and the reasoning arrives (IsRewrittenHistory).  That every call gets    *)
(* its result needs also that they follow each other in the history         *)
(* (ExchangeInv), and that what is forwarded says what the client says is   *)
(* a count of each thing that is said, message by message.                  *)
(***************************************************************************)
EXTENDS Conversation, DsmlLemmas, FiniteSetTheorems

\* Strengthening of ModelsAgreeWithList: a status the gateway gave is the one
\* the checks of ServeHTTP decide on, and what it let through passed them all.
Decided ==
    /\ status # 0 => status = Admission(setting)
    /\ IsForwarded => Admission(setting) = 0

\* A model is refused only to a client with the key, for not being on a list
\* that has others (ServeHTTP, IsModelAllowed).
LEMMA RefusedForModel ==
    ASSUME NEW s, Admission(s) = 403
    PROVE  checkAuth(s) /\ s.allowed # {} /\ s.model \notin s.allowed
<1>1. handleListModels(s, s.method).status # 403
    BY DEF handleListModels
<1>2. ASSUME ~checkAuth(s)
      PROVE  Admission(s) \in {204, 404, 405, 401, handleListModels(s, s.method).status}
    BY <1>2 DEF Admission
<1>3. ASSUME IsModelAllowed(s)
      PROVE  Admission(s) \in {204, 404, 405, 401, 400, 0, handleListModels(s, s.method).status}
    BY <1>3 DEF Admission
<1> QED
    BY <1>1, <1>2, <1>3 DEF IsModelAllowed

\* A request goes on only with the key and a model that is allowed
\* (ServeHTTP, checkAuth, IsModelAllowed).
LEMMA AdmittedMeansAllowed ==
    ASSUME NEW s, Admission(s) = 0
    PROVE  checkAuth(s) /\ (s.allowed = {} \/ s.model \in s.allowed)
<1>1. handleListModels(s, s.method).status # 0
    BY DEF handleListModels
<1>2. ASSUME ~checkAuth(s)
      PROVE  Admission(s) \in {204, 404, 405, 401, handleListModels(s, s.method).status}
    BY <1>2 DEF Admission
<1>3. ASSUME ~IsModelAllowed(s)
      PROVE  Admission(s) \in {204, 404, 405, 401, 400, 403, handleListModels(s, s.method).status}
    BY <1>3 DEF Admission
<1> QED
    BY <1>1, <1>2, <1>3 DEF IsModelAllowed

\* Whoever has the key gets the list from GET /v1/models (handleListModels).
LEMMA KeyGetsList ==
    ASSUME NEW s, checkAuth(s)
    PROVE  handleListModels(s, "GET").status = 200 /\ handleListModels(s, "GET").data = s.allowed
    BY DEF handleListModels

\* What was decided of a request stays decided (Refuse and Forward follow the
\* same checks, and nothing else gives a status or lets a request through).
THEOREM AlwaysDecided == Spec => []Decided
<1>1. Init => Decided
    BY DEF Init, Decided, IsForwarded
<1>2. Decided /\ [Next]_vars => Decided'
    <2> SUFFICES ASSUME Decided, [Next]_vars
                 PROVE  Decided'
        OBVIOUS
    <2>1. CASE SayNext \/ AnswerClaude \/ AnswerChat \/ AskAgain
        <3>1. phase' = "gateway" /\ UNCHANGED <<setting, status>>
            BY <2>1 DEF SayNext, AnswerClaude, AnswerChat, AskAgain, Ask
        <3> QED
            BY <3>1, ZenonT(60) DEF Decided, IsForwarded, Admission
    <2>2. CASE Refuse
        BY <2>2 DEF Refuse, Decided, IsForwarded
    <2>3. CASE Forward
        BY <2>3 DEF Forward, Decided, IsForwarded
    <2>4. CASE Fail \/ ReplyChat \/ ReplyClaude
        <3>1. phase' = "client" /\ UNCHANGED <<setting, status>>
            BY <2>4 DEF Fail, ReplyChat, ReplyClaude, Reply
        <3> QED
            BY <3>1 DEF Decided, IsForwarded
    <2>5. CASE UNCHANGED vars
        BY <2>5 DEF vars, Decided, IsForwarded
    <2> QED
        BY <2>1, <2>2, <2>3, <2>4, <2>5 DEF Next
<1> QED
    BY <1>1, <1>2, PTL DEF Spec

\* The list of models and the admission of requests agree, for every
\* configuration and client (handleListModels, IsModelAllowed): what is refused
\* was refused to a client that can see the list and that its model is not on
\* it, and what is forwarded is for a model on the list unless that is empty.
THEOREM ModelsAlwaysAgree == Spec => []ModelsAgreeWithList
<1>1. Decided => ModelsAgreeWithList
    <2> SUFFICES ASSUME Decided PROVE ModelsAgreeWithList
        OBVIOUS
    <2>1. status = 403 => Admission(setting) = 403
        BY DEF Decided
    <2>2. IsForwarded => Admission(setting) = 0
        BY DEF Decided
    <2>3. checkAuth(setting) => /\ handleListModels(setting, "GET").status = 200
                               /\ handleListModels(setting, "GET").data = setting.allowed
        BY KeyGetsList
    <2> QED
        BY <2>1, <2>2, <2>3, RefusedForModel, AdmittedMeansAllowed DEF ModelsAgreeWithList
<1> QED
    BY <1>1, AlwaysDecided, PTL

-----------------------------------------------------------------------------
\* A set of naturals has a least element, so that Min is one.
LEMMA MinIsLeast ==
    ASSUME NEW S \in SUBSET Nat, S # {}
    PROVE  Min(S) \in S /\ \A n \in S : Min(S) <= n
<1>1. \E least \in S : \A n \in S : ~(<<n, least>> \in OpToRel(<, Nat))
    BY NatLessThanWellFounded, WFMin
<1>2. \A n, k \in Nat : n < k => <<n, k>> \in OpToRel(<, Nat)
    BY DEF OpToRel
<1>3. \E least \in S : \A n \in S : ~(n < least)
    BY <1>1, <1>2, Zenon
<1>4. \E least \in S : \A n \in S : least <= n
    BY <1>3
<1> QED
    BY <1>4 DEF Min

\* Messages that are added at the end leave the first one with a text where
\* it is (extractSessionID).
LEMMA FirstSpokenStays ==
    ASSUME NEW M, NEW old \in Seq(M), NEW new \in Seq(M), SpokenByUser(old) # {}
    PROVE  /\ SpokenByUser(old \o new) # {}
           /\ Min(SpokenByUser(old \o new)) = Min(SpokenByUser(old))
           /\ (old \o new)[Min(SpokenByUser(old))] = old[Min(SpokenByUser(old))]
<1> DEFINE before == SpokenByUser(old)
           after == SpokenByUser(old \o new)
<1>1. before \subseteq DOMAIN old /\ after \subseteq Nat /\ before \subseteq Nat
    BY DEF SpokenByUser
<1>2. \A n \in DOMAIN old : n \in DOMAIN (old \o new) /\ (old \o new)[n] = old[n]
    OBVIOUS
<1>3. \A n \in DOMAIN old : n \in before <=> n \in after
    BY <1>2 DEF SpokenByUser
<1>4. \A n \in after : n \notin DOMAIN old => n > Len(old)
    BY <1>1 DEF SpokenByUser
<1>5. Min(before) \in before /\ \A n \in before : Min(before) <= n
    BY <1>1, MinIsLeast
<1>6. Min(before) \in after /\ \A n \in after : Min(before) <= n
    <2>1. Min(before) <= Len(old)
        BY <1>1, <1>5
    <2> QED
        BY <1>1, <1>3, <1>4, <1>5, <2>1
<1>7. Min(after) \in after /\ \A n \in after : Min(after) <= n
    BY <1>1, <1>6, MinIsLeast
<1>8. Min(after) = Min(before)
    BY <1>1, <1>5, <1>6, <1>7
<1> QED
    BY <1>1, <1>2, <1>5, <1>6, <1>8

\* The identity of a conversation of any length survives any messages added to
\* it, unless it was random (ExtractFromRequest): the step of SessionSettles,
\* without the bounds on histories.
THEOREM IdentitySurvives ==
    ASSUME NEW M, NEW old \in Seq(M), NEW new \in Seq(M), NEW s, NEW n, NEW k,
           ExtractFromRequest(Request(s, old), n).kind # "random"
    PROVE  ExtractFromRequest(Request(s, old \o new), k)
                = ExtractFromRequest(Request(s, old), n)
<1>1. \A messages : Request(s, messages).name = s.name /\ Request(s, messages).messages = messages
    BY DEF Request
<1>2. CASE s.name # ""
    BY <1>1, <1>2 DEF ExtractFromRequest
<1>3. CASE s.name = "" /\ SpokenByUser(old) # {}
    <2> DEFINE first == Min(SpokenByUser(old))
    <2>1. /\ SpokenByUser(old \o new) # {} /\ Min(SpokenByUser(old \o new)) = first
          /\ (old \o new)[first] = old[first]
        BY <1>3, FirstSpokenStays
    <2>2. ExtractFromRequest(Request(s, old \o new), k) = Hashed(contentString((old \o new)[first]))
        BY <1>1, <1>3, <2>1 DEF ExtractFromRequest
    <2>3. ExtractFromRequest(Request(s, old), n) = Hashed(contentString(old[first]))
        BY <1>1, <1>3 DEF ExtractFromRequest
    <2> QED
        BY <2>1, <2>2, <2>3
<1>4. CASE s.name = "" /\ SpokenByUser(old) = {}
    BY <1>1, <1>4 DEF ExtractFromRequest, Random
<1> QED
    BY <1>2, <1>3, <1>4
-----------------------------------------------------------------------------
(* The history is a sequence of messages in the shape of the path          *)

\* Whoever makes an id, a text or an image.
AnyRef == [maker : {"nobody", "text", "image", "thinking", "call", "toolu", "toolu_dsml", "gateway"}, n : Nat]

\* The ids of calls in chat completions.
CallId == {Id("call", 1), Id("call", 2)}

AnyContent == [type : {"text", "image", "thinking", "tool_use", "tool_result"}, ref : AnyRef]

AnyMessage ==
    [role : {"user", "assistant", "developer", "system", "tool"}, isString : BOOLEAN,
     blocks : Seq(AnyContent), calls : Seq(AnyRef), id : AnyRef, reasoning : {"none", "given", "placeholder"}]

\* Messages of chat completions have neither calls nor results among their
\* blocks; calls are the assistant's, and the id of a call a result's.
ChatMessage(m) ==
    /\ \A n \in DOMAIN m.blocks : m.blocks[n].type \in {"text", "image"}
    /\ m.calls \in Seq(CallId) /\ (m.role # "assistant" => m.calls = <<>>)
    /\ m.id \in CallId \cup {NoId} /\ (m.role # "tool" => m.id = NoId)

\* Claude's messages have them there and nowhere else, calls in an answer and
\* results in what the user says, none twice.
ClaudeMessage(m) ==
    /\ m.role \in {"user", "assistant"} /\ m.calls = <<>> /\ m.id = NoId
    /\ m.isString => \A n \in DOMAIN m.blocks : m.blocks[n].type = "text"
    /\ \A n \in DOMAIN m.blocks :
        /\ m.blocks[n].type = "tool_use" => m.role = "assistant" /\ m.blocks[n].ref # NoId
        /\ m.blocks[n].type = "tool_result" => m.role = "user"
    /\ \A n, k \in DOMAIN m.blocks :
        m.blocks[n].type \in {"tool_use", "tool_result"} /\ m.blocks[n] = m.blocks[k] => n = k

Shaped(s, m) == IF s.path # "/v1/messages" THEN ChatMessage(m) ELSE ClaudeMessage(m)

AreMessages(s, messages) ==
    /\ messages \in Seq(AnyMessage)
    /\ \A n \in DOMAIN messages : Shaped(s, messages[n])

\* What makes an id is one of those who do.
LEMMA IdsAreRefs ==
    /\ \A n \in Nat : Id("text", n) \in AnyRef /\ Id("image", n) \in AnyRef /\ Id("thinking", n) \in AnyRef
                        /\ Id("gateway", n) \in AnyRef
    /\ NoId \in AnyRef /\ CallId \subseteq AnyRef /\ AnyId \subseteq AnyRef
    /\ \A n : NoId # Id("gateway", n)
    /\ NoId \notin CallId /\ \A n : Id("gateway", n) \notin CallId
<1>1. \A n \in Nat, maker \in {"nobody", "text", "image", "thinking", "call", "toolu", "toolu_dsml", "gateway"} :
        Id(maker, n) \in AnyRef
    BY DEF Id, AnyRef
<1>2. NoId \in AnyRef
    BY <1>1 DEF NoId
<1>3. CallId \subseteq AnyRef
    BY <1>1 DEF CallId
<1>4. AnyId \subseteq AnyRef
    BY <1>1, <1>2 DEF AnyId, DsmlId
<1>5. \A n : NoId # Id("gateway", n)
    BY IdParts
<1>6. NoId \notin CallId /\ \A n : Id("gateway", n) \notin CallId
    BY IdParts DEF CallId
<1> QED
    BY <1>1, <1>2, <1>3, <1>4, <1>5, <1>6

\* What the constructors of Messages make are messages (translate/types.go).
LEMMA Constructed ==
    /\ \A role \in {"user", "assistant", "developer", "system", "tool"}, isString \in BOOLEAN,
          blocks \in Seq(AnyContent) :
        /\ Message(role, isString, blocks) \in AnyMessage
        /\ Message(role, isString, blocks).role = role /\ Message(role, isString, blocks).isString = isString
        /\ Message(role, isString, blocks).blocks = blocks /\ Message(role, isString, blocks).calls = <<>>
        /\ Message(role, isString, blocks).id = NoId /\ Message(role, isString, blocks).reasoning = "none"
    /\ \A id \in AnyRef :
        /\ ToolMessage(id) \in AnyMessage
        /\ ToolMessage(id).role = "tool" /\ ToolMessage(id).isString = TRUE /\ ToolMessage(id).blocks = <<>>
        /\ ToolMessage(id).calls = <<>> /\ ToolMessage(id).id = id /\ ToolMessage(id).reasoning = "none"
<1>1. <<>> \in Seq(AnyRef) /\ <<>> \in Seq(AnyContent) /\ NoId \in AnyRef
    BY IdsAreRefs
<1>2. ASSUME NEW role \in {"user", "assistant", "developer", "system", "tool"}, NEW isString \in BOOLEAN,
             NEW blocks \in Seq(AnyContent)
      PROVE  /\ Message(role, isString, blocks) \in AnyMessage
             /\ Message(role, isString, blocks).role = role /\ Message(role, isString, blocks).isString = isString
             /\ Message(role, isString, blocks).blocks = blocks /\ Message(role, isString, blocks).calls = <<>>
             /\ Message(role, isString, blocks).id = NoId /\ Message(role, isString, blocks).reasoning = "none"
    BY <1>1 DEF Message, AnyMessage
<1>3. ASSUME NEW id \in AnyRef
      PROVE  /\ ToolMessage(id) \in AnyMessage
             /\ ToolMessage(id).role = "tool" /\ ToolMessage(id).isString = TRUE /\ ToolMessage(id).blocks = <<>>
             /\ ToolMessage(id).calls = <<>> /\ ToolMessage(id).id = id /\ ToolMessage(id).reasoning = "none"
    BY <1>1 DEF Message, ToolMessage, AnyMessage
<1> QED
    BY <1>2, <1>3

\* Joining two sequences of messages gives one of messages.
LEMMA JoinedMessages ==
    ASSUME NEW s, NEW old, NEW new, AreMessages(s, old), AreMessages(s, new)
    PROVE  AreMessages(s, old \o new)
<1> DEFINE all == old \o new
<1>1. old \in Seq(AnyMessage) /\ new \in Seq(AnyMessage)
    BY DEF AreMessages
<1>2. /\ all \in Seq(AnyMessage) /\ Len(old) \in Nat /\ Len(new) \in Nat
      /\ DOMAIN all = 1 .. Len(old) + Len(new)
      /\ \A n \in 1 .. Len(old) + Len(new) : all[n] = IF n <= Len(old) THEN old[n] ELSE new[n - Len(old)]
    BY <1>1, ConcatProperties, LenProperties
<1> HIDE DEF all
<1>3. ASSUME NEW n \in DOMAIN all PROVE Shaped(s, all[n])
    <2>1. CASE n <= Len(old)
        <3>1. n \in DOMAIN old /\ all[n] = old[n]
            BY <1>1, <1>2, <2>1
        <3> QED
            BY <3>1 DEF AreMessages
    <2>2. CASE ~ (n <= Len(old))
        <3>1. n - Len(old) \in DOMAIN new /\ all[n] = new[n - Len(old)]
            BY <1>1, <1>2, <2>2
        <3> QED
            BY <3>1 DEF AreMessages
    <2> QED
        BY <2>1, <2>2
<1> QED
    BY <1>2, <1>3 DEF AreMessages, all

\* So is one message.
LEMMA OneMessage ==
    ASSUME NEW s, NEW m \in AnyMessage, Shaped(s, m)
    PROVE  AreMessages(s, <<m>>)
<1>1. <<m>> \in Seq(AnyMessage) /\ \A n \in DOMAIN <<m>> : <<m>>[n] = m
    OBVIOUS
<1> QED
    BY <1>1 DEF AreMessages

\* The blocks at some places, in their order, each once (rewriteMessages).
LEMMA BlocksAtPlaces ==
    ASSUME NEW m, m.blocks \in Seq(AnyContent), NEW places
    PROVE  /\ BlocksAt(m, places) \in Seq(AnyContent)
           /\ \A a \in DOMAIN BlocksAt(m, places) : \E k \in DOMAIN m.blocks :
                    k \in places /\ BlocksAt(m, places)[a] = m.blocks[k]
           /\ \A k \in DOMAIN m.blocks : k \in places =>
                    \E a \in DOMAIN BlocksAt(m, places) : BlocksAt(m, places)[a] = m.blocks[k]
           /\ \A a, b \in DOMAIN BlocksAt(m, places) : a < b =>
                    \E k, l \in DOMAIN m.blocks :
                        /\ k < l /\ k \in places /\ l \in places
                        /\ BlocksAt(m, places)[a] = m.blocks[k] /\ BlocksAt(m, places)[b] = m.blocks[l]
<1> DEFINE part(n) == IF n \in places THEN <<m.blocks[n]>> ELSE <<>>
           parts == [n \in DOMAIN m.blocks |-> part(n)]
           all == BlocksAt(m, places)
<1>1. DOMAIN m.blocks = 1 .. Len(m.blocks) /\ Len(m.blocks) \in Nat
      /\ \A n \in DOMAIN m.blocks : m.blocks[n] \in AnyContent
    BY LenProperties, ElementOfSeq
<1>2. \A n \in DOMAIN m.blocks : /\ part(n) \in Seq(AnyContent) /\ Len(part(n)) <= 1
                                 /\ n \in places => part(n) # <<>> /\ part(n)[1] = m.blocks[n] /\ DOMAIN part(n) = {1}
                                 /\ n \notin places => part(n) = <<>> /\ DOMAIN part(n) = {}
    <2> SUFFICES ASSUME NEW n \in DOMAIN m.blocks
                 PROVE  /\ part(n) \in Seq(AnyContent) /\ Len(part(n)) <= 1
                        /\ n \in places => part(n) # <<>> /\ part(n)[1] = m.blocks[n] /\ DOMAIN part(n) = {1}
                        /\ n \notin places => part(n) = <<>> /\ DOMAIN part(n) = {}
        OBVIOUS
    <2>1. m.blocks[n] \in AnyContent
        BY <1>1
    <2>2. CASE n \in places
        <3>1. part(n) = <<m.blocks[n]>>
            BY <2>2
        <3> HIDE DEF part
        <3> QED
            BY <2>1, <2>2, <3>1
    <2>3. CASE n \notin places
        <3>1. part(n) = <<>>
            BY <2>3
        <3> HIDE DEF part
        <3> QED
            BY <2>3, <3>1
    <2> QED
        BY <2>2, <2>3
<1>3. all = FlattenSeq(parts)
    BY DEF BlocksAt
<1>4. DOMAIN parts = DOMAIN m.blocks /\ \A n \in DOMAIN parts : parts[n] = part(n)
    OBVIOUS
<1>5. parts \in Seq(Seq(AnyContent))
    BY <1>1, <1>2
<1> HIDE DEF part, parts, all
<1>6. all \in Seq(AnyContent)
    BY <1>3, <1>5, FlattenType
<1>7. /\ \A i \in DOMAIN all : \E k \in DOMAIN parts : \E l \in DOMAIN parts[k] : all[i] = parts[k][l]
      /\ \A k \in DOMAIN parts : \A l \in DOMAIN parts[k] : \E i \in DOMAIN all : all[i] = parts[k][l]
    BY <1>3, <1>5, FlattenElements
<1>8. \A a, b \in DOMAIN all : a < b =>
        \E k, l \in DOMAIN parts : /\ k < l /\ parts[k] # <<>> /\ parts[l] # <<>>
                                   /\ all[a] = parts[k][1] /\ all[b] = parts[l][1]
    <2>1. \A k \in DOMAIN parts : Len(parts[k]) <= 1
        BY <1>2, <1>4
    <2> QED
        BY <1>3, <1>5, <2>1, FlattenOrdered
<1>9. \A a \in DOMAIN all : \E k \in DOMAIN m.blocks : k \in places /\ all[a] = m.blocks[k]
    BY <1>2, <1>4, <1>7
<1>10. \A k \in DOMAIN m.blocks : k \in places => \E a \in DOMAIN all : all[a] = m.blocks[k]
    BY <1>2, <1>4, <1>7
<1>11. \A a, b \in DOMAIN all : a < b =>
        \E k, l \in DOMAIN m.blocks : /\ k < l /\ k \in places /\ l \in places
                                      /\ all[a] = m.blocks[k] /\ all[b] = m.blocks[l]
    BY <1>2, <1>4, <1>8
<1> QED
    BY <1>6, <1>9, <1>10, <1>11 DEF all

\* No element of a sequence is there twice.
Distinct(seq) == \A i, j \in DOMAIN seq : seq[i] = seq[j] => i = j

\* The calls of an answer in Claude's shape: each has an id, and no two the
\* same.
LEMMA CallsOfAnswer ==
    ASSUME NEW m \in AnyMessage, ClaudeMessage(m)
    PROVE  /\ Refs(CallBlocks(m)) \in Seq(AnyRef) /\ Distinct(Refs(CallBlocks(m)))
           /\ \A n \in DOMAIN Refs(CallBlocks(m)) : Refs(CallBlocks(m))[n] # NoId
<1> DEFINE places == Places(m, {"tool_use"})
           calls == BlocksAt(m, places)
           refs == Refs(calls)
<1>1. m.blocks \in Seq(AnyContent)
    BY DEF AnyMessage
<1>2. \A k \in places : k \in DOMAIN m.blocks /\ m.blocks[k].type = "tool_use" /\ m.blocks[k].ref # NoId
    BY DEF Places, ClaudeMessage
<1>3. CallBlocks(m) = calls
    BY DEF CallBlocks, BlocksOf
<1>4. /\ calls \in Seq(AnyContent)
      /\ \A a \in DOMAIN calls : \E k \in DOMAIN m.blocks : k \in places /\ calls[a] = m.blocks[k]
      /\ \A a, b \in DOMAIN calls : a < b =>
            \E k, l \in DOMAIN m.blocks : /\ k < l /\ k \in places /\ l \in places
                                          /\ calls[a] = m.blocks[k] /\ calls[b] = m.blocks[l]
    BY <1>1, BlocksAtPlaces
<1>5. DOMAIN refs = DOMAIN calls /\ \A n \in DOMAIN calls : refs[n] = calls[n].ref
    BY DEF Refs
<1>6. DOMAIN calls = 1 .. Len(calls) /\ Len(calls) \in Nat /\ \A n \in DOMAIN calls : calls[n].ref \in AnyRef
    <2> HIDE DEF calls
    <2>1. calls \in Seq(AnyContent)
        BY <1>4
    <2>2. \A n \in DOMAIN calls : calls[n] \in AnyContent
        BY <2>1
    <2> QED
        BY <2>1, <2>2 DEF AnyContent
<1> HIDE DEF places, calls
<1>7. refs \in Seq(AnyRef)
    BY <1>5, <1>6 DEF Refs
<1> HIDE DEF refs
<1>8. \A n \in DOMAIN refs : refs[n] # NoId
    BY <1>2, <1>4, <1>5
<1>9. ASSUME NEW a \in DOMAIN refs, NEW b \in DOMAIN refs, a < b
      PROVE  refs[a] # refs[b]
    <2>1. PICK k, l \in DOMAIN m.blocks : /\ k < l /\ k \in places /\ l \in places
                                          /\ calls[a] = m.blocks[k] /\ calls[b] = m.blocks[l]
        BY <1>4, <1>5, <1>9
    <2>2. k # l
        BY <1>1, <2>1
    <2>3. m.blocks[k] # m.blocks[l]
        BY <1>2, <2>1, <2>2 DEF ClaudeMessage
    <2>4. m.blocks[k].type = m.blocks[l].type
        BY <1>2, <2>1
    <2>5. m.blocks[k] \in AnyContent /\ m.blocks[l] \in AnyContent
        BY <1>1, ElementOfSeq
    <2>6. m.blocks[k].ref # m.blocks[l].ref
        BY <2>3, <2>4, <2>5 DEF AnyContent
    <2> QED
        BY <1>5, <2>1, <2>6
<1>10. Distinct(refs)
    <2> SUFFICES ASSUME NEW a \in DOMAIN refs, NEW b \in DOMAIN refs, refs[a] = refs[b]
                 PROVE  a = b
        BY DEF Distinct
    <2>1. a \in Nat /\ b \in Nat /\ ~ (a < b) /\ ~ (b < a)
        BY <1>5, <1>6, <1>9
    <2> QED
        BY <2>1
<1> QED
    BY <1>3, <1>7, <1>8, <1>10 DEF refs

\* Results given for calls, in either order and possibly one without its id: as
\* many as calls, none twice, and of the calls' ids unless the id was lost.
AnswersFor(ids, calls) ==
    /\ DOMAIN ids = DOMAIN calls /\ ids \in Seq(AnyRef) /\ Distinct(ids)
    /\ \A n \in DOMAIN ids : ids[n] = NoId \/ \E k \in DOMAIN calls : ids[n] = calls[k]
    /\ ~setting.loses => /\ \A n \in DOMAIN ids : ids[n] # NoId
                         /\ \A k \in DOMAIN calls : \E n \in DOMAIN ids : ids[n] = calls[k]

\* Whatever the client gives answers the calls that are pending (AnswerClaude,
\* AnswerChat).
LEMMA GivenAnswers ==
    ASSUME Pending \in Seq(AnyRef), Distinct(Pending), \A n \in DOMAIN Pending : Pending[n] # NoId,
           NEW order \in Orders, NEW ids \in Given(order)
    PROVE  AnswersFor(ids, Pending)
<1> DEFINE n == Len(Pending)
<1>1. n \in Nat /\ DOMAIN Pending = 1 .. n /\ \A k \in 1 .. n : Pending[k] \in AnyRef
    BY LenProperties, ElementOfSeq
<1>2. order = Pending \/ order = [k \in 1 .. n |-> Pending[n - k + 1]]
    BY DEF Orders, Reverse
<1> HIDE DEF n
<1>3. \A k \in 1 .. n : n - k + 1 \in 1 .. n
    BY <1>1
<1>4. /\ DOMAIN order = 1 .. n /\ order \in Seq(AnyRef)
      /\ \A k \in 1 .. n : order[k] # NoId /\ \E l \in 1 .. n : order[k] = Pending[l]
      /\ \A k \in 1 .. n : \E l \in 1 .. n : order[l] = Pending[k]
      /\ Distinct(order)
    <2>1. CASE order = Pending
        BY <1>1, <2>1
    <2>2. CASE order = [k \in 1 .. n |-> Pending[n - k + 1]]
        <3>1. DOMAIN order = 1 .. n /\ \A k \in 1 .. n : order[k] = Pending[n - k + 1]
            BY <2>2
        <3>2. order \in Seq(AnyRef)
            BY <1>1, <1>3, <2>2
        <3>3. \A k \in 1 .. n : order[k] # NoId /\ \E l \in 1 .. n : order[k] = Pending[l]
            BY <1>1, <1>3, <3>1
        <3>4. \A k \in 1 .. n : \E l \in 1 .. n : order[l] = Pending[k]
            <4> SUFFICES ASSUME NEW k \in 1 .. n PROVE \E l \in 1 .. n : order[l] = Pending[k]
                OBVIOUS
            <4>1. n - k + 1 \in 1 .. n /\ n - (n - k + 1) + 1 = k
                BY <1>1, <1>3
            <4> QED
                BY <3>1, <4>1
        <3>5. ASSUME NEW k \in 1 .. n, NEW l \in 1 .. n, order[k] = order[l] PROVE k = l
            <4>1. n - k + 1 = n - l + 1
                BY <1>1, <1>3, <3>1, <3>5 DEF Distinct
            <4> QED
                BY <1>1, <4>1
        <3> QED
            BY <3>1, <3>2, <3>3, <3>4, <3>5 DEF Distinct
    <2> QED
        BY <1>2, <2>1, <2>2
<1>5. CASE ids = order
    BY <1>1, <1>4, <1>5 DEF AnswersFor
<1>6. CASE setting.loses /\ ids = [order EXCEPT ![1] = NoId]
    <2>1. DOMAIN ids = 1 .. n /\ \A k \in 1 .. n : ids[k] = IF k = 1 THEN NoId ELSE order[k]
        BY <1>4, <1>6
    <2>2. ids \in Seq(AnyRef)
        <3>1. NoId \in AnyRef
            BY IdsAreRefs
        <3>2. order \in [1 .. n -> AnyRef]
            BY <1>1, <1>4
        <3>3. ids \in [1 .. n -> AnyRef]
            BY <1>6, <3>1, <3>2
        <3> QED
            BY <1>1, <3>3
    <2>3. Distinct(ids)
        BY <1>4, <2>1 DEF Distinct
    <2> QED
        BY <1>1, <1>4, <1>6, <2>1, <2>2, <2>3 DEF AnswersFor
<1> QED
    BY <1>5, <1>6 DEF Given

\* The blocks of some types among others.
OfTypes(blocks, types) ==
    FlattenSeq([n \in DOMAIN blocks |-> IF blocks[n].type \in types THEN <<blocks[n]>> ELSE <<>>])

\* They are what rewriteMessages takes from the places of those types.
LEMMA BlocksOfTypes ==
    ASSUME NEW m, NEW types
    PROVE  BlocksOf(m, types) = OfTypes(m.blocks, types)
<1> DEFINE one(n) == IF n \in Places(m, types) THEN <<m.blocks[n]>> ELSE <<>>
           other(n) == IF m.blocks[n].type \in types THEN <<m.blocks[n]>> ELSE <<>>
<1>1. \A n \in DOMAIN m.blocks : one(n) = other(n)
    BY DEF Places
<1>2. BlocksOf(m, types) = FlattenSeq([n \in DOMAIN m.blocks |-> one(n)])
    BY DEF BlocksOf, BlocksAt
<1>3. OfTypes(m.blocks, types) = FlattenSeq([n \in DOMAIN m.blocks |-> other(n)])
    BY DEF OfTypes
<1> HIDE DEF one, other
<1>4. [n \in DOMAIN m.blocks |-> one(n)] = [n \in DOMAIN m.blocks |-> other(n)]
    BY <1>1
<1> QED
    BY <1>2, <1>3, <1>4

\* The parts that are joined, one of each block.
OneIf(b, types) == IF b.type \in types THEN <<b>> ELSE <<>>
PartsOf(blocks, types) == [n \in DOMAIN blocks |-> OneIf(blocks[n], types)]

\* There is one part for each block, and they are joined in OfTypes.
LEMMA PartsOfBlocks ==
    ASSUME NEW blocks \in Seq(AnyContent), NEW types
    PROVE  /\ PartsOf(blocks, types) \in Seq(Seq(AnyContent)) /\ Len(PartsOf(blocks, types)) = Len(blocks)
           /\ DOMAIN PartsOf(blocks, types) = DOMAIN blocks /\ DOMAIN blocks = 1 .. Len(blocks) /\ Len(blocks) \in Nat
           /\ \A n \in DOMAIN blocks : PartsOf(blocks, types)[n] = OneIf(blocks[n], types)
           /\ OfTypes(blocks, types) = FlattenSeq(PartsOf(blocks, types))
<1>1. DOMAIN blocks = 1 .. Len(blocks) /\ Len(blocks) \in Nat /\ \A n \in DOMAIN blocks : blocks[n] \in AnyContent
    BY LenProperties, ElementOfSeq
<1>2. \A n \in DOMAIN blocks : OneIf(blocks[n], types) \in Seq(AnyContent)
    <2>1. \A n \in DOMAIN blocks : <<blocks[n]>> \in Seq(AnyContent) /\ <<>> \in Seq(AnyContent)
        BY <1>1
    <2> QED
        BY <2>1 DEF OneIf
<1>3. PartsOf(blocks, types) = [n \in 1 .. Len(blocks) |-> OneIf(blocks[n], types)]
    BY <1>1 DEF PartsOf
<1>4. PartsOf(blocks, types) \in Seq(Seq(AnyContent)) /\ Len(PartsOf(blocks, types)) = Len(blocks)
    BY <1>1, <1>2, <1>3
<1> QED
    BY <1>1, <1>3, <1>4 DEF OfTypes, PartsOf, OneIf

\* When all blocks are of the types it is all of them, when none is it is none.
LEMMA OfTypesAll ==
    ASSUME NEW blocks \in Seq(AnyContent), NEW types
    PROVE  /\ (\A n \in DOMAIN blocks : blocks[n].type \in types) => OfTypes(blocks, types) = blocks
           /\ (\A n \in DOMAIN blocks : blocks[n].type \notin types) => OfTypes(blocks, types) = <<>>
<1> DEFINE parts == PartsOf(blocks, types)
<1>1. /\ parts \in Seq(Seq(AnyContent)) /\ Len(parts) = Len(blocks) /\ DOMAIN parts = DOMAIN blocks
      /\ \A n \in DOMAIN blocks : parts[n] = OneIf(blocks[n], types)
      /\ OfTypes(blocks, types) = FlattenSeq(parts)
    BY PartsOfBlocks
<1> HIDE DEF parts
<1>2. ASSUME \A n \in DOMAIN blocks : blocks[n].type \in types
      PROVE  OfTypes(blocks, types) = blocks
    <2>1. \A n \in DOMAIN blocks : parts[n] = <<blocks[n]>>
        BY <1>1, <1>2 DEF OneIf
    <2> QED
        BY <1>1, <2>1, FlattenSingles
<1>3. ASSUME \A n \in DOMAIN blocks : blocks[n].type \notin types
      PROVE  OfTypes(blocks, types) = <<>>
    <2>1. \A n \in DOMAIN parts : parts[n] = <<>>
        BY <1>1, <1>3 DEF OneIf
    <2> QED
        BY <1>1, <2>1, FlattenEmpties
<1> QED
    BY <1>2, <1>3

\* In two lists of blocks that are joined it is those of the first, then those
\* of the second.
LEMMA OfTypesJoined ==
    ASSUME NEW a \in Seq(AnyContent), NEW b \in Seq(AnyContent), NEW types
    PROVE  OfTypes(a \o b, types) = OfTypes(a, types) \o OfTypes(b, types)
<1> DEFINE all == a \o b
           pall == PartsOf(all, types)
           pa == PartsOf(a, types)
           pb == PartsOf(b, types)
<1>1. /\ all \in Seq(AnyContent) /\ Len(a) \in Nat /\ Len(b) \in Nat /\ Len(all) = Len(a) + Len(b)
      /\ \A n \in 1 .. Len(a) : all[n] = a[n]
      /\ \A n \in 1 .. Len(b) : all[Len(a) + n] = b[n]
    BY ConcatProperties, LenProperties
<1>2. pall = [n \in DOMAIN pall |-> pall[n]]
    BY DEF PartsOf
<1> HIDE DEF all
<1>3. /\ DOMAIN pall = 1 .. Len(all) /\ \A n \in 1 .. Len(all) : pall[n] = OneIf(all[n], types)
      /\ OfTypes(all, types) = FlattenSeq(pall)
    BY <1>1, PartsOfBlocks
<1>4. /\ pa \in Seq(Seq(AnyContent)) /\ Len(pa) = Len(a) /\ \A n \in 1 .. Len(a) : pa[n] = OneIf(a[n], types)
      /\ OfTypes(a, types) = FlattenSeq(pa)
    BY PartsOfBlocks
<1>5. /\ pb \in Seq(Seq(AnyContent)) /\ Len(pb) = Len(b) /\ \A n \in 1 .. Len(b) : pb[n] = OneIf(b[n], types)
      /\ OfTypes(b, types) = FlattenSeq(pb)
    BY PartsOfBlocks
<1> HIDE DEF pall, pa, pb
<1>6. \A n \in 1 .. Len(pa) : pall[n] = pa[n]
    BY <1>1, <1>3, <1>4
<1>7. \A n \in 1 .. Len(pb) : pall[Len(pa) + n] = pb[n]
    <2> SUFFICES ASSUME NEW n \in 1 .. Len(b) PROVE pall[Len(a) + n] = pb[n]
        BY <1>4, <1>5
    <2>1. Len(a) + n \in 1 .. Len(all)
        BY <1>1
    <2> QED
        BY <1>1, <1>3, <1>5, <2>1
<1>8. pall = pa \o pb
    <2>1. DOMAIN pall = 1 .. Len(pa) + Len(pb)
        BY <1>1, <1>3, <1>4, <1>5
    <2>2. \A s, u \in Seq(Seq(AnyContent)) :
            /\ pall = [i \in DOMAIN pall |-> pall[i]] /\ DOMAIN pall = 1 .. Len(s) + Len(u)
            /\ \A i \in 1 .. Len(s) : pall[i] = s[i]
            /\ \A i \in 1 .. Len(u) : pall[Len(s) + i] = u[i]
            => pall = s \o u
        BY IsConcat
    <2>3. pa \in Seq(Seq(AnyContent)) /\ pb \in Seq(Seq(AnyContent))
        BY <1>4, <1>5
    <2> QED
        BY <1>2, <1>6, <1>7, <2>1, <2>2, <2>3, Zenon
<1> QED
    BY <1>3, <1>4, <1>5, <1>8, FlattenConcat DEF all

\* What the client says, by its words, next (SayNext).
LEMMA SaidNext ==
    ASSUME AreMessages(setting, history), SayNext
    PROVE  \E added : /\ AreMessages(setting, added) /\ Ask(added) /\ added # <<>>
                      /\ \A n \in DOMAIN added : added[n].role \in {"user", "developer"}
                      /\ \A n \in DOMAIN added : \A k \in DOMAIN added[n].blocks :
                            added[n].blocks[k].type \in {"text", "image"}
                      /\ Pending = <<>> /\ IsClientsTurn
<1>1. PICK blocks \in UserContents, opening \in {<<>>, <<Message("developer", TRUE, <<>>)>>} :
        /\ opening # <<>> => IsChatShaped
        /\ Ask(opening \o <<Message("user", blocks = <<Fresh("text")>>, blocks)>>)
    BY DEF SayNext
<1>2. /\ Fresh("text") \in AnyContent /\ Fresh("text").type = "text"
      /\ Fresh("image") \in AnyContent /\ Fresh("image").type = "image"
    <2>1. Len(history) + 1 \in Nat
        BY LenProperties DEF AreMessages
    <2>2. Id("text", Len(history) + 1) \in AnyRef /\ Id("image", Len(history) + 1) \in AnyRef
        BY <2>1, IdsAreRefs
    <2> QED
        BY <2>2 DEF Fresh, Block, AnyContent
<1>3. /\ blocks \in Seq(AnyContent)
      /\ \A n \in DOMAIN blocks : blocks[n].type \in {"text", "image"}
      /\ blocks = <<Fresh("text")>> => \A n \in DOMAIN blocks : blocks[n].type = "text"
    <2> DEFINE t == Fresh("text")
               i == Fresh("image")
    <2>1. blocks \in {<<t>>, <<i>>, <<i, t>>}
        BY DEF UserContents
    <2> HIDE DEF t, i
    <2>2. t \in AnyContent /\ t.type = "text" /\ i \in AnyContent /\ i.type = "image"
        BY <1>2 DEF t, i
    <2>3. CASE blocks = <<t>>
        BY <2>2, <2>3
    <2>4. CASE blocks = <<i>>
        <3>1. blocks # <<t>>
            BY <2>2, <2>4
        <3> QED
            BY <2>2, <2>4, <3>1 DEF t
    <2>5. CASE blocks = <<i, t>>
        <3>1. blocks # <<t>>
            BY <2>2, <2>5
        <3> QED
            BY <2>2, <2>5, <3>1 DEF t
    <2> QED
        BY <2>1, <2>3, <2>4, <2>5
<1> DEFINE flag == blocks = <<Fresh("text")>>
           m == Message("user", flag, blocks)
<1>4. flag \in BOOLEAN
    OBVIOUS
<1>5. flag => \A n \in DOMAIN blocks : blocks[n].type = "text"
    BY <1>3
<1>6. Ask(opening \o <<m>>)
    BY <1>1
<1> HIDE DEF flag
<1>7. /\ m \in AnyMessage /\ m.role = "user" /\ m.isString = flag /\ m.blocks = blocks
      /\ m.calls = <<>> /\ m.id = NoId
    BY <1>3, <1>4, Constructed
<1> HIDE DEF m
<1>8. ChatMessage(m) /\ ClaudeMessage(m)
    <2>1. <<>> \in Seq(CallId)
        OBVIOUS
    <2>2. ChatMessage(m)
        BY <1>3, <1>7, <2>1 DEF ChatMessage
    <2>3. ClaudeMessage(m)
        BY <1>3, <1>5, <1>7 DEF ClaudeMessage
    <2> QED
        BY <2>2, <2>3
<1>9. AreMessages(setting, <<m>>)
    BY <1>7, <1>8, OneMessage DEF Shaped
<1>10. /\ AreMessages(setting, opening)
       /\ \A n \in DOMAIN opening : opening[n].role = "developer" /\ opening[n].blocks = <<>>
    <2>1. CASE opening = <<>>
        BY <2>1 DEF AreMessages
    <2>2. CASE opening = <<Message("developer", TRUE, <<>>)>>
        <3> DEFINE d == Message("developer", TRUE, <<>>)
        <3>1. <<>> \in Seq(AnyContent) /\ <<>> \in Seq(CallId)
            OBVIOUS
        <3>2. /\ d \in AnyMessage /\ d.role = "developer" /\ d.blocks = <<>> /\ d.calls = <<>> /\ d.id = NoId
            <4>1. NoId \in AnyRef /\ <<>> \in Seq(AnyRef)
                BY IdsAreRefs
            <4> QED
                BY <3>1, <4>1 DEF Message, AnyMessage
        <3>3. opening = <<d>> /\ IsChatShaped
            BY <1>1, <2>2
        <3> HIDE DEF d
        <3>4. ChatMessage(d)
            BY <3>1, <3>2 DEF ChatMessage
        <3>5. AreMessages(setting, <<d>>)
            BY <3>2, <3>3, <3>4, OneMessage DEF Shaped, IsChatShaped
        <3>6. \A n \in DOMAIN <<d>> : <<d>>[n] = d
            OBVIOUS
        <3> QED
            BY <3>2, <3>3, <3>5, <3>6
    <2> QED
        BY <1>1, <2>1, <2>2
<1> DEFINE added == opening \o <<m>>
<1>11. AreMessages(setting, added) /\ Ask(added)
    BY <1>6, <1>9, <1>10, JoinedMessages
<1>12. \A n \in DOMAIN added : added[n] = m \/ \E k \in DOMAIN opening : added[n] = opening[k]
    <2>1. opening \in Seq(AnyMessage) /\ <<m>> \in Seq(AnyMessage)
        BY <1>9, <1>10 DEF AreMessages
    <2> QED
        BY <2>1
<1>13. added # <<>>
    <2>1. opening \in Seq(AnyMessage) /\ <<m>> \in Seq(AnyMessage) /\ Len(<<m>>) = 1
        BY <1>9, <1>10 DEF AreMessages
    <2>2. Len(added) = Len(opening) + 1 /\ Len(opening) \in Nat
        BY <2>1
    <2> QED
        BY <2>2
<1> HIDE DEF added
<1>14. \A n \in DOMAIN added : added[n].role \in {"user", "developer"}
    BY <1>7, <1>10, <1>12
<1>15. \A n \in DOMAIN added : \A k \in DOMAIN added[n].blocks : added[n].blocks[k].type \in {"text", "image"}
    BY <1>3, <1>7, <1>10, <1>12
<1>16. Pending = <<>> /\ IsClientsTurn
    BY DEF SayNext
<1> QED
    BY <1>11, <1>13, <1>14, <1>15, <1>16

\* In Claude's shape the client answers the calls of the last message by one
\* message with a result for each (AnswerClaude).
LEMMA AnsweredInBlocks ==
    ASSUME AreMessages(setting, history), AnswerClaude
    PROVE  /\ history # <<>> /\ Last(history) \in AnyMessage /\ ClaudeMessage(Last(history))
           /\ Last(history).role = "assistant" /\ CallBlocks(Last(history)) # <<>> /\ ~IsChatShaped
           /\ \E m \in AnyMessage :
                /\ ClaudeMessage(m) /\ m.role = "user" /\ Ask(<<m>>)
                /\ AnswersFor(Refs(OfTypes(m.blocks, {"tool_result"})), Refs(CallBlocks(Last(history))))
<1> DEFINE last == Last(history)
           calls == Refs(CallBlocks(last))
<1>1. history # <<>> /\ last.role = "assistant" /\ ~IsChatShaped /\ Pending = calls /\ Pending # <<>>
    BY DEF AnswerClaude, Pending, CallBlocks
<1>2. last \in AnyMessage /\ ClaudeMessage(last)
    <2>1. history \in Seq(AnyMessage) /\ Len(history) \in DOMAIN history
        BY <1>1, EmptySeq DEF AreMessages
    <2> QED
        BY <1>1, <2>1, ElementOfSeq DEF AreMessages, Shaped, Last, IsChatShaped
<1>3. calls \in Seq(AnyRef) /\ Distinct(calls) /\ \A n \in DOMAIN calls : calls[n] # NoId
    BY <1>2, CallsOfAnswer
<1>4. CallBlocks(last) # <<>>
    BY <1>1 DEF Refs
<1> HIDE DEF last, calls
<1>5. PICK order \in Orders : \E ids \in Given(order), first \in BOOLEAN,
            word \in {<<>>, <<Fresh("text")>>, <<Fresh("image"), Fresh("text")>>} :
        LET results == [n \in DOMAIN ids |-> Block("tool_result", ids[n])]
        IN  Ask(<<Message("user", FALSE, IF first THEN word \o results ELSE results \o word)>>)
    BY DEF AnswerClaude
<1>6. PICK ids \in Given(order), first \in BOOLEAN,
            word \in {<<>>, <<Fresh("text")>>, <<Fresh("image"), Fresh("text")>>} :
        LET results == [n \in DOMAIN ids |-> Block("tool_result", ids[n])]
        IN  Ask(<<Message("user", FALSE, IF first THEN word \o results ELSE results \o word)>>)
    BY <1>5
<1>7. AnswersFor(ids, Pending)
    BY <1>1, <1>3, GivenAnswers
<1> DEFINE results == [n \in DOMAIN ids |-> Block("tool_result", ids[n])]
           blocks == IF first THEN word \o results ELSE results \o word
           no == FALSE
           m == Message("user", no, blocks)
<1>8. Ask(<<m>>)
    BY <1>6
<1>9. ids \in Seq(AnyRef) /\ Distinct(ids) /\ DOMAIN ids = 1 .. Len(ids) /\ Len(ids) \in Nat
    BY <1>7, LenProperties DEF AnswersFor
<1>10. /\ results \in Seq(AnyContent) /\ DOMAIN results = DOMAIN ids
       /\ \A n \in DOMAIN results : results[n].type = "tool_result" /\ results[n].ref = ids[n]
    <2>1. \A n \in DOMAIN ids : Block("tool_result", ids[n]) \in AnyContent
        BY <1>9, ElementOfSeq DEF Block, AnyContent
    <2>2. results \in Seq(AnyContent)
        BY <1>9, <2>1
    <2> QED
        BY <2>2 DEF Block
<1>11. word \in Seq(AnyContent) /\ \A n \in DOMAIN word : word[n].type \in {"text", "image"}
    <2> DEFINE t == Fresh("text")
               i == Fresh("image")
    <2>1. Len(history) + 1 \in Nat
        BY LenProperties DEF AreMessages
    <2>2. Id("text", Len(history) + 1) \in AnyRef /\ Id("image", Len(history) + 1) \in AnyRef
        BY <2>1, IdsAreRefs
    <2>3. t \in AnyContent /\ t.type = "text" /\ i \in AnyContent /\ i.type = "image"
        BY <2>2 DEF Fresh, Block, AnyContent
    <2>4. word \in {<<>>, <<t>>, <<i, t>>}
        OBVIOUS
    <2> HIDE DEF t, i
    <2>5. CASE word = <<>>
        BY <2>5
    <2>6. CASE word = <<t>>
        BY <2>3, <2>6
    <2>7. CASE word = <<i, t>>
        BY <2>3, <2>7
    <2> QED
        BY <2>4, <2>5, <2>6, <2>7
<1> HIDE DEF results
<1>12. /\ blocks \in Seq(AnyContent)
       /\ \A n \in DOMAIN blocks : blocks[n].type \in {"text", "image", "tool_result"}
       /\ \A n, k \in DOMAIN blocks : blocks[n].type = "tool_result" /\ blocks[n] = blocks[k] => n = k
       /\ OfTypes(blocks, {"tool_result"}) = results
    <2>1. OfTypes(results, {"tool_result"}) = results /\ OfTypes(word, {"tool_result"}) = <<>>
        BY <1>10, <1>11, OfTypesAll
    <2>2. \A n, k \in DOMAIN results : results[n] = results[k] => n = k
        BY <1>9, <1>10 DEF Distinct
    <2>3. ASSUME NEW a \in Seq(AnyContent), NEW b \in Seq(AnyContent), blocks = a \o b,
                 (a = word /\ b = results) \/ (a = results /\ b = word)
          PROVE  /\ \A n \in DOMAIN blocks : blocks[n].type \in {"text", "image", "tool_result"}
                 /\ \A n, k \in DOMAIN blocks : blocks[n].type = "tool_result" /\ blocks[n] = blocks[k] => n = k
                 /\ OfTypes(blocks, {"tool_result"}) = results
        <3> HIDE DEF blocks
        <3>1. /\ Len(a) \in Nat /\ Len(b) \in Nat /\ DOMAIN blocks = 1 .. Len(a) + Len(b)
              /\ DOMAIN a = 1 .. Len(a) /\ DOMAIN b = 1 .. Len(b)
              /\ \A n \in 1 .. Len(a) + Len(b) : blocks[n] = IF n <= Len(a) THEN a[n] ELSE b[n - Len(a)]
            BY <2>3, ConcatProperties, LenProperties
        <3>2. \A n \in DOMAIN blocks : (n \in DOMAIN a /\ blocks[n] = a[n])
                                        \/ (n - Len(a) \in DOMAIN b /\ blocks[n] = b[n - Len(a)])
            BY <3>1
        <3>3. \A n \in DOMAIN blocks : blocks[n].type \in {"text", "image", "tool_result"}
            BY <1>10, <1>11, <2>3, <3>2
        <3>4. ASSUME NEW n \in DOMAIN blocks, NEW k \in DOMAIN blocks,
                     blocks[n].type = "tool_result", blocks[n] = blocks[k]
              PROVE  n = k
            <4>1. CASE a = word /\ b = results
                <5>1. n - Len(a) \in DOMAIN b /\ blocks[n] = b[n - Len(a)]
                    BY <1>11, <3>2, <3>4, <4>1
                <5>2. k - Len(a) \in DOMAIN b /\ blocks[k] = b[k - Len(a)]
                    BY <1>11, <3>2, <3>4, <4>1
                <5>3. n - Len(a) = k - Len(a)
                    BY <2>2, <3>4, <4>1, <5>1, <5>2
                <5> QED
                    BY <3>1, <5>3
            <4>2. CASE a = results /\ b = word
                <5>1. n \in DOMAIN a /\ blocks[n] = a[n]
                    BY <1>11, <3>2, <3>4, <4>2
                <5>2. k \in DOMAIN a /\ blocks[k] = a[k]
                    BY <1>11, <3>2, <3>4, <4>2
                <5> QED
                    BY <2>2, <3>4, <4>2, <5>1, <5>2
            <4> QED
                BY <2>3, <4>1, <4>2
        <3>5. OfTypes(blocks, {"tool_result"}) = OfTypes(a, {"tool_result"}) \o OfTypes(b, {"tool_result"})
            BY <2>3, OfTypesJoined
        <3>6. results \o <<>> = results /\ <<>> \o results = results
            BY <1>10
        <3> QED
            BY <2>1, <2>3, <3>3, <3>4, <3>5, <3>6
    <2>4. blocks \in Seq(AnyContent)
        BY <1>10, <1>11
    <2>5. CASE first
        BY <1>10, <1>11, <2>3, <2>4, <2>5
    <2>6. CASE ~first
        BY <1>10, <1>11, <2>3, <2>4, <2>6
    <2> QED
        BY <2>4, <2>5, <2>6
<1>13. no \in BOOLEAN
    OBVIOUS
<1> HIDE DEF blocks, no
<1>14. m \in AnyMessage /\ m.role = "user" /\ m.isString = no /\ m.blocks = blocks /\ m.calls = <<>> /\ m.id = NoId
    BY <1>12, <1>13, Constructed
<1> HIDE DEF m
<1>15. ClaudeMessage(m)
    BY <1>12, <1>14 DEF ClaudeMessage, no
<1>16. Refs(OfTypes(m.blocks, {"tool_result"})) = ids
    <2>1. Refs(results) = [n \in DOMAIN results |-> results[n].ref]
        BY DEF Refs
    <2>2. ids = [n \in DOMAIN ids |-> ids[n]]
        BY <1>9
    <2> QED
        BY <1>10, <1>12, <1>14, <2>1, <2>2
<1>17. AnswersFor(Refs(OfTypes(m.blocks, {"tool_result"})), calls)
    BY <1>1, <1>7, <1>16
<1> QED
    BY <1>1, <1>2, <1>4, <1>8, <1>14, <1>15, <1>17 DEF last, calls

\* In the shape of chat completions the client answers them by as many messages
\* (AnswerChat).
LEMMA AnsweredInMessages ==
    ASSUME AreMessages(setting, history), AnswerChat
    PROVE  /\ history # <<>> /\ Last(history) \in AnyMessage /\ ChatMessage(Last(history))
           /\ Last(history).role = "assistant" /\ Last(history).calls # <<>> /\ IsChatShaped
           /\ Distinct(Last(history).calls)
                => \E ids : /\ AnswersFor(ids, Last(history).calls)
                            /\ Ask([n \in DOMAIN ids |-> ToolMessage(ids[n])])
           /\ \E added : AreMessages(setting, added) /\ Ask(added)
<1> DEFINE last == Last(history)
           results(ids) == [n \in DOMAIN ids |-> ToolMessage(ids[n])]
<1>1. history # <<>> /\ last.role = "assistant" /\ IsChatShaped /\ Pending = last.calls /\ Pending # <<>>
    BY DEF AnswerChat, Pending
<1>2. last \in AnyMessage /\ ChatMessage(last)
    <2>1. history \in Seq(AnyMessage) /\ Len(history) \in DOMAIN history
        BY <1>1, EmptySeq DEF AreMessages
    <2> QED
        BY <1>1, <2>1, ElementOfSeq DEF AreMessages, Shaped, Last, IsChatShaped
<1>3. /\ last.calls \in Seq(CallId) /\ last.calls \in Seq(AnyRef)
      /\ \A n \in DOMAIN last.calls : last.calls[n] \in CallId /\ last.calls[n] # NoId
    <2>1. last.calls \in Seq(CallId) /\ last.calls \in Seq(AnyRef)
        BY <1>2 DEF ChatMessage, AnyMessage
    <2>2. \A n \in DOMAIN last.calls : last.calls[n] \in CallId
        BY <2>1, ElementOfSeq
    <2> QED
        BY <2>1, <2>2, IdsAreRefs
<1> HIDE DEF last
<1>4. PICK order \in Orders : \E ids \in Given(order) : Ask(results(ids))
    BY DEF AnswerChat
<1>5. PICK ids \in Given(order) : Ask(results(ids))
    BY <1>4
<1>6. Distinct(last.calls) => AnswersFor(ids, last.calls)
    BY <1>1, <1>3, GivenAnswers
<1>7. AreMessages(setting, results(ids))
    <2> DEFINE k == Len(Pending)
    <2>1. k \in Nat /\ DOMAIN Pending = 1 .. k /\ \A n \in 1 .. k : Pending[n] \in CallId
        BY <1>1, <1>3, LenProperties
    <2>2. order = Pending \/ order = [n \in 1 .. k |-> Pending[k - n + 1]]
        BY DEF Orders, Reverse
    <2> HIDE DEF k
    <2>3. DOMAIN order = 1 .. k /\ \A n \in 1 .. k : order[n] \in CallId
        BY <2>1, <2>2
    <2>4. ids = order \/ ids = [order EXCEPT ![1] = NoId]
        BY DEF Given
    <2>5. DOMAIN ids = 1 .. k /\ \A n \in 1 .. k : ids[n] \in CallId \cup {NoId}
        BY <2>3, <2>4
    <2>6. \A id \in CallId \cup {NoId} : id \in AnyRef
        BY IdsAreRefs
    <2>7. \A id \in CallId \cup {NoId} : ToolMessage(id) \in AnyMessage /\ ChatMessage(ToolMessage(id))
        <3> SUFFICES ASSUME NEW id \in CallId \cup {NoId}
                     PROVE  ToolMessage(id) \in AnyMessage /\ ChatMessage(ToolMessage(id))
            OBVIOUS
        <3> DEFINE r == ToolMessage(id)
        <3>1. r \in AnyMessage /\ r.role = "tool" /\ r.blocks = <<>> /\ r.calls = <<>> /\ r.id = id
            BY <2>6, Constructed
        <3>2. <<>> \in Seq(CallId)
            OBVIOUS
        <3> HIDE DEF r
        <3>3. ChatMessage(r)
            BY <3>1, <3>2 DEF ChatMessage
        <3> QED
            BY <3>1, <3>3 DEF r
    <2>8. /\ DOMAIN results(ids) = 1 .. k
          /\ \A n \in 1 .. k : results(ids)[n] \in AnyMessage /\ ChatMessage(results(ids)[n])
        BY <2>5, <2>7
    <2>9. results(ids) \in Seq(AnyMessage)
        <3>1. results(ids) = [n \in 1 .. k |-> results(ids)[n]]
            BY <2>5
        <3> HIDE DEF results
        <3> QED
            BY <2>1, <2>8, <3>1
    <2> QED
        BY <1>1, <2>8, <2>9 DEF AreMessages, Shaped, IsChatShaped
<1> QED
    BY <1>1, <1>2, <1>5, <1>6, <1>7 DEF last


\* What the upstream replies in chat completions (ReplyChat).
LEMMA RepliedInChat ==
    ASSUME AreMessages(setting, history), ReplyChat
    PROVE  /\ IsChatShaped
           /\ \E m \in AnyMessage : ChatMessage(m) /\ m.role = "assistant" /\ Distinct(m.calls) /\ Reply(m)
<1>1. PICK calls \in CallNames, reasoning \in {"none", "given"} :
        Reply([Message("assistant", TRUE, <<Fresh("text")>>) EXCEPT !.calls = calls, !.reasoning = reasoning])
    BY DEF ReplyChat
<1> DEFINE yes == TRUE
           content == <<Fresh("text")>>
           text == Message("assistant", yes, content)
           m == [text EXCEPT !.calls = calls, !.reasoning = reasoning]
           a == Id("call", 1)
           b == Id("call", 2)
<1>2. Reply(m) /\ yes \in BOOLEAN
    BY <1>1
<1>3. Fresh("text") \in AnyContent /\ Fresh("text").type = "text"
    <2>1. Len(history) + 1 \in Nat
        BY LenProperties DEF AreMessages
    <2>2. Id("text", Len(history) + 1) \in AnyRef
        BY <2>1, IdsAreRefs
    <2> QED
        BY <2>2 DEF Fresh, Block, AnyContent
<1>4. content \in Seq(AnyContent) /\ \A n \in DOMAIN content : content[n].type \in {"text", "image"}
    <2> DEFINE t == Fresh("text")
    <2>1. content = <<t>> /\ t \in AnyContent /\ t.type = "text"
        BY <1>3
    <2> HIDE DEF t, content
    <2> QED
        BY <2>1
<1> HIDE DEF yes, content
<1>5. text \in AnyMessage /\ text.role = "assistant" /\ text.blocks = content /\ text.id = NoId
    BY <1>2, <1>4, Constructed
<1>6. calls \in Seq(CallId) /\ Distinct(calls)
    <2>1. a \in CallId /\ b \in CallId
        BY DEF CallId
    <2>2. a # b
        BY IdParts
    <2>3. calls \in {<<>>, <<a>>, <<a, b>>}
        BY DEF CallNames
    <2> HIDE DEF a, b
    <2>4. CASE calls = <<>>
        BY <2>4 DEF Distinct
    <2>5. CASE calls = <<a>>
        <3>1. <<a>> \in Seq(CallId) /\ \A i, j \in DOMAIN <<a>> : i = j
            BY <2>1
        <3> QED
            BY <2>5, <3>1 DEF Distinct
    <2>6. CASE calls = <<a, b>>
        <3>1. <<a, b>> \in Seq(CallId)
            BY <2>1
        <3>2. \A i, j \in DOMAIN <<a, b>> : <<a, b>>[i] = <<a, b>>[j] => i = j
            BY <2>2
        <3> QED
            BY <2>6, <3>1, <3>2 DEF Distinct
    <2> QED
        BY <2>3, <2>4, <2>5, <2>6
<1>7. calls \in Seq(AnyRef)
    <2>1. CallId \subseteq AnyRef
        BY IdsAreRefs
    <2> QED
        BY <1>6, <2>1, SeqMonotonic
<1> HIDE DEF text, a, b
<1>8. m \in AnyMessage /\ m.role = "assistant" /\ m.blocks = content /\ m.id = NoId /\ m.calls = calls
    BY <1>5, <1>7 DEF AnyMessage
<1> HIDE DEF m
<1>9. ChatMessage(m)
    BY <1>4, <1>6, <1>8 DEF ChatMessage
<1> QED
    BY <1>1, <1>2, <1>6, <1>8, <1>9 DEF ReplyChat

\* What is written in an answer of Claude's is a text.
LEMMA WrittenType ==
    ASSUME NEW n \in Nat
    PROVE  Written(n) \in AnyText
<1> DEFINE one == <<InvokeOpen("Read"), InvokeClose>>
           parts == [k \in 1 .. n |-> one]
           open == <<Word("w"), RegionOpen>>
           close == <<RegionClose>>
<1>1. /\ Word("w") \in AnyToken /\ RegionOpen \in AnyToken /\ RegionClose \in AnyToken
      /\ InvokeOpen("Read") \in AnyToken /\ InvokeClose \in AnyToken
    <2>1. "w" \in AnyName /\ "" \in AnyName /\ "Read" \in AnyName
        BY DEF AnyName
    <2> QED
        BY <2>1 DEF Word, RegionOpen, RegionClose, InvokeOpen, InvokeClose, AnyToken
<1>2. open \in AnyText /\ close \in AnyText /\ one \in AnyText
    BY <1>1 DEF AnyText
<1> HIDE DEF one
<1>3. parts \in Seq(Seq(AnyToken))
    BY <1>2 DEF AnyText
<1> HIDE DEF parts, open, close
<1>4. FlattenSeq(parts) \in Seq(AnyToken)
    BY <1>3, FlattenType
<1>5. open \o FlattenSeq(parts) \o close \in AnyText
    BY <1>2, <1>4, ConcatProperties DEF AnyText
<1> QED
    BY <1>5 DEF Written, open, close, parts, one

\* The parts of a block.
LEMMA PartsOfBlock ==
    ASSUME NEW b \in AnyBlock
    PROVE  b.type \in {"text", "tool_use", "thinking"} /\ b.id \in AnyId
<1>1. CASE b \in {TextBlock(text) : text \in AnyText}
    <2>1. NoId \in AnyId
        BY DEF AnyId
    <2>2. \A text \in AnyText : TextBlock(text).type = "text" /\ TextBlock(text).id = NoId
        BY DEF TextBlock
    <2>3. PICK text \in AnyText : b = TextBlock(text)
        BY <1>1
    <2> QED
        BY <2>1, <2>2, <2>3
<1>2. CASE b \in {ToolUse(id, name, input) : id \in AnyId, name \in AnyName, input \in SUBSET AnyName}
    BY <1>2 DEF ToolUse
<1>3. CASE b = Thinking
    BY <1>3 DEF Thinking, AnyId
<1> QED
    BY <1>1, <1>2, <1>3 DEF AnyBlock, Tellable

\* One element before or behind another, or behind nothing.
LEMMA TwoJoined ==
    ASSUME NEW S, NEW a \in S, NEW b \in S
    PROVE  <<a>> \o <<b>> = <<a, b>> /\ <<>> \o <<a>> = <<a>> /\ <<a>> \o <<>> = <<a>>
<1>1. <<a>> \in Seq(S) /\ <<b>> \in Seq(S) /\ <<a, b>> \in Seq(S)
    OBVIOUS
<1>2. <<>> \o <<a>> = <<a>> /\ <<a>> \o <<>> = <<a>>
    BY <1>1
<1>3. <<a>> \o <<b>> = <<a, b>>
    <2> DEFINE joined == <<a>> \o <<b>>
               pair == <<a, b>>
    <2>1. joined \in Seq(S) /\ Len(joined) = 2 /\ joined[1] = a /\ joined[2] = b
        BY <1>1
    <2>2. pair \in Seq(S) /\ Len(pair) = 2 /\ pair[1] = a /\ pair[2] = b
        BY <1>1
    <2> HIDE DEF joined, pair
    <2>3. joined = pair
        BY <2>1, <2>2, SeqEqual
    <2> QED
        BY <2>3 DEF joined, pair
<1> QED
    BY <1>2, <1>3

\* What Claude answers in, as the client gets it: blocks, whose calls have ids
\* that differ (RewriteClaudeMessageDSML).
LEMMA ClaudeAnswersType ==
    ASSUME NEW blocks \in ClaudeAnswers
    PROVE  /\ blocks \in Seq(AnyBlock) /\ IdsDiffer(blocks)
           /\ \A i \in DOMAIN blocks : blocks[i].type = "tool_use" => blocks[i].id # NoId
<1> DEFINE said(n) == TextBlock(Written(n))
           call == ToolUse(Id("toolu", 1), "Read", {})
           thought == Thinking
<1>2. \A n \in {0, 1, 2} : said(n) \in AnyBlock /\ said(n).id = NoId /\ said(n).type = "text"
    <2> SUFFICES ASSUME NEW n \in {0, 1, 2} PROVE said(n) \in AnyBlock /\ said(n).id = NoId /\ said(n).type = "text"
        OBVIOUS
    <2>1. Written(n) \in AnyText
        BY WrittenType
    <2> QED
        BY <2>1, TextBlockType DEF TextBlock
<1>3. call \in AnyBlock /\ call.id = Id("toolu", 1) /\ call.type = "tool_use"
    <2>1. Id("toolu", 1) \in AnyId /\ "Read" \in AnyName
        BY DEF AnyId, AnyName
    <2> QED
        BY <2>1, ToolUseType DEF ToolUse
<1>4. thought \in AnyBlock /\ thought.id = NoId /\ thought.type = "thinking"
    BY DEF AnyBlock, Thinking
<1>1. PICK before \in {<<said(1)>>, <<thought, said(1)>>, <<said(0)>>, <<said(2)>>, <<said(0), call>>, <<said(2), call>>} :
        blocks = RewriteClaudeMessageDSML(before)
    <2>1. \A n \in {0, 1, 2} : /\ <<>> \o <<said(n)>> = <<said(n)>> /\ <<said(n)>> \o <<>> = <<said(n)>>
                              /\ <<thought>> \o <<said(n)>> = <<thought, said(n)>>
                              /\ <<said(n)>> \o <<call>> = <<said(n), call>>
        <3> HIDE DEF said, call, thought
        <3> QED
            BY <1>2, <1>3, <1>4, TwoJoined
    <2>2. CASE \E thoughts \in {<<>>, <<thought>>} : blocks = RewriteClaudeMessageDSML(thoughts \o <<said(1)>>)
        <3> HIDE DEF said, call, thought
        <3> QED
            BY <2>1, <2>2
    <2>3. CASE \E n \in {0, 2}, calls \in {<<>>, <<call>>} : blocks = RewriteClaudeMessageDSML(<<said(n)>> \o calls)
        <3> HIDE DEF said, call, thought
        <3> QED
            BY <2>1, <2>3
    <2> QED
        BY <2>2, <2>3 DEF ClaudeAnswers
<1>5. Id("toolu", 1) # NoId /\ Id("toolu", 1).maker = "toolu"
    BY IdParts
<1> HIDE DEF said, call, thought
<1>6. /\ before \in Seq(AnyBlock) /\ UpstreamIds(before)
      /\ \A i \in DOMAIN before : before[i].type = "tool_use" => before[i].id # NoId
    <2>1. ASSUME NEW n \in {0, 1, 2}, before = <<said(n)>>
          PROVE  /\ before \in Seq(AnyBlock) /\ UpstreamIds(before)
                 /\ \A i \in DOMAIN before : before[i].type = "tool_use" => before[i].id # NoId
        BY <1>2, <2>1 DEF UpstreamIds, IdsDiffer
    <2>2. ASSUME NEW n \in {0, 2}, before = <<said(n), call>>
          PROVE  /\ before \in Seq(AnyBlock) /\ UpstreamIds(before)
                 /\ \A i \in DOMAIN before : before[i].type = "tool_use" => before[i].id # NoId
        <3>1. said(n) \in AnyBlock /\ said(n).id = NoId /\ said(n).type = "text"
            BY <1>2
        <3>2. before \in Seq(AnyBlock) /\ DOMAIN before = {1, 2} /\ before[1] = said(n) /\ before[2] = call
            BY <1>3, <2>2, <3>1
        <3> QED
            BY <1>3, <1>5, <3>1, <3>2 DEF UpstreamIds, IdsDiffer
    <2>3. CASE before = <<thought, said(1)>>
        <3>1. said(1) \in AnyBlock /\ said(1).id = NoId /\ said(1).type = "text"
            BY <1>2
        <3>2. before \in Seq(AnyBlock) /\ DOMAIN before = {1, 2} /\ before[1] = thought /\ before[2] = said(1)
            BY <1>4, <2>3, <3>1
        <3> QED
            BY <1>4, <3>1, <3>2 DEF UpstreamIds, IdsDiffer
    <2> QED
        BY <1>1, <2>1, <2>2, <2>3
<1> QED
    BY <1>1, <1>6, RewriteType, RewrittenIdsDiffer, RewrittenCallsHaveIds

\* What the upstream replies in Claude's shape (ReplyClaude).
LEMMA RepliedInBlocks ==
    ASSUME AreMessages(setting, history), ReplyClaude
    PROVE  /\ ~IsChatShaped
           /\ \E m \in AnyMessage : ClaudeMessage(m) /\ m.role = "assistant" /\ Reply(m)
<1> DEFINE one(b) == IF b.type = "tool_use" THEN Block("tool_use", b.id) ELSE Fresh(b.type)
<1>1. PICK blocks \in ClaudeAnswers :
        Reply(Message("assistant", FALSE, [n \in DOMAIN blocks |-> one(blocks[n])]))
    BY DEF ReplyClaude
<1>2. /\ blocks \in Seq(AnyBlock) /\ IdsDiffer(blocks)
      /\ \A i \in DOMAIN blocks : blocks[i].type = "tool_use" => blocks[i].id # NoId
    BY ClaudeAnswersType
<1>3. DOMAIN blocks = 1 .. Len(blocks) /\ Len(blocks) \in Nat
    BY <1>2, LenProperties
<1>4. \A n \in DOMAIN blocks : blocks[n].type \in {"text", "tool_use", "thinking"} /\ blocks[n].id \in AnyId
    BY <1>2, ElementOfSeq, PartsOfBlock
<1>5. \A type \in {"text", "thinking"} : Fresh(type) \in AnyContent /\ Fresh(type).type = type
    <2>1. Len(history) + 1 \in Nat
        BY LenProperties DEF AreMessages
    <2>2. Id("text", Len(history) + 1) \in AnyRef /\ Id("thinking", Len(history) + 1) \in AnyRef
        BY <2>1, IdsAreRefs
    <2> QED
        BY <2>2 DEF Fresh, Block, AnyContent
<1>6. \A id \in AnyId : /\ Block("tool_use", id) \in AnyContent /\ Block("tool_use", id).type = "tool_use"
                        /\ Block("tool_use", id).ref = id
    <2>1. AnyId \subseteq AnyRef
        BY IdsAreRefs
    <2> QED
        BY <2>1 DEF Block, AnyContent
<1> DEFINE contents == [n \in DOMAIN blocks |-> one(blocks[n])]
           no == FALSE
           m == Message("assistant", no, contents)
<1>7. \A n \in DOMAIN blocks :
        /\ one(blocks[n]) \in AnyContent
        /\ one(blocks[n]).type = blocks[n].type
        /\ blocks[n].type = "tool_use" => one(blocks[n]).ref = blocks[n].id
    <2> SUFFICES ASSUME NEW n \in DOMAIN blocks
                 PROVE  /\ one(blocks[n]) \in AnyContent
                        /\ one(blocks[n]).type = blocks[n].type
                        /\ blocks[n].type = "tool_use" => one(blocks[n]).ref = blocks[n].id
        OBVIOUS
    <2>1. CASE blocks[n].type = "tool_use"
        <3>1. one(blocks[n]) = Block("tool_use", blocks[n].id) /\ blocks[n].id \in AnyId
            BY <1>4, <2>1
        <3> HIDE DEF one
        <3> QED
            BY <1>6, <2>1, <3>1
    <2>2. CASE blocks[n].type # "tool_use"
        <3>1. one(blocks[n]) = Fresh(blocks[n].type) /\ blocks[n].type \in {"text", "thinking"}
            BY <1>4, <2>2
        <3> HIDE DEF one
        <3> QED
            BY <1>5, <2>2, <3>1
    <2> QED
        BY <2>1, <2>2
<1>8. Reply(m) /\ no \in BOOLEAN
    BY <1>1
<1>9. DOMAIN contents = DOMAIN blocks /\ \A n \in DOMAIN blocks : contents[n] = one(blocks[n])
    OBVIOUS
<1> HIDE DEF one
<1>10. contents \in Seq(AnyContent)
    BY <1>3, <1>7
<1> HIDE DEF contents, no
<1>11. /\ m \in AnyMessage /\ m.role = "assistant" /\ m.isString = no /\ m.blocks = contents /\ m.calls = <<>>
       /\ m.id = NoId
    BY <1>8, <1>10, Constructed
<1> HIDE DEF m
<1>12. \A n \in DOMAIN contents : /\ contents[n].type # "tool_result"
                                  /\ contents[n].type = "tool_use" => contents[n].ref = blocks[n].id /\ contents[n].ref # NoId
                                                                      /\ blocks[n].id # NoId
    BY <1>2, <1>4, <1>7, <1>9
<1>13. \A n, k \in DOMAIN contents : contents[n].type = "tool_use" /\ contents[n] = contents[k] => n = k
    <2> SUFFICES ASSUME NEW n \in DOMAIN contents, NEW k \in DOMAIN contents,
                        contents[n].type = "tool_use", contents[n] = contents[k]
                 PROVE  n = k
        OBVIOUS
    <2>1. blocks[n].id = blocks[k].id /\ blocks[n].id # NoId
        BY <1>12
    <2> QED
        BY <1>2, <1>9, <2>1 DEF IdsDiffer
<1>14. ClaudeMessage(m)
    BY <1>11, <1>12, <1>13 DEF ClaudeMessage, no
<1> QED
    BY <1>8, <1>11, <1>14 DEF ReplyClaude
-----------------------------------------------------------------------------
(* Reasoning and session                                                   *)

\* Strengthening of SessionSettles: the history at any time, whatever was added
\* since, gives the session that an earlier request was found to be of.
Identified ==
    session # NoSession /\ session.kind # "random" => \A n : SessionOf(setting, n) = session

\* Strengthening of ReasoningArrives: the upstream has what the rewritings make
\* of the history as it is.
IsRewrittenHistory ==
    IsForwarded => forwarded = ForwardBody(setting, Request(setting, history))

ConversationInv == AreMessages(setting, history) /\ Identified /\ IsRewrittenHistory

\* Whatever the client adds are messages (SayNext, AnswerClaude, AnswerChat,
\* AskAgain); it adds them behind what it has.
LEMMA ClientAddsMessages ==
    ASSUME AreMessages(setting, history), SayNext \/ AnswerClaude \/ AnswerChat \/ AskAgain
    PROVE  /\ \E added : AreMessages(setting, added) /\ history' = history \o added
           /\ phase' = "gateway" /\ UNCHANGED <<setting, session, forwarded>>
<1>1. ASSUME NEW added, AreMessages(setting, added), Ask(added)
      PROVE  /\ \E new : AreMessages(setting, new) /\ history' = history \o new
             /\ phase' = "gateway" /\ UNCHANGED <<setting, session, forwarded>>
    BY <1>1 DEF Ask
<1>2. CASE SayNext
    BY <1>1, <1>2, SaidNext
<1>3. CASE AnswerClaude
    <2>1. PICK m \in AnyMessage : ClaudeMessage(m) /\ m.role = "user" /\ Ask(<<m>>)
        BY <1>3, AnsweredInBlocks
    <2>2. ~IsChatShaped
        BY <1>3 DEF AnswerClaude
    <2>3. AreMessages(setting, <<m>>)
        BY <2>1, <2>2, OneMessage DEF Shaped, IsChatShaped
    <2> QED
        BY <1>1, <2>1, <2>3
<1>4. CASE AnswerChat
    BY <1>1, <1>4, AnsweredInMessages
<1>5. CASE AskAgain
    <2>1. AreMessages(setting, <<>>)
        BY EmptySeq DEF AreMessages
    <2> QED
        BY <1>1, <1>5, <2>1 DEF AskAgain
<1> QED
    BY <1>2, <1>3, <1>4, <1>5

\* What the upstream replies is one message, behind the history.
LEMMA ReplyIsMessage ==
    ASSUME AreMessages(setting, history), ReplyChat \/ ReplyClaude
    PROVE  /\ \E added : AreMessages(setting, added) /\ history' = history \o added
           /\ phase' = "client" /\ UNCHANGED <<setting, session, forwarded>>
<1>1. PICK m \in AnyMessage : Shaped(setting, m) /\ Reply(m)
    BY RepliedInChat, RepliedInBlocks DEF Shaped, IsChatShaped
<1>2. AreMessages(setting, <<m>>)
    BY <1>1, OneMessage
<1>3. history' = history \o <<m>>
    <2>1. history \in Seq(AnyMessage)
        BY DEF AreMessages
    <2> QED
        BY <1>1, <2>1 DEF Reply
<1> QED
    BY <1>1, <1>2, <1>3 DEF Reply

\* The session found for a history is the one found for it with more messages
\* behind, on every path (SessionOf, IdentitySurvives).
LEMMA SessionStays ==
    ASSUME AreMessages(setting, history), Identified,
           NEW added, AreMessages(setting, added), history' = history \o added,
           UNCHANGED <<setting, session>>
    PROVE  Identified'
<1> DEFINE InBody(messages) == IF setting.path = "/v1/responses" THEN <<>> ELSE messages
<1>1. history \in Seq(AnyMessage) /\ added \in Seq(AnyMessage)
    BY DEF AreMessages
<1> SUFFICES ASSUME session # NoSession, session.kind # "random", NEW k
             PROVE  ExtractFromRequest(Request(setting, InBody(history \o added)), k) = session
    BY DEF Identified, SessionOf
<1>2. ExtractFromRequest(Request(setting, InBody(history)), k) = session
    BY DEF Identified, SessionOf
<1>3. CASE setting.path = "/v1/responses"
    BY <1>2, <1>3
<1>4. CASE setting.path # "/v1/responses"
    BY <1>1, <1>2, <1>4, IdentitySurvives
<1> QED
    BY <1>3, <1>4

\* Every step keeps the strengthened invariant, and the session of an identified
\* conversation with it.
LEMMA ConversationStep ==
    ASSUME ConversationInv, [Next]_vars
    PROVE  /\ ConversationInv'
           /\ session.kind # "random" /\ session # NoSession => session' = session
<1>1. ASSUME NEW added, AreMessages(setting, added), history' = history \o added,
             phase' # "upstream", UNCHANGED <<setting, session, forwarded>>
      PROVE  ConversationInv' /\ session' = session
    <2>1. AreMessages(setting, history \o added)
        BY <1>1, JoinedMessages DEF ConversationInv
    <2>2. Identified'
        BY <1>1, SessionStays DEF ConversationInv
    <2>3. IsRewrittenHistory'
        BY <1>1 DEF IsRewrittenHistory, IsForwarded
    <2> QED
        BY <1>1, <2>1, <2>2, <2>3 DEF ConversationInv, AreMessages
<1>2. ASSUME UNCHANGED <<setting, history, session>>
      PROVE  AreMessages(setting, history)' /\ Identified'
    BY <1>2 DEF ConversationInv, AreMessages, Identified, SessionOf, Request
<1>3. CASE SayNext \/ AnswerClaude \/ AnswerChat \/ AskAgain
    <2>1. PICK added : /\ AreMessages(setting, added) /\ history' = history \o added
                       /\ phase' = "gateway" /\ UNCHANGED <<setting, session, forwarded>>
        BY <1>3, ClientAddsMessages DEF ConversationInv
    <2> QED
        BY <1>1, <2>1
<1>4. CASE ReplyChat \/ ReplyClaude
    <2>1. PICK added : /\ AreMessages(setting, added) /\ history' = history \o added
                       /\ phase' = "client" /\ UNCHANGED <<setting, session, forwarded>>
        BY <1>4, ReplyIsMessage DEF ConversationInv
    <2> QED
        BY <1>1, <2>1
<1>5. CASE Refuse
    <2>1. phase' = "refused" /\ UNCHANGED <<setting, history, session>>
        BY <1>5 DEF Refuse
    <2> QED
        BY <1>2, <2>1 DEF ConversationInv, IsRewrittenHistory, IsForwarded
<1>6. CASE Fail
    <2>1. phase' = "client" /\ UNCHANGED <<setting, history, session>>
        BY <1>6 DEF Fail
    <2> QED
        BY <1>2, <2>1 DEF ConversationInv, IsRewrittenHistory, IsForwarded
<1>7. CASE Forward
    <2> DEFINE found(n) == SessionOf(setting, n)
               asked == Len(history) + failures
    <2>1. session' = found(asked) /\ UNCHANGED <<setting, history>>
        BY <1>7 DEF Forward
    <2>2. AreMessages(setting, history)' /\ IsRewrittenHistory'
        BY <1>7 DEF Forward, ConversationInv, AreMessages, IsRewrittenHistory, IsForwarded,
                    ForwardBody, Request
    <2>3. session # NoSession /\ session.kind # "random" => session' = session
        BY <2>1 DEF ConversationInv, Identified
    <2>4. found(asked).kind # "random" => \A n : found(n) = found(asked)
        BY DEF SessionOf, ExtractFromRequest, Request, Random
    <2>5. \A n : SessionOf(setting, n)' = found(n)
        BY <2>1 DEF SessionOf, Request
    <2>6. Identified'
        BY <2>1, <2>4, <2>5 DEF Identified
    <2> QED
        BY <2>2, <2>3, <2>6 DEF ConversationInv
<1>8. CASE UNCHANGED vars
    BY <1>2, <1>8 DEF vars, ConversationInv, IsRewrittenHistory, IsForwarded, ForwardBody, Request
<1> QED
    BY <1>3, <1>4, <1>5, <1>6, <1>7, <1>8 DEF Next

\* The history, the session and what is forwarded are always so.
LEMMA ConversationAlways == Spec => []ConversationInv
<1>1. Init => ConversationInv
    BY DEF Init, ConversationInv, AreMessages, Identified, IsRewrittenHistory, IsForwarded
<1>2. ConversationInv /\ [Next]_vars => ConversationInv'
    BY ConversationStep
<1> QED
    BY <1>1, <1>2, PTL DEF Spec

\* Once something identifies a conversation its session stays the same, over
\* every turn, retry and failure, for histories of any length
\* (ExtractFromRequest, ServeHTTP).
THEOREM SessionsSettle == Spec => SessionSettles
<1>1. ConversationInv /\ [Next]_vars
        => [session.kind # "random" /\ session # NoSession => session' = session]_vars
    BY ConversationStep
<1> QED
    BY <1>1, ConversationAlways, PTL DEF Spec, SessionSettles

\* What a chat request becomes: message by message, with the same blocks and
\* calls, an id for every result, and reasoning where the model wants it
\* (NormalizeChatCompletionRequest, InjectReasoningContent).
LEMMA SentInChat ==
    ASSUME NEW messages \in Seq(AnyMessage), NEW s, s.path = "/v1/chat/completions"
    PROVE  LET sent == ForwardBody(s, Request(s, messages)).messages
           IN  /\ sent \in Seq(AnyMessage) /\ Len(sent) = Len(messages)
               /\ \A n \in DOMAIN messages :
                    /\ sent[n].blocks = messages[n].blocks /\ sent[n].calls = messages[n].calls
                    /\ sent[n].role = "tool" <=> messages[n].role = "tool"
                    /\ sent[n].id = IF messages[n].role = "tool" /\ messages[n].id = NoId THEN Id("gateway", n)
                                    ELSE messages[n].id
                    /\ InScope(messages[n], Scope(s.model)) => sent[n].reasoning # "none"
                    /\ messages[n].reasoning = "given" /\ (\A k \in DOMAIN messages : IsNormal(messages[k]))
                            => sent[n].reasoning = "given"
<1> DEFINE request == Request(s, messages)
           normal == NormalizeChatCompletionRequest(request)
           scope == Scope(s.model)
           sent == InjectReasoningContent(s.model, normal).messages
           all == \A k \in DOMAIN messages : IsNormal(messages[k])
           anew(n) == IF all THEN messages[n] ELSE NormalizedMessage(messages[n], n)
           with(m) == IF shouldInject(m, scope) THEN [m EXCEPT !.reasoning = "placeholder"] ELSE m
<1>1. ForwardBody(s, request).messages = sent
    BY DEF ForwardBody, Endpoint
<1>2. request.messages = messages /\ "messages" \in DOMAIN request
    BY DEF Request
<1>3. DOMAIN messages = 1 .. Len(messages) /\ Len(messages) \in Nat /\ \A n \in DOMAIN messages : messages[n] \in AnyMessage
    BY LenProperties, ElementOfSeq
<1>4. normal.messages = [n \in DOMAIN messages |-> anew(n)] /\ "messages" \in DOMAIN normal
    <2>1. CASE all
        <3>1. normal = request
            BY <1>2, <2>1 DEF NormalizeChatCompletionRequest
        <3>2. messages = [n \in DOMAIN messages |-> messages[n]]
            OBVIOUS
        <3> QED
            BY <1>2, <2>1, <3>1, <3>2
    <2>2. CASE ~all
        <3>1. normal = [request EXCEPT !.messages = [k \in DOMAIN messages |-> NormalizedMessage(messages[k], k)]]
            BY <1>2, <2>2 DEF NormalizeChatCompletionRequest
        <3>2. normal.messages = [k \in DOMAIN messages |-> NormalizedMessage(messages[k], k)]
              /\ "messages" \in DOMAIN normal
            BY <1>2, <3>1
        <3> QED
            BY <2>2, <3>2
    <2> QED
        BY <2>1, <2>2
<1>5. sent = [n \in DOMAIN messages |-> with(anew(n))]
    <2> HIDE DEF normal, anew
    <2>1. sent = [n \in DOMAIN normal.messages |-> with(normal.messages[n])]
        BY <1>4 DEF InjectReasoningContent
    <2>2. DOMAIN normal.messages = DOMAIN messages /\ \A n \in DOMAIN messages : normal.messages[n] = anew(n)
        BY <1>4
    <2> HIDE DEF with, sent
    <2> QED
        BY <2>1, <2>2
<1>6. ASSUME NEW n \in DOMAIN messages
      PROVE  /\ anew(n) \in AnyMessage /\ anew(n).blocks = messages[n].blocks /\ anew(n).calls = messages[n].calls
             /\ anew(n).role = IF ~all /\ messages[n].role = "developer" THEN "system" ELSE messages[n].role
             /\ anew(n).id = IF messages[n].role = "tool" /\ messages[n].id = NoId THEN Id("gateway", n)
                             ELSE messages[n].id
             /\ all => anew(n).reasoning = messages[n].reasoning
    <2> DEFINE m == messages[n]
    <2>1. m \in AnyMessage /\ n \in Nat
        BY <1>3
    <2>2. CASE all
        <3>1. ~ (m.role = "tool" /\ m.id = NoId)
            BY <2>2 DEF IsNormal
        <3>2. anew(n) = m
            BY <2>2
        <3> QED
            BY <2>1, <2>2, <3>1, <3>2
    <2>3. CASE ~all
        <3>1. anew(n) = NormalizedMessage(m, n)
            BY <2>3
        <3>2. Id("gateway", n) \in AnyRef
            BY <2>1, IdsAreRefs
        <3> HIDE DEF m, anew, all
        <3>3. /\ NormalizedMessage(m, n) \in AnyMessage /\ NormalizedMessage(m, n).blocks = m.blocks
              /\ NormalizedMessage(m, n).calls = m.calls
              /\ NormalizedMessage(m, n).role = IF m.role = "developer" THEN "system" ELSE m.role
              /\ NormalizedMessage(m, n).id = IF m.role = "tool" /\ m.id = NoId THEN Id("gateway", n) ELSE m.id
            BY <2>1, <3>2 DEF NormalizedMessage, AnyMessage
        <3> QED
            BY <2>3, <3>1, <3>3 DEF m
    <2> QED
        BY <2>2, <2>3
<1>7. ASSUME NEW m \in AnyMessage
      PROVE  /\ with(m) \in AnyMessage /\ with(m).blocks = m.blocks /\ with(m).calls = m.calls
             /\ with(m).role = m.role /\ with(m).id = m.id
             /\ InScope(m, scope) => with(m).reasoning # "none"
             /\ m.reasoning = "given" => with(m).reasoning = "given"
    <2>1. CASE shouldInject(m, scope)
        <3>1. with(m) = [m EXCEPT !.reasoning = "placeholder"]
            BY <2>1
        <3> HIDE DEF with
        <3> QED
            BY <2>1, <3>1 DEF shouldInject, AnyMessage
    <2>2. CASE ~shouldInject(m, scope)
        <3>1. with(m) = m
            BY <2>2
        <3> HIDE DEF with
        <3> QED
            BY <2>2, <3>1 DEF shouldInject
    <2> QED
        BY <2>1, <2>2
<1> HIDE DEF with, anew
<1>8. sent \in Seq(AnyMessage) /\ Len(sent) = Len(messages)
    <2>1. \A n \in DOMAIN messages : with(anew(n)) \in AnyMessage
        BY <1>6, <1>7
    <2> HIDE DEF sent
    <2> QED
        BY <1>3, <1>5, <2>1
<1>9. ASSUME NEW n \in DOMAIN messages
      PROVE  /\ sent[n].blocks = messages[n].blocks /\ sent[n].calls = messages[n].calls
             /\ sent[n].role = "tool" <=> messages[n].role = "tool"
             /\ sent[n].id = IF messages[n].role = "tool" /\ messages[n].id = NoId THEN Id("gateway", n)
                             ELSE messages[n].id
             /\ InScope(messages[n], scope) => sent[n].reasoning # "none"
             /\ messages[n].reasoning = "given" /\ all => sent[n].reasoning = "given"
    <2>1. sent[n] = with(anew(n))
        <3> HIDE DEF sent
        <3> QED
            BY <1>5
    <2>2. InScope(messages[n], scope) => InScope(anew(n), scope)
        BY <1>6 DEF InScope
    <2> HIDE DEF sent, all
    <2>3. anew(n) \in AnyMessage
        BY <1>6
    <2> QED
        BY <1>6, <1>7, <2>1, <2>2, <2>3
<1> HIDE DEF sent
<1> QED
    BY <1>1, <1>8, <1>9

\* A chat request reaches the upstream with reasoning in every message the model
\* wants it in, and with the client's own where no message was written anew,
\* for every model and histories of any length.
THEOREM ReasoningAlwaysArrives == Spec => []ReasoningArrives
<1>1. ConversationInv => ReasoningArrives
    BY SentInChat DEF ConversationInv, AreMessages, IsRewrittenHistory, ReasoningArrives, Sent
<1> QED
    BY <1>1, ConversationAlways, PTL

-----------------------------------------------------------------------------
(* Calls and results in the history                                        *)

\* In chat completions every message with calls that is not the last one is
\* followed by a result for each call and by no more of them; results stand
\* nowhere else.
Answered(messages, n) ==
    LET calls == messages[n].calls
    IN  /\ n + Len(calls) <= Len(messages)
        /\ \A k \in 1 .. Len(calls) : messages[n + k].role = "tool"
        /\ AnswersFor([k \in DOMAIN calls |-> messages[n + k].id], calls)
        /\ n + Len(calls) < Len(messages) => messages[n + Len(calls) + 1].role # "tool"

ChatTurns(messages) ==
    \A n \in DOMAIN messages :
        /\ Distinct(messages[n].calls)
        /\ messages[n].calls # <<>> /\ n < Len(messages) => Answered(messages, n)
        /\ messages[n].role = "tool" =>
            \E k \in 1 .. n - 1 : messages[k].calls # <<>> /\ n <= k + Len(messages[k].calls)

\* In Claude's shape the message behind the calls has the results, all of them
\* and of no other calls.
ResultsIn(m) == OfTypes(m.blocks, {"tool_result"})

ClaudeTurns(messages) ==
    \A n \in DOMAIN messages :
        /\ CallBlocks(messages[n]) # <<>> /\ n < Len(messages)
            => AnswersFor(Refs(ResultsIn(messages[n + 1])), Refs(CallBlocks(messages[n])))
        /\ ResultsIn(messages[n]) # <<>> => n > 1 /\ CallBlocks(messages[n - 1]) # <<>>

HasTheWord(messages) == messages # <<>> /\ Last(messages).role # "assistant"

\* Strengthening of ToolExchangeIsValid, about what the client has.
ExchangeInv ==
    /\ phase \in {"gateway", "upstream"} => HasTheWord(history)
    /\ IF IsChatShaped THEN ChatTurns(history) ELSE ClaudeTurns(history)

\* The messages of a history that was added to.
LEMMA Joining ==
    ASSUME NEW S, NEW old \in Seq(S), NEW new \in Seq(S)
    PROVE  /\ old \o new \in Seq(S) /\ Len(old) \in Nat /\ Len(new) \in Nat
           /\ Len(old \o new) = Len(old) + Len(new) /\ DOMAIN (old \o new) = 1 .. Len(old) + Len(new)
           /\ DOMAIN old = 1 .. Len(old) /\ DOMAIN new = 1 .. Len(new)
           /\ \A n \in 1 .. Len(old) : (old \o new)[n] = old[n]
           /\ \A n \in 1 .. Len(new) : (old \o new)[Len(old) + n] = new[n]
           /\ \A n \in 1 .. Len(old) + Len(new) : n \in 1 .. Len(old) \/ \E k \in 1 .. Len(new) : n = Len(old) + k
<1> DEFINE all == old \o new
<1>1. /\ all \in Seq(S) /\ Len(old) \in Nat /\ Len(new) \in Nat /\ Len(all) = Len(old) + Len(new)
      /\ \A n \in 1 .. Len(old) + Len(new) : all[n] = IF n <= Len(old) THEN old[n] ELSE new[n - Len(old)]
    BY ConcatProperties, LenProperties
<1>2. DOMAIN all = 1 .. Len(all) /\ DOMAIN old = 1 .. Len(old) /\ DOMAIN new = 1 .. Len(new)
    BY <1>1, LenProperties
<1> HIDE DEF all
<1>3. \A n \in 1 .. Len(old) : all[n] = old[n]
    BY <1>1
<1>4. ASSUME NEW n \in 1 .. Len(new) PROVE all[Len(old) + n] = new[n]
    <2>1. Len(old) + n \in 1 .. Len(old) + Len(new) /\ ~ (Len(old) + n <= Len(old)) /\ Len(old) + n - Len(old) = n
        BY <1>1
    <2> QED
        BY <1>1, <2>1
<1>5. ASSUME NEW n \in 1 .. Len(old) + Len(new), n \notin 1 .. Len(old)
      PROVE  \E k \in 1 .. Len(new) : n = Len(old) + k
    <2>1. n - Len(old) \in 1 .. Len(new) /\ n = Len(old) + (n - Len(old))
        BY <1>1, <1>5
    <2> QED
        BY <2>1
<1> QED
    BY <1>1, <1>2, <1>3, <1>4, <1>5 DEF all

\* A message added in chat completions: what is behind the last calls are their
\* results, or there were no calls.
LEMMA ChatTurnsJoined ==
    ASSUME NEW old \in Seq(AnyMessage), NEW new \in Seq(AnyMessage), ChatTurns(old),
           \A n \in DOMAIN old : old[n].calls # <<>> => old[n].role # "tool",
           \A n \in DOMAIN new : Distinct(new[n].calls) /\ (new[n].calls # <<>> => n = Len(new)),
           \/ /\ old # <<>> /\ old[Len(old)].calls # <<>>
              /\ \A n \in DOMAIN new : new[n].role = "tool" /\ n <= Len(old[Len(old)].calls)
              /\ Answered(old \o new, Len(old))
           \/ /\ old # <<>> => old[Len(old)].calls = <<>>
              /\ \A n \in DOMAIN new : new[n].role # "tool"
    PROVE  ChatTurns(old \o new)
<1> DEFINE all == old \o new
           a == Len(old)
           b == Len(new)
<1>1. /\ a \in Nat /\ b \in Nat /\ Len(all) = a + b /\ DOMAIN all = 1 .. a + b
      /\ DOMAIN old = 1 .. a /\ DOMAIN new = 1 .. b
      /\ \A n \in 1 .. a : all[n] = old[n]
      /\ \A n \in 1 .. b : all[a + n] = new[n]
      /\ \A n \in 1 .. a + b : n \in 1 .. a \/ \E k \in 1 .. b : n = a + k
    BY Joining
<1>2. \A n \in 1 .. a : old[n] \in AnyMessage /\ old[n].calls \in Seq(AnyRef) /\ Len(old[n].calls) \in Nat
    <2>1. \A n \in 1 .. a : old[n] \in AnyMessage
        BY ElementOfSeq
    <2>2. \A n \in 1 .. a : old[n].calls \in Seq(AnyRef)
        BY <2>1 DEF AnyMessage
    <2> QED
        BY <2>1, <2>2, LenProperties
<1>3. \A n \in 1 .. a : /\ Distinct(old[n].calls)
                        /\ old[n].calls # <<>> /\ n < a => Answered(old, n)
                        /\ old[n].role = "tool" =>
                            \E k \in 1 .. n - 1 : old[k].calls # <<>> /\ n <= k + Len(old[k].calls)
    BY <1>1 DEF ChatTurns
<1>4. old # <<>> => a \in 1 .. a
    BY <1>1, EmptySeq
<1> HIDE DEF all, a, b
<1>5. ASSUME NEW n \in 1 .. a, n < a, old[n].calls # <<>>
      PROVE  Answered(all, n)
    <2> DEFINE calls == old[n].calls
               k == Len(calls)
    <2>1. /\ n + k <= a
          /\ \A j \in 1 .. k : old[n + j].role = "tool"
          /\ AnswersFor([j \in DOMAIN calls |-> old[n + j].id], calls)
          /\ n + k < a => old[n + k + 1].role # "tool"
        BY <1>3, <1>5 DEF Answered, a
    <2>2. k \in Nat /\ DOMAIN calls = 1 .. k /\ all[n].calls = calls
        BY <1>1, <1>2, LenProperties
    <2>3. k # 0
        BY <1>2, <1>5, EmptySeq
    <2> HIDE DEF calls, k
    <2>4. \A j \in 1 .. k : n + j \in 1 .. a /\ all[n + j] = old[n + j]
        BY <1>1, <2>1, <2>2
    <2>5. [j \in DOMAIN calls |-> all[n + j].id] = [j \in DOMAIN calls |-> old[n + j].id]
        BY <2>2, <2>4
    <2>6. ASSUME n + k < a + b PROVE all[n + k + 1].role # "tool"
        <3>1. CASE n + k < a
            <4>1. n + k + 1 \in 1 .. a
                BY <1>1, <2>2, <3>1
            <4> QED
                BY <1>1, <2>1, <3>1, <4>1
        <3>2. CASE n + k = a
            <4>1. old[a].role = "tool"
                <5>1. k \in 1 .. k
                    BY <2>2, <2>3
                <5> QED
                    BY <2>1, <3>2, <5>1
            <4>2. a \in 1 .. a
                BY <1>1, <1>5
            <4>3. old[a].calls = <<>>
                BY <1>1, <4>1, <4>2
            <4>4. 1 \in 1 .. b /\ all[a + 1] = new[1]
                BY <1>1, <2>6, <3>2
            <4>5. new[1].role # "tool"
                BY <1>1, <4>3, <4>4 DEF a
            <4> QED
                BY <3>2, <4>4, <4>5
        <3> QED
            BY <1>1, <2>1, <2>2, <3>1, <3>2
    <2>7. n + k <= a + b
        BY <1>1, <2>1, <2>2
    <2> QED
        BY <1>1, <2>1, <2>2, <2>4, <2>5, <2>6, <2>7 DEF Answered, k
<1>9. \A n \in 1 .. b : Distinct(new[n].calls) /\ (new[n].calls # <<>> => n = b)
    BY <1>1 DEF b
<1>6. ASSUME NEW n \in 1 .. a + b PROVE Distinct(all[n].calls)
    <2>1. CASE n \in 1 .. a
        <3>1. all[n] = old[n] /\ Distinct(old[n].calls)
            BY <1>1, <1>3, <2>1
        <3> QED
            BY <3>1, Zenon
    <2>2. ASSUME NEW k \in 1 .. b, n = a + k PROVE Distinct(all[n].calls)
        <3>1. all[n] = new[k] /\ Distinct(new[k].calls)
            BY <1>1, <1>9, <2>2
        <3> QED
            BY <3>1, Zenon
    <2> QED
        BY <1>1, <2>1, <2>2
<1>7. ASSUME NEW n \in 1 .. a + b, all[n].calls # <<>>, n < a + b
      PROVE  Answered(all, n)
    <2>1. CASE n \in 1 .. a /\ n < a
        BY <1>1, <1>5, <1>7, <2>1
    <2>2. CASE n = a
        <3>1. a \in 1 .. a /\ old[a].calls # <<>>
            BY <1>1, <1>7, <2>2
        <3>2. old # <<>>
            BY <3>1 DEF a
        <3> QED
            BY <2>2, <3>1, <3>2 DEF a, all
    <2>3. CASE n \notin 1 .. a
        <3>1. PICK k \in 1 .. b : n = a + k
            BY <1>1, <2>3
        <3>2. k = b
            BY <1>1, <1>7, <1>9, <3>1
        <3> QED
            BY <1>1, <1>7, <3>1, <3>2
    <2> QED
        BY <1>1, <2>1, <2>2, <2>3
<1>8. ASSUME NEW n \in 1 .. a + b, all[n].role = "tool"
      PROVE  \E k \in 1 .. n - 1 : all[k].calls # <<>> /\ n <= k + Len(all[k].calls)
    <2>1. CASE n \in 1 .. a
        <3>1. PICK k \in 1 .. n - 1 : old[k].calls # <<>> /\ n <= k + Len(old[k].calls)
            BY <1>1, <1>3, <1>8, <2>1
        <3>2. k \in 1 .. a
            BY <1>1, <2>1
        <3> QED
            BY <1>1, <3>1, <3>2
    <2>2. CASE n \notin 1 .. a
        <3>1. PICK k \in 1 .. b : n = a + k
            BY <1>1, <2>2
        <3>2. old # <<>> /\ old[a].calls # <<>> /\ k <= Len(old[a].calls)
            BY <1>1, <1>8, <3>1 DEF a
        <3>3. a \in 1 .. n - 1 /\ a \in 1 .. a /\ n <= a + Len(old[a].calls)
            BY <1>1, <1>2, <1>4, <3>1, <3>2
        <3> QED
            BY <1>1, <3>2, <3>3
    <2> QED
        BY <2>1, <2>2
<1> QED
    BY <1>1, <1>6, <1>7, <1>8 DEF ChatTurns, all

\* The same in Claude's shape.
LEMMA ClaudeTurnsJoined ==
    ASSUME NEW old \in Seq(AnyMessage), NEW new \in Seq(AnyMessage), ClaudeTurns(old),
           \A n \in DOMAIN new : CallBlocks(new[n]) # <<>> => n = Len(new),
           \/ /\ old # <<>> /\ CallBlocks(old[Len(old)]) # <<>> /\ Len(new) = 1
              /\ AnswersFor(Refs(ResultsIn(new[1])), Refs(CallBlocks(old[Len(old)])))
           \/ /\ old # <<>> => CallBlocks(old[Len(old)]) = <<>>
              /\ \A n \in DOMAIN new : ResultsIn(new[n]) = <<>>
    PROVE  ClaudeTurns(old \o new)
<1> DEFINE all == old \o new
           a == Len(old)
           b == Len(new)
<1>1. /\ a \in Nat /\ b \in Nat /\ Len(all) = a + b /\ DOMAIN all = 1 .. a + b
      /\ DOMAIN old = 1 .. a /\ DOMAIN new = 1 .. b
      /\ \A n \in 1 .. a : all[n] = old[n]
      /\ \A n \in 1 .. b : all[a + n] = new[n]
      /\ \A n \in 1 .. a + b : n \in 1 .. a \/ \E k \in 1 .. b : n = a + k
    BY Joining
<1>2. \A n \in 1 .. a :
        /\ CallBlocks(old[n]) # <<>> /\ n < a => AnswersFor(Refs(ResultsIn(old[n + 1])), Refs(CallBlocks(old[n])))
        /\ ResultsIn(old[n]) # <<>> => n > 1 /\ CallBlocks(old[n - 1]) # <<>>
    BY <1>1 DEF ClaudeTurns
<1>3. old # <<>> => a \in 1 .. a
    BY <1>1, EmptySeq
<1> HIDE DEF all, a, b
<1>4. ASSUME NEW n \in 1 .. a + b, CallBlocks(all[n]) # <<>>, n < a + b
      PROVE  AnswersFor(Refs(ResultsIn(all[n + 1])), Refs(CallBlocks(all[n])))
    <2>1. CASE n \in 1 .. a /\ n < a
        <3>1. n + 1 \in 1 .. a
            BY <1>1, <2>1
        <3> QED
            BY <1>1, <1>2, <1>4, <2>1, <3>1
    <2>2. CASE n = a
        <3>1. a \in 1 .. a /\ 1 \in 1 .. b
            BY <1>1, <1>4, <2>2
        <3>2. all[a] = old[a] /\ all[a + 1] = new[1]
            BY <1>1, <3>1
        <3>3. old # <<>>
            BY <3>1 DEF a
        <3> QED
            BY <1>4, <2>2, <3>2, <3>3 DEF a
    <2>3. CASE n \notin 1 .. a
        <3>1. PICK k \in 1 .. b : n = a + k
            BY <1>1, <2>3
        <3>2. k = b
            BY <1>1, <1>4, <3>1 DEF b
        <3> QED
            BY <1>1, <1>4, <3>1, <3>2
    <2> QED
        BY <1>1, <2>1, <2>2, <2>3
<1>5. ASSUME NEW n \in 1 .. a + b, ResultsIn(all[n]) # <<>>
      PROVE  n > 1 /\ CallBlocks(all[n - 1]) # <<>>
    <2>1. CASE n \in 1 .. a
        <3>1. n > 1 /\ CallBlocks(old[n - 1]) # <<>>
            BY <1>1, <1>2, <1>5, <2>1
        <3>2. n - 1 \in 1 .. a
            BY <1>1, <2>1, <3>1
        <3> QED
            BY <1>1, <3>1, <3>2
    <2>2. CASE n \notin 1 .. a
        <3>1. PICK k \in 1 .. b : n = a + k
            BY <1>1, <2>2
        <3>2. old # <<>> /\ CallBlocks(old[a]) # <<>> /\ b = 1
            BY <1>1, <1>5, <3>1 DEF a, b
        <3>3. n > 1 /\ n - 1 = a /\ a \in 1 .. a
            BY <1>1, <1>3, <3>1, <3>2
        <3> QED
            BY <1>1, <3>2, <3>3
    <2> QED
        BY <2>1, <2>2
<1> QED
    BY <1>1, <1>4, <1>5 DEF ClaudeTurns, all

\* Only an answer has calls among its blocks, and only what the user says has
\* results.
LEMMA CallsAndResults ==
    ASSUME NEW m \in AnyMessage
    PROVE  /\ ClaudeMessage(m) /\ m.role = "user" => CallBlocks(m) = <<>>
           /\ ClaudeMessage(m) /\ m.role = "assistant" => ResultsIn(m) = <<>>
           /\ (\A k \in DOMAIN m.blocks : m.blocks[k].type \in {"text", "image"})
                => CallBlocks(m) = <<>> /\ ResultsIn(m) = <<>>
<1>1. m.blocks \in Seq(AnyContent)
    BY DEF AnyMessage
<1>2. CallBlocks(m) = OfTypes(m.blocks, {"tool_use"})
    BY BlocksOfTypes DEF CallBlocks
<1>3. /\ (\A n \in DOMAIN m.blocks : m.blocks[n].type \notin {"tool_use"}) => CallBlocks(m) = <<>>
      /\ (\A n \in DOMAIN m.blocks : m.blocks[n].type \notin {"tool_result"}) => ResultsIn(m) = <<>>
    BY <1>1, <1>2, OfTypesAll DEF ResultsIn
<1>4. ClaudeMessage(m) /\ m.role = "user" => \A n \in DOMAIN m.blocks : m.blocks[n].type \notin {"tool_use"}
    BY DEF ClaudeMessage
<1>5. ClaudeMessage(m) /\ m.role = "assistant" => \A n \in DOMAIN m.blocks : m.blocks[n].type \notin {"tool_result"}
    BY DEF ClaudeMessage
<1> QED
    BY <1>3, <1>4, <1>5

\* The last message of a history that was added to.
LEMMA LastJoined ==
    ASSUME NEW S, NEW old \in Seq(S), NEW new \in Seq(S), new # <<>>
    PROVE  /\ old \o new # <<>> /\ Last(old \o new) = new[Len(new)] /\ Len(new) \in DOMAIN new
<1> DEFINE all == old \o new
<1>1. /\ all \in Seq(S) /\ Len(old) \in Nat /\ Len(new) \in Nat
      /\ Len(all) = Len(old) + Len(new) /\ DOMAIN new = 1 .. Len(new)
      /\ \A n \in 1 .. Len(new) : all[Len(old) + n] = new[n]
    BY Joining
<1>2. Len(new) # 0
    BY EmptySeq
<1>3. Len(new) \in 1 .. Len(new)
    BY <1>1, <1>2
<1> HIDE DEF all
<1>4. all[Len(all)] = new[Len(new)]
    BY <1>1, <1>3
<1>5. all # <<>>
    BY <1>1, <1>3, EmptySeq
<1> QED
    BY <1>1, <1>3, <1>4, <1>5 DEF Last, all

\* What is known of the last message when somebody speaks.
LEMMA LastSpoken ==
    ASSUME AreMessages(setting, history), history # <<>>
    PROVE  /\ Last(history) = history[Len(history)] /\ Len(history) \in DOMAIN history
           /\ Last(history) \in AnyMessage /\ Shaped(setting, Last(history))
<1>1. history \in Seq(AnyMessage) /\ Len(history) \in DOMAIN history
    BY EmptySeq DEF AreMessages
<1> QED
    BY <1>1, ElementOfSeq DEF AreMessages, Last

\* Adding something plain behind a message without calls keeps the turns: a
\* turn of the user's or an answer (SayNext, ReplyChat, ReplyClaude).
LEMMA TurnsGoOn ==
    ASSUME AreMessages(setting, history), ExchangeInv,
           history # <<>> =>
              IF IsChatShaped THEN Last(history).calls = <<>> ELSE CallBlocks(Last(history)) = <<>>,
           NEW new, AreMessages(setting, new),
           \A n \in DOMAIN new :
              IF IsChatShaped THEN /\ new[n].role # "tool" /\ Distinct(new[n].calls)
                                   /\ new[n].calls # <<>> => n = Len(new)
              ELSE ResultsIn(new[n]) = <<>> /\ (CallBlocks(new[n]) # <<>> => n = Len(new))
    PROVE  IF IsChatShaped THEN ChatTurns(history \o new) ELSE ClaudeTurns(history \o new)
<1>1. history \in Seq(AnyMessage) /\ new \in Seq(AnyMessage)
    BY DEF AreMessages
<1>2. history # <<>> => Last(history) = history[Len(history)]
    BY LastSpoken
<1>3. CASE IsChatShaped
    <2>1. \A n \in DOMAIN history : history[n].calls # <<>> => history[n].role # "tool"
        BY <1>3 DEF AreMessages, Shaped, IsChatShaped, ChatMessage
    <2>2. history # <<>> => history[Len(history)].calls = <<>>
        BY <1>2, <1>3
    <2>3. ChatTurns(history)
        BY <1>3 DEF ExchangeInv
    <2>4. \A n \in DOMAIN new : /\ Distinct(new[n].calls) /\ (new[n].calls # <<>> => n = Len(new))
        BY <1>3
    <2>5. \A n \in DOMAIN new : new[n].role # "tool"
        BY <1>3
    <2> QED
        BY <1>1, <1>3, <2>1, <2>2, <2>3, <2>4, <2>5, ChatTurnsJoined
<1>4. CASE ~IsChatShaped
    <2>1. history # <<>> => CallBlocks(history[Len(history)]) = <<>>
        BY <1>2, <1>4
    <2>2. ClaudeTurns(history)
        BY <1>4 DEF ExchangeInv
    <2>3. \A n \in DOMAIN new : CallBlocks(new[n]) # <<>> => n = Len(new)
        BY <1>4
    <2>4. \A n \in DOMAIN new : ResultsIn(new[n]) = <<>>
        BY <1>4
    <2> QED
        BY <1>1, <1>4, <2>1, <2>2, <2>3, <2>4, ClaudeTurnsJoined
<1> QED
    BY <1>3, <1>4

\* The turns of a history that does not change.
LEMMA SameTurns ==
    ASSUME NEW h, IF IsChatShaped THEN ChatTurns(h) ELSE ClaudeTurns(h), history' = h, setting' = setting,
           phase' \in {"gateway", "upstream"} => HasTheWord(h)
    PROVE  ExchangeInv'
<1>1. IsChatShaped' = IsChatShaped
    BY DEF IsChatShaped
<1>2. (IF IsChatShaped THEN ChatTurns(history) ELSE ClaudeTurns(history))'
        <=> IF IsChatShaped THEN ChatTurns(h) ELSE ClaudeTurns(h)
    <2>1. ChatTurns(history)' <=> ChatTurns(h)
        BY DEF ChatTurns, Answered, AnswersFor
    <2>2. ClaudeTurns(history)' <=> ClaudeTurns(h)
        BY DEF ClaudeTurns, AnswersFor
    <2> QED
        BY <1>1, <2>1, <2>2
<1>3. HasTheWord(history)' <=> HasTheWord(h)
    BY DEF HasTheWord
<1> QED
    BY <1>2, <1>3 DEF ExchangeInv

\* Every step keeps the order of calls and results: the client's turn answers
\* the calls of the answer before (AnswerClaude, AnswerChat, SayNext), an answer
\* is one message more, and the gateway changes no history.
LEMMA ExchangeStep ==
    ASSUME ConversationInv, ExchangeInv, [Next]_vars
    PROVE  ExchangeInv'
<1>1. AreMessages(setting, history) /\ history \in Seq(AnyMessage)
    BY DEF ConversationInv, AreMessages
<1>2. IF IsChatShaped THEN ChatTurns(history) ELSE ClaudeTurns(history)
    BY DEF ExchangeInv
<1>3. CASE SayNext
    <2>1. PICK added : /\ AreMessages(setting, added) /\ Ask(added) /\ added # <<>>
                       /\ \A n \in DOMAIN added : added[n].role \in {"user", "developer"}
                       /\ \A n \in DOMAIN added : \A k \in DOMAIN added[n].blocks :
                            added[n].blocks[k].type \in {"text", "image"}
                       /\ Pending = <<>> /\ IsClientsTurn
        BY <1>1, <1>3, SaidNext
    <2>2. history # <<>> => IF IsChatShaped THEN Last(history).calls = <<>> ELSE CallBlocks(Last(history)) = <<>>
        <3> SUFFICES ASSUME history # <<>>
                     PROVE  IF IsChatShaped THEN Last(history).calls = <<>> ELSE CallBlocks(Last(history)) = <<>>
            OBVIOUS
        <3>1. Last(history).role = "assistant"
            BY <2>1 DEF IsClientsTurn
        <3>2. IF IsChatShaped THEN Last(history).calls = <<>> ELSE Refs(CallBlocks(Last(history))) = <<>>
            BY <2>1, <3>1 DEF Pending, CallBlocks
        <3>3. ~IsChatShaped => CallBlocks(Last(history)) \in Seq(AnyContent)
            <4>1. Last(history).blocks \in Seq(AnyContent)
                BY <1>1, LastSpoken DEF AnyMessage
            <4> QED
                BY <4>1, BlocksAtPlaces DEF CallBlocks, BlocksOf
        <3>4. ~IsChatShaped => DOMAIN CallBlocks(Last(history)) = {}
            BY <3>2 DEF Refs
        <3> QED
            BY <3>2, <3>3, <3>4, LenProperties, EmptySeq
    <2>3. \A n \in DOMAIN added :
              IF IsChatShaped THEN /\ added[n].role # "tool" /\ Distinct(added[n].calls)
                                   /\ added[n].calls # <<>> => n = Len(added)
              ELSE ResultsIn(added[n]) = <<>> /\ (CallBlocks(added[n]) # <<>> => n = Len(added))
        <3> SUFFICES ASSUME NEW n \in DOMAIN added
                     PROVE  IF IsChatShaped THEN /\ added[n].role # "tool" /\ Distinct(added[n].calls)
                                                 /\ added[n].calls # <<>> => n = Len(added)
                            ELSE ResultsIn(added[n]) = <<>> /\ (CallBlocks(added[n]) # <<>> => n = Len(added))
            OBVIOUS
        <3>1. added[n] \in AnyMessage /\ Shaped(setting, added[n]) /\ added[n].role \in {"user", "developer"}
            BY <2>1 DEF AreMessages
        <3>2. CallBlocks(added[n]) = <<>> /\ ResultsIn(added[n]) = <<>>
            BY <2>1, <3>1, CallsAndResults
        <3>3. IsChatShaped => added[n].calls = <<>>
            BY <3>1 DEF Shaped, IsChatShaped, ChatMessage
        <3>4. Distinct(<<>>)
            BY DEF Distinct
        <3>5. IsChatShaped => Distinct(added[n].calls)
            BY <3>3, <3>4, Zenon
        <3> QED
            BY <3>1, <3>2, <3>3, <3>5
    <2>4. IF IsChatShaped THEN ChatTurns(history \o added) ELSE ClaudeTurns(history \o added)
        BY <1>1, <2>1, <2>2, <2>3, TurnsGoOn
    <2>5. HasTheWord(history \o added)
        <3>1. added \in Seq(AnyMessage)
            BY <2>1 DEF AreMessages
        <3>2. history \o added # <<>> /\ Last(history \o added) = added[Len(added)] /\ Len(added) \in DOMAIN added
            BY <1>1, <2>1, <3>1, LastJoined
        <3>3. added[Len(added)].role \in {"user", "developer"}
            BY <2>1, <3>2
        <3>4. added[Len(added)].role # "assistant"
            BY <3>3
        <3> QED
            BY <3>2, <3>4 DEF HasTheWord
    <2> QED
        BY <2>1, <2>4, <2>5, SameTurns DEF Ask
<1>4. CASE AnswerClaude
    <2>1. /\ history # <<>> /\ CallBlocks(Last(history)) # <<>> /\ ~IsChatShaped
          /\ \E m \in AnyMessage :
                /\ ClaudeMessage(m) /\ m.role = "user" /\ Ask(<<m>>)
                /\ AnswersFor(Refs(OfTypes(m.blocks, {"tool_result"})), Refs(CallBlocks(Last(history))))
        BY <1>1, <1>4, AnsweredInBlocks
    <2>2. PICK m \in AnyMessage :
                /\ ClaudeMessage(m) /\ m.role = "user" /\ Ask(<<m>>)
                /\ AnswersFor(Refs(ResultsIn(m)), Refs(CallBlocks(Last(history))))
        BY <2>1 DEF ResultsIn
    <2> DEFINE added == <<m>>
    <2>3. added \in Seq(AnyMessage) /\ Len(added) = 1 /\ added[1] = m /\ DOMAIN added = {1} /\ added # <<>>
        OBVIOUS
    <2>4. Ask(added)
        BY <2>2
    <2> HIDE DEF added
    <2>5. Last(history) = history[Len(history)]
        BY <1>1, <2>1, LastSpoken
    <2>6. ClaudeTurns(history)
        BY <1>2, <2>1
    <2>7. \A n \in DOMAIN added : CallBlocks(added[n]) # <<>> => n = Len(added)
        BY <2>3
    <2>8. AnswersFor(Refs(ResultsIn(added[1])), Refs(CallBlocks(history[Len(history)])))
        BY <2>2, <2>3, <2>5, Zenon
    <2>9. CallBlocks(history[Len(history)]) # <<>>
        BY <2>1, <2>5
    <2>10. ClaudeTurns(history \o added)
        BY <1>1, <2>1, <2>3, <2>6, <2>7, <2>8, <2>9, ClaudeTurnsJoined
    <2>11. HasTheWord(history \o added)
        <3>1. added # <<>>
            BY <2>3
        <3>2. history \o added # <<>> /\ Last(history \o added) = added[Len(added)]
            BY <1>1, <2>3, <3>1, LastJoined
        <3> QED
            BY <2>2, <2>3, <3>2 DEF HasTheWord
    <2> QED
        BY <2>1, <2>4, <2>10, <2>11, SameTurns DEF Ask
<1>5. CASE AnswerChat
    <2>1. /\ history # <<>> /\ Last(history).calls # <<>> /\ IsChatShaped
          /\ Last(history) \in AnyMessage /\ Last(history).role = "assistant"
          /\ Distinct(Last(history).calls)
                => \E ids : /\ AnswersFor(ids, Last(history).calls)
                            /\ Ask([n \in DOMAIN ids |-> ToolMessage(ids[n])])
        BY <1>1, <1>5, AnsweredInMessages
    <2>2. ChatTurns(history)
        BY <1>2, <2>1
    <2>3. Last(history) = history[Len(history)] /\ Len(history) \in DOMAIN history
        BY <1>1, <2>1, LastSpoken
    <2> DEFINE last == history[Len(history)]
               calls == last.calls
    <2>4. Distinct(calls)
        BY <2>2, <2>3 DEF ChatTurns
    <2>5. PICK ids : AnswersFor(ids, calls) /\ Ask([n \in DOMAIN ids |-> ToolMessage(ids[n])])
        BY <2>1, <2>3, <2>4
    <2> DEFINE added == [n \in DOMAIN ids |-> ToolMessage(ids[n])]
               a == Len(history)
               k == Len(calls)
               all == history \o added
    <2>6. /\ ids \in Seq(AnyRef) /\ DOMAIN ids = DOMAIN calls /\ DOMAIN calls = 1 .. k /\ k \in Nat /\ Len(ids) = k
          /\ \A n \in 1 .. k : ids[n] \in AnyRef
        <3>1. calls \in Seq(AnyRef)
            BY <2>1, <2>3 DEF AnyMessage
        <3>2. ids \in Seq(AnyRef) /\ DOMAIN ids = DOMAIN calls
            BY <2>5 DEF AnswersFor
        <3> HIDE DEF calls
        <3> QED
            BY <3>1, <3>2, LenProperties, ElementOfSeq
    <2>7. calls # <<>> /\ last.role = "assistant"
        BY <2>1, <2>3
    <2>8. 1 \in 1 .. k
        <3>1. calls \in Seq(AnyRef)
            BY <2>1, <2>3 DEF AnyMessage
        <3> HIDE DEF calls
        <3> QED
            BY <2>6, <2>7, <3>1, EmptySeq
    <2> HIDE DEF calls, last, k
    <2>9. \A n \in 1 .. k : /\ ToolMessage(ids[n]) \in AnyMessage /\ ToolMessage(ids[n]).role = "tool"
                            /\ ToolMessage(ids[n]).id = ids[n] /\ ToolMessage(ids[n]).calls = <<>>
        BY <2>6, Constructed
    <2>10. DOMAIN added = 1 .. k /\ \A n \in 1 .. k : added[n] = ToolMessage(ids[n])
        BY <2>6
    <2>11. added \in Seq(AnyMessage)
        <3>1. added = [n \in 1 .. k |-> ToolMessage(ids[n])]
            BY <2>6
        <3> HIDE DEF added
        <3> QED
            BY <2>6, <2>9, <3>1
    <2>12. Ask(added)
        BY <2>5
    <2> HIDE DEF added
    <2>13. Len(added) = k /\ added # <<>>
        BY <2>6, <2>8, <2>10, <2>11, LenProperties
    <2>14. /\ a \in Nat /\ Len(all) = a + k /\ DOMAIN history = 1 .. a
           /\ \A n \in 1 .. a : all[n] = history[n]
           /\ \A n \in 1 .. k : all[a + n] = added[n]
        BY <1>1, <2>11, <2>13, Joining
    <2> HIDE DEF a, all
    <2>15. all[a] = last /\ all[a].calls = calls
        BY <2>3, <2>14 DEF last, calls, a
    <2>16. \A n \in 1 .. k : all[a + n].role = "tool" /\ all[a + n].id = ids[n] /\ all[a + n].calls = <<>>
        BY <2>9, <2>10, <2>14
    <2>17. Answered(all, a)
        <3>1. [n \in DOMAIN calls |-> all[a + n].id] = ids
            <4>1. ids = [n \in 1 .. k |-> ids[n]]
                BY <2>6
            <4> QED
                BY <2>6, <2>16, <4>1
        <3>2. ~ (a + k < Len(all)) /\ a + k <= Len(all)
            BY <2>6, <2>14
        <3>3. AnswersFor([n \in DOMAIN calls |-> all[a + n].id], calls)
            BY <2>5, <3>1, Zenon
        <3> QED
            BY <2>15, <2>16, <3>2, <3>3 DEF Answered, k
    <2>18. ChatTurns(history \o added)
        <3>1. \A n \in DOMAIN history : history[n].calls # <<>> => history[n].role # "tool"
            BY <1>1, <2>1 DEF AreMessages, Shaped, IsChatShaped, ChatMessage
        <3>2. \A n \in DOMAIN added : Distinct(added[n].calls) /\ (added[n].calls # <<>> => n = Len(added))
            <4>1. Distinct(<<>>)
                BY DEF Distinct
            <4>2. \A n \in DOMAIN added : added[n].calls = <<>>
                BY <2>9, <2>10
            <4>3. ASSUME NEW n \in DOMAIN added PROVE Distinct(added[n].calls)
                <5>1. added[n].calls = <<>>
                    BY <4>2
                <5> QED
                    BY <4>1, <5>1, Zenon
            <4> QED
                BY <4>2, <4>3
        <3>3. \A n \in DOMAIN added : added[n].role = "tool" /\ n <= Len(history[Len(history)].calls)
            BY <2>6, <2>9, <2>10 DEF k, calls, last
        <3>4. Answered(history \o added, Len(history))
            BY <2>17 DEF all, a
        <3>5. history[Len(history)].calls # <<>>
            BY <2>7 DEF calls, last
        <3> QED
            BY <1>1, <2>1, <2>2, <2>11, <3>1, <3>2, <3>3, <3>4, <3>5, ChatTurnsJoined
    <2>19. HasTheWord(history \o added)
        <3>1. history \o added # <<>> /\ Last(history \o added) = added[Len(added)] /\ Len(added) \in DOMAIN added
            BY <1>1, <2>11, <2>13, LastJoined
        <3>2. added[Len(added)].role = "tool"
            BY <2>9, <2>10, <3>1
        <3> QED
            BY <3>1, <3>2 DEF HasTheWord
    <2> QED
        BY <2>1, <2>12, <2>18, <2>19, SameTurns DEF Ask
<1>6. CASE AskAgain
    <2>1. history \o <<>> = history
        BY <1>1, ConcatEmptySeq
    <2>2. history' = history /\ setting' = setting /\ HasTheWord(history)
        BY <1>6, <2>1 DEF AskAgain, Ask, IsClientsTurn, HasTheWord
    <2> QED
        BY <1>2, <2>2, SameTurns
<1>7. CASE Refuse \/ Forward \/ Fail \/ UNCHANGED vars
    <2>1. /\ history' = history /\ setting' = setting
          /\ phase' \in {"gateway", "upstream"} => phase \in {"gateway", "upstream"}
        BY <1>7 DEF Refuse, Forward, Fail, vars
    <2>2. phase' \in {"gateway", "upstream"} => HasTheWord(history)
        BY <2>1 DEF ExchangeInv
    <2> QED
        BY <1>2, <2>1, <2>2, SameTurns
<1>8. CASE ReplyChat \/ ReplyClaude
    <2>1. PICK m \in AnyMessage : /\ Shaped(setting, m) /\ m.role = "assistant" /\ Reply(m)
                                  /\ IsChatShaped => Distinct(m.calls)
        BY <1>1, <1>8, RepliedInChat, RepliedInBlocks DEF Shaped, IsChatShaped
    <2> DEFINE added == <<m>>
    <2>2. AreMessages(setting, added)
        BY <2>1, OneMessage
    <2>3. Len(added) = 1 /\ DOMAIN added = {1} /\ added[1] = m
        OBVIOUS
    <2>4. /\ history' = history \o added /\ setting' = setting /\ phase' = "client" /\ phase = "upstream"
        <3>1. history' = Append(history, m) /\ setting' = setting /\ phase' = "client" /\ phase = "upstream"
            BY <2>1 DEF Reply
        <3> QED
            BY <1>1, <3>1
    <2> HIDE DEF added
    <2>5. history # <<>> => IF IsChatShaped THEN Last(history).calls = <<>> ELSE CallBlocks(Last(history)) = <<>>
        <3>1. history # <<>> /\ Last(history).role # "assistant"
            BY <2>4 DEF ExchangeInv, HasTheWord
        <3>2. Last(history) \in AnyMessage /\ Shaped(setting, Last(history))
            BY <1>1, <3>1, LastSpoken
        <3>3. CASE IsChatShaped
            BY <3>1, <3>2, <3>3 DEF Shaped, IsChatShaped, ChatMessage
        <3>4. CASE ~IsChatShaped
            <4>1. ClaudeMessage(Last(history)) /\ Last(history).role = "user"
                BY <3>1, <3>2, <3>4 DEF Shaped, IsChatShaped, ClaudeMessage
            <4> QED
                BY <3>2, <3>4, <4>1, CallsAndResults
        <3> QED
            BY <3>3, <3>4
    <2>6. \A n \in DOMAIN added :
              IF IsChatShaped THEN /\ added[n].role # "tool" /\ Distinct(added[n].calls)
                                   /\ added[n].calls # <<>> => n = Len(added)
              ELSE ResultsIn(added[n]) = <<>> /\ (CallBlocks(added[n]) # <<>> => n = Len(added))
        <3> SUFFICES ASSUME NEW n \in DOMAIN added
                     PROVE  IF IsChatShaped THEN /\ added[n].role # "tool" /\ Distinct(added[n].calls)
                                                 /\ added[n].calls # <<>> => n = Len(added)
                            ELSE ResultsIn(added[n]) = <<>> /\ (CallBlocks(added[n]) # <<>> => n = Len(added))
            OBVIOUS
        <3>1. added[n] = m /\ n = Len(added)
            BY <2>3
        <3>2. ~IsChatShaped => ResultsIn(m) = <<>>
            BY <2>1, CallsAndResults DEF Shaped, IsChatShaped
        <3>3. IsChatShaped => Distinct(added[n].calls)
            BY <2>1, <3>1, Zenon
        <3> QED
            BY <2>1, <3>1, <3>2, <3>3
    <2>7. IF IsChatShaped THEN ChatTurns(history \o added) ELSE ClaudeTurns(history \o added)
        BY <1>1, <2>2, <2>5, <2>6, TurnsGoOn
    <2>8. phase' \notin {"gateway", "upstream"}
        BY <2>4
    <2> QED
        BY <2>4, <2>7, <2>8, SameTurns
<1> QED
    BY <1>3, <1>4, <1>5, <1>6, <1>7, <1>8 DEF Next

\* Calls and results follow each other in every history of every client.
LEMMA ExchangeAlways == Spec => []ExchangeInv
<1>1. Init => ExchangeInv
    BY DEF Init, ExchangeInv, ChatTurns, ClaudeTurns
<1>2. ConversationInv /\ ExchangeInv /\ [Next]_vars => ExchangeInv'
    BY ExchangeStep
<1> QED
    BY <1>1, <1>2, ConversationAlways, PTL DEF Spec

-----------------------------------------------------------------------------
(* Where the parts stand in what is joined of them                         *)

\* As many elements stand before part n + 1.
UpToPart(ss, n) == Len(Joined(ss, n))

\* The parts ss stand in all one behind the other.
InPlace(all, ss) ==
    /\ Len(all) = UpToPart(ss, Len(ss)) /\ Len(ss) \in Nat /\ UpToPart(ss, 0) = 0
    /\ \A n \in 0 .. Len(ss) : UpToPart(ss, n) \in Nat /\ UpToPart(ss, n) <= Len(all)
    /\ \A n \in 1 .. Len(ss) : Len(ss[n]) \in Nat /\ DOMAIN ss[n] = 1 .. Len(ss[n])
                               /\ UpToPart(ss, n) = UpToPart(ss, n - 1) + Len(ss[n])
    /\ \A n \in 0 .. Len(ss) : \A k \in 0 .. n : UpToPart(ss, k) <= UpToPart(ss, n)
    /\ \A n \in 1 .. Len(ss) : \A l \in DOMAIN ss[n] :
            UpToPart(ss, n - 1) + l \in DOMAIN all /\ all[UpToPart(ss, n - 1) + l] = ss[n][l]
    /\ \A p \in DOMAIN all : \E n \in 1 .. Len(ss) : \E l \in DOMAIN ss[n] : p = UpToPart(ss, n - 1) + l

\* So do the parts of what is joined of them.
LEMMA PartsInPlace ==
    ASSUME NEW S, NEW ss \in Seq(Seq(S))
    PROVE  FlattenSeq(ss) \in Seq(S) /\ InPlace(FlattenSeq(ss), ss)
<1> DEFINE at(n) == UpToPart(ss, n)
           all == FlattenSeq(ss)
           b == Len(ss)
<1>1. /\ Joined(ss, 0) = <<>> /\ all = Joined(ss, b) /\ b \in Nat
      /\ \A n \in 1 .. b : Joined(ss, n) = Joined(ss, n - 1) \o ss[n]
      /\ \A n \in 0 .. b : Joined(ss, n) \in Seq(S)
    BY JoinedStep, LenProperties
<1>2. \A n \in 1 .. b : ss[n] \in Seq(S) /\ Len(ss[n]) \in Nat /\ DOMAIN ss[n] = 1 .. Len(ss[n])
    BY ElementOfSeq, LenProperties
<1>3. /\ all \in Seq(S) /\ Len(all) = at(b) /\ at(0) = 0 /\ DOMAIN all = 1 .. Len(all)
      /\ \A n \in 0 .. b : at(n) \in Nat
    <2>1. b \in 0 .. b
        BY <1>1
    <2>2. all \in Seq(S) /\ Len(all) = at(b)
        BY <1>1, <2>1 DEF UpToPart
    <2>3. at(0) = 0
        BY <1>1 DEF UpToPart
    <2>4. \A n \in 0 .. b : at(n) \in Nat
        BY <1>1, LenProperties DEF UpToPart
    <2>5. DOMAIN all = 1 .. Len(all)
        BY <2>2, LenProperties
    <2> QED
        BY <2>2, <2>3, <2>4, <2>5
<1>4. ASSUME NEW n \in 1 .. b PROVE at(n) = at(n - 1) + Len(ss[n])
    <2>1. n - 1 \in 0 .. b
        BY <1>1
    <2>2. Joined(ss, n) = Joined(ss, n - 1) \o ss[n] /\ Joined(ss, n - 1) \in Seq(S) /\ ss[n] \in Seq(S)
        BY <1>1, <1>2, <2>1
    <2> QED
        BY <2>2, ConcatProperties DEF UpToPart
<1>5. ASSUME NEW n \in 0 .. b, NEW k \in 0 .. n
      PROVE  \E rest \in Seq(S) : Joined(ss, n) = Joined(ss, k) \o rest /\ at(n) = at(k) + Len(rest) /\ Len(rest) \in Nat
    <2> DEFINE rest == FlattenSeq(SubSeq(ss, k + 1, n))
    <2>1. k \in 0 .. b /\ n \in k .. b
        BY <1>1
    <2>2. Joined(ss, n) = Joined(ss, k) \o rest
        BY <2>1, JoinedBetween
    <2>3. SubSeq(ss, k + 1, n) \in Seq(Seq(S))
        BY <1>1, <2>1
    <2>4. rest \in Seq(S)
        BY <2>3, FlattenType
    <2>5. Joined(ss, k) \in Seq(S)
        BY <1>1, <2>1
    <2> HIDE DEF rest
    <2>6. at(n) = at(k) + Len(rest) /\ Len(rest) \in Nat
        BY <2>2, <2>4, <2>5, ConcatProperties, LenProperties DEF UpToPart
    <2> QED
        BY <2>2, <2>4, <2>6
<1>6. ASSUME NEW n \in 0 .. b, NEW k \in 0 .. n PROVE at(k) <= at(n)
    <2>1. k \in 0 .. b
        BY <1>1
    <2>2. PICK rest \in Seq(S) : at(n) = at(k) + Len(rest) /\ Len(rest) \in Nat
        BY <1>5
    <2>3. at(k) \in Nat /\ at(n) \in Nat
        BY <1>3, <2>1
    <2> HIDE DEF at
    <2> QED
        BY <2>2, <2>3
<1>7. ASSUME NEW n \in 1 .. b, NEW l \in DOMAIN ss[n]
      PROVE  at(n - 1) + l \in DOMAIN all /\ all[at(n - 1) + l] = ss[n][l]
    <2>1. n - 1 \in 0 .. b /\ n \in 0 .. b /\ b \in 0 .. b /\ n \in 0 .. b
        BY <1>1
    <2>2. PICK rest \in Seq(S) : all = Joined(ss, n) \o rest /\ at(b) = at(n) + Len(rest) /\ Len(rest) \in Nat
        BY <1>1, <1>5, <2>1
    <2>3. Joined(ss, n) = Joined(ss, n - 1) \o ss[n]
        BY <1>1
    <2>4. Joined(ss, n) \in Seq(S) /\ Joined(ss, n - 1) \in Seq(S) /\ ss[n] \in Seq(S)
        BY <1>1, <1>2, <2>1
    <2>5. at(n - 1) \in Nat /\ at(n) = at(n - 1) + Len(ss[n]) /\ l \in 1 .. Len(ss[n]) /\ Len(ss[n]) \in Nat
        BY <1>2, <1>3, <1>4, <2>1
    <2>6. Joined(ss, n)[at(n - 1) + l] = ss[n][l]
        <3> DEFINE before == Joined(ss, n - 1)
        <3>1. \A k \in 1 .. Len(ss[n]) : (before \o ss[n])[Len(before) + k] = ss[n][k]
            BY <2>4, Joining
        <3>2. Len(before) = at(n - 1) /\ Joined(ss, n) = before \o ss[n]
            BY <2>3 DEF UpToPart
        <3> QED
            BY <2>5, <3>1, <3>2
    <2>7. at(n - 1) + l \in 1 .. at(n)
        <3> HIDE DEF at
        <3> QED
            BY <2>5
    <2>8. all[at(n - 1) + l] = Joined(ss, n)[at(n - 1) + l]
        BY <2>2, <2>4, <2>7, Joining DEF UpToPart
    <2>9. at(n - 1) + l \in 1 .. at(b)
        <3>1. at(n) \in Nat /\ at(b) = at(n) + Len(rest) /\ Len(rest) \in Nat
            BY <1>3, <2>1, <2>2
        <3> HIDE DEF at
        <3> QED
            BY <2>7, <3>1
    <2> QED
        BY <1>3, <2>6, <2>8, <2>9
<1>8. ASSUME NEW p \in DOMAIN all
      PROVE  \E n \in 1 .. b : \E l \in DOMAIN ss[n] : p = at(n - 1) + l
    <2> DEFINE N == {n \in 0 .. b : p <= at(n)}
    <2>1. p \in Nat /\ p # 0 /\ b \in N
        BY <1>1, <1>3
    <2>2. N \subseteq Nat /\ N # {}
        BY <2>1
    <2> HIDE DEF N
    <2>3. PICK n \in N : \A k \in N : n <= k
        BY <2>2, LeastNatural
    <2> USE DEF N
    <2>4. n \in 0 .. b /\ p <= at(n)
        OBVIOUS
    <2>5. n # 0
        BY <1>3, <2>1, <2>4
    <2>6. n \in 1 .. b /\ n - 1 \in 0 .. b /\ ~ (n <= n - 1)
        BY <1>1, <2>4, <2>5
    <2>7. ~ (p <= at(n - 1))
        BY <2>3, <2>6
    <2>8. /\ at(n) = at(n - 1) + Len(ss[n]) /\ at(n - 1) \in Nat /\ Len(ss[n]) \in Nat
          /\ DOMAIN ss[n] = 1 .. Len(ss[n])
        BY <1>2, <1>3, <1>4, <2>6
    <2> HIDE DEF at, N
    <2>9. p - at(n - 1) \in DOMAIN ss[n] /\ p = at(n - 1) + (p - at(n - 1))
        BY <2>1, <2>4, <2>7, <2>8
    <2> QED
        BY <2>6, <2>9
<1>9. \A n \in 0 .. b : at(n) \in Nat /\ at(n) <= Len(all)
    <2>1. \A n \in 0 .. b : b \in 0 .. b /\ n \in 0 .. b
        BY <1>1
    <2> HIDE DEF at, b
    <2> QED
        BY <1>3, <1>6, <2>1
<1> QED
    BY <1>1, <1>2, <1>3, <1>4, <1>6, <1>7, <1>8, <1>9 DEF InPlace

-----------------------------------------------------------------------------
(* What becomes of one message of Claude's (rewriteMessages)               *)

\* The blocks of a message by what the gateway does with them.
LEMMA KindsOfBlocks ==
    ASSUME NEW m \in AnyMessage, ClaudeMessage(m)
    PROVE  /\ TextBlocks(m) \in Seq(AnyContent) /\ Others(m) \in Seq(AnyContent)
           /\ CallBlocks(m) \in Seq(AnyContent) /\ ResultBlocks(m) \in Seq(AnyContent)
           /\ \A k \in DOMAIN TextBlocks(m) : TextBlocks(m)[k].type = "text"
           /\ \A k \in DOMAIN Others(m) : Others(m)[k].type \in {"image", "thinking"}
           /\ \A k \in DOMAIN ResultBlocks(m) : ResultBlocks(m)[k].type = "tool_result" /\ ResultBlocks(m)[k].ref # NoId
           /\ \A k, l \in DOMAIN ResultBlocks(m) : ResultBlocks(m)[k].ref = ResultBlocks(m)[l].ref => k = l
           /\ CallBlocks(m) # <<>> => m.role = "assistant" /\ ResultBlocks(m) = <<>> /\ ~m.isString
           /\ ResultBlocks(m) # <<>> => m.role = "user" /\ ResultsIn(m) # <<>> /\ ~m.isString
           /\ (\A k \in DOMAIN Refs(ResultsIn(m)) : Refs(ResultsIn(m))[k] # NoId) => ResultBlocks(m) = ResultsIn(m)
<1> DEFINE others == DOMAIN m.blocks \ Places(m, {"text", "tool_use", "tool_result"})
           named == {n \in Places(m, {"tool_result"}) : m.blocks[n].ref # NoId}
           texts == Places(m, {"text"})
           calls == Places(m, {"tool_use"})
           R == ResultBlocks(m)
           T == TextBlocks(m)
           O == Others(m)
           C == CallBlocks(m)
<1>1. m.blocks \in Seq(AnyContent)
    BY DEF AnyMessage
<1>2. \A k \in DOMAIN m.blocks : m.blocks[k] \in AnyContent /\ k \in Nat
    BY <1>1, ElementOfSeq, LenProperties
<1>3. /\ R = BlocksAt(m, named) /\ T = BlocksAt(m, texts) /\ O = BlocksAt(m, others) /\ C = BlocksAt(m, calls)
      /\ ResultsIn(m) = BlocksAt(m, Places(m, {"tool_result"}))
    BY BlocksOfTypes DEF ResultBlocks, TextBlocks, Others, CallBlocks, BlocksOf, ResultsIn
<1>4. /\ \A k \in named : k \in DOMAIN m.blocks /\ m.blocks[k].type = "tool_result" /\ m.blocks[k].ref # NoId
      /\ \A k \in texts : k \in DOMAIN m.blocks /\ m.blocks[k].type = "text"
      /\ \A k \in calls : k \in DOMAIN m.blocks /\ m.blocks[k].type = "tool_use"
      /\ \A k \in others : k \in DOMAIN m.blocks /\ m.blocks[k].type \notin {"text", "tool_use", "tool_result"}
    BY DEF Places
<1>18. \A places :
        LET at == BlocksAt(m, places)
        IN  /\ at \in Seq(AnyContent)
            /\ \A a \in DOMAIN at : \E k \in DOMAIN m.blocks : k \in places /\ at[a] = m.blocks[k]
            /\ \A k \in DOMAIN m.blocks : k \in places => \E a \in DOMAIN at : at[a] = m.blocks[k]
            /\ \A a, b \in DOMAIN at : a < b =>
                    \E k, l \in DOMAIN m.blocks : /\ k < l /\ k \in places /\ l \in places
                                                  /\ at[a] = m.blocks[k] /\ at[b] = m.blocks[l]
    <2> HIDE DEF named, texts, calls, others, R, T, O, C
    <2> QED
        BY <1>1, BlocksAtPlaces
<1> HIDE DEF named, texts, calls, others, R, T, O, C
<1>5. /\ R \in Seq(AnyContent) /\ T \in Seq(AnyContent) /\ O \in Seq(AnyContent) /\ C \in Seq(AnyContent)
      /\ \A a \in DOMAIN R : \E k \in DOMAIN m.blocks : k \in named /\ R[a] = m.blocks[k]
      /\ \A a \in DOMAIN T : \E k \in DOMAIN m.blocks : k \in texts /\ T[a] = m.blocks[k]
      /\ \A a \in DOMAIN O : \E k \in DOMAIN m.blocks : k \in others /\ O[a] = m.blocks[k]
      /\ \A a \in DOMAIN C : \E k \in DOMAIN m.blocks : k \in calls /\ C[a] = m.blocks[k]
    <2>1. R \in Seq(AnyContent) /\ \A a \in DOMAIN R : \E k \in DOMAIN m.blocks : k \in named /\ R[a] = m.blocks[k]
        BY <1>3, <1>18
    <2>2. T \in Seq(AnyContent) /\ \A a \in DOMAIN T : \E k \in DOMAIN m.blocks : k \in texts /\ T[a] = m.blocks[k]
        BY <1>3, <1>18
    <2>3. O \in Seq(AnyContent) /\ \A a \in DOMAIN O : \E k \in DOMAIN m.blocks : k \in others /\ O[a] = m.blocks[k]
        BY <1>3, <1>18
    <2>4. C \in Seq(AnyContent) /\ \A a \in DOMAIN C : \E k \in DOMAIN m.blocks : k \in calls /\ C[a] = m.blocks[k]
        BY <1>3, <1>18
    <2> QED
        BY <2>1, <2>2, <2>3, <2>4, Zenon
<1>6. \A a, b \in DOMAIN R : a < b => \E k, l \in DOMAIN m.blocks : /\ k < l /\ k \in named /\ l \in named
                                                                     /\ R[a] = m.blocks[k] /\ R[b] = m.blocks[l]
    BY <1>3, <1>18
<1>7. DOMAIN R = 1 .. Len(R) /\ DOMAIN C = 1 .. Len(C) /\ (R # <<>> => 1 \in DOMAIN R) /\ (C # <<>> => 1 \in DOMAIN C)
    <2>1. Len(R) \in Nat /\ Len(C) \in Nat /\ DOMAIN R = 1 .. Len(R) /\ DOMAIN C = 1 .. Len(C)
        BY <1>5, LenProperties
    <2>2. (R # <<>> => Len(R) # 0) /\ (C # <<>> => Len(C) # 0)
        BY <1>5, EmptySeq
    <2> HIDE DEF R, C
    <2> QED
        BY <2>1, <2>2
<1>8. \A k \in DOMAIN T : T[k].type = "text"
    BY <1>4, <1>5
<1>9. \A k \in DOMAIN O : O[k].type \in {"image", "thinking"}
    <2> SUFFICES ASSUME NEW k \in DOMAIN O PROVE O[k].type \in {"image", "thinking"}
        OBVIOUS
    <2>1. PICK j \in DOMAIN m.blocks : j \in others /\ O[k] = m.blocks[j]
        BY <1>5
    <2>2. m.blocks[j].type \in {"text", "image", "thinking", "tool_use", "tool_result"}
        BY <1>2 DEF AnyContent
    <2> QED
        BY <1>4, <2>1, <2>2
<1>10. \A k \in DOMAIN R : R[k].type = "tool_result" /\ R[k].ref # NoId
    BY <1>4, <1>5
<1>11. ASSUME NEW a \in DOMAIN R, NEW b \in DOMAIN R, a < b PROVE R[a].ref # R[b].ref
    <2>1. PICK k, l \in DOMAIN m.blocks : /\ k < l /\ k \in named /\ l \in named
                                          /\ R[a] = m.blocks[k] /\ R[b] = m.blocks[l]
        BY <1>6, <1>11
    <2>2. k # l /\ m.blocks[k].type = "tool_result" /\ m.blocks[l].type = "tool_result"
        BY <1>2, <1>4, <2>1
    <2>3. m.blocks[k] # m.blocks[l]
        BY <2>2 DEF ClaudeMessage
    <2>4. m.blocks[k].ref # m.blocks[l].ref
        BY <1>2, <2>2, <2>3 DEF AnyContent
    <2> QED
        BY <2>1, <2>4
<1>12. \A a, b \in DOMAIN R : R[a].ref = R[b].ref => a = b
    <2> SUFFICES ASSUME NEW a \in DOMAIN R, NEW b \in DOMAIN R, R[a].ref = R[b].ref PROVE a = b
        OBVIOUS
    <2>1. ~ (a < b) /\ ~ (b < a) /\ a \in Nat /\ b \in Nat
        BY <1>7, <1>11
    <2> QED
        BY <2>1
<1>13. C # <<>> => \E k \in DOMAIN m.blocks : m.blocks[k].type = "tool_use"
    BY <1>4, <1>5, <1>7
<1>14. R # <<>> => \E k \in DOMAIN m.blocks : k \in named /\ m.blocks[k].type = "tool_result"
    BY <1>4, <1>5, <1>7
<1>15. (C # <<>> => m.role = "assistant" /\ ~m.isString) /\ (R # <<>> => m.role = "user" /\ ~m.isString)
    BY <1>13, <1>14 DEF ClaudeMessage
<1>16. R # <<>> => ResultsIn(m) # <<>>
    <2> SUFFICES ASSUME R # <<>> PROVE ResultsIn(m) # <<>>
        OBVIOUS
    <2>1. PICK k \in DOMAIN m.blocks : k \in Places(m, {"tool_result"})
        BY <1>14 DEF named
    <2>2. \E a \in DOMAIN BlocksAt(m, Places(m, {"tool_result"})) :
                BlocksAt(m, Places(m, {"tool_result"}))[a] = m.blocks[k]
        BY <1>18, <2>1
    <2>3. DOMAIN ResultsIn(m) # {}
        BY <1>3, <2>2
    <2> QED
        BY <2>3
<1>17. ASSUME \A k \in DOMAIN Refs(ResultsIn(m)) : Refs(ResultsIn(m))[k] # NoId
       PROVE  R = ResultsIn(m)
    <2> DEFINE places == Places(m, {"tool_result"})
               all == BlocksAt(m, places)
    <2>1. \A k \in DOMAIN m.blocks : k \in places => \E a \in DOMAIN all : all[a] = m.blocks[k]
        BY <1>18
    <2>2. \A a \in DOMAIN all : all[a].ref # NoId
        BY <1>3, <1>17 DEF Refs
    <2>3. \A k \in places : m.blocks[k].ref # NoId
        BY <2>1, <2>2 DEF Places
    <2>4. named = places
        BY <2>3 DEF named
    <2> QED
        BY <1>3, <2>4
<1> QED
    BY <1>5, <1>8, <1>9, <1>10, <1>12, <1>15, <1>16, <1>17 DEF R, T, O, C

\* What rewriteMessages does, case by case.
LEMMA RewrittenAs ==
    ASSUME NEW m \in AnyMessage, ClaudeMessage(m), NEW n
    PROVE  /\ ResultBlocks(m) # <<>> => rewriteMessage(m, n) = ResultsOf(m) \o ContentMessages(m)
           /\ CallBlocks(m) # <<>> => rewriteMessage(m, n) = <<CallMessage(m)>>
           /\ ResultBlocks(m) = <<>> /\ CallBlocks(m) = <<>> =>
                \/ rewriteMessage(m, n) = <<m>>
                \/ /\ Others(m) = <<>> /\ ~m.isString
                   /\ rewriteMessage(m, n) = <<Message(m.role, TRUE, TextBlocks(m))>>
<1>1. /\ m.isString \in BOOLEAN /\ m.role # "tool"
      /\ CallBlocks(m) # <<>> => ResultBlocks(m) = <<>> /\ ~m.isString
      /\ ResultBlocks(m) # <<>> => ~m.isString
    BY KindsOfBlocks DEF AnyMessage, ClaudeMessage
<1>2. CASE m.isString
    <2>1. rewriteMessage(m, n) = <<StringMessage(m, n)>>
        BY <1>2 DEF rewriteMessage
    <2>2. StringMessage(m, n) = m
        BY <1>1 DEF StringMessage
    <2> QED
        BY <1>1, <1>2, <2>1, <2>2
<1>3. CASE ~m.isString /\ ResultBlocks(m) # <<>>
    BY <1>1, <1>3 DEF rewriteMessage, ResultMessages
<1>4. CASE ~m.isString /\ ResultBlocks(m) = <<>> /\ CallBlocks(m) # <<>>
    BY <1>1, <1>4 DEF rewriteMessage
<1>5. CASE ~m.isString /\ ResultBlocks(m) = <<>> /\ CallBlocks(m) = <<>>
    BY <1>1, <1>5 DEF rewriteMessage
<1> QED
    BY <1>1, <1>2, <1>3, <1>4, <1>5

\* What the messages it makes hold.
LEMMA RewrittenMessages ==
    ASSUME NEW m \in AnyMessage, ClaudeMessage(m)
    PROVE  /\ TextBlocks(m) \o Others(m) \in Seq(AnyContent)
           /\ \A k \in DOMAIN (TextBlocks(m) \o Others(m)) :
                (TextBlocks(m) \o Others(m))[k].type \in {"text", "image", "thinking"}
           /\ \/ ContentMessages(m) = <<>> /\ TextBlocks(m) \o Others(m) = <<>>
              \/ \E c \in AnyMessage : /\ ContentMessages(m) = <<c>> /\ c.role = m.role /\ c.calls = <<>> /\ c.id = NoId
                                       /\ c.blocks = TextBlocks(m) \o Others(m)
           /\ /\ CallMessage(m) \in AnyMessage /\ CallMessage(m).role = "assistant" /\ CallMessage(m).id = NoId
              /\ CallMessage(m).blocks = TextBlocks(m) \o Others(m) /\ CallMessage(m).calls = Refs(CallBlocks(m))
           /\ /\ ResultsOf(m) \in Seq(AnyMessage) /\ Len(ResultsOf(m)) = Len(ResultBlocks(m))
              /\ DOMAIN ResultsOf(m) = DOMAIN ResultBlocks(m)
              /\ \A k \in DOMAIN ResultsOf(m) :
                    /\ ResultsOf(m)[k].role = "tool" /\ ResultsOf(m)[k].id = ResultBlocks(m)[k].ref
                    /\ ResultsOf(m)[k].calls = <<>> /\ ResultsOf(m)[k].blocks = <<>>
           /\ LET c == Message(m.role, TRUE, TextBlocks(m))
              IN  /\ c \in AnyMessage /\ c.role = m.role /\ c.calls = <<>> /\ c.id = NoId /\ c.blocks = TextBlocks(m)
<1> DEFINE T == TextBlocks(m)
           O == Others(m)
           TO == T \o O
           R == ResultBlocks(m)
           C == CallBlocks(m)
           yes == TRUE
<1>1. /\ T \in Seq(AnyContent) /\ O \in Seq(AnyContent) /\ R \in Seq(AnyContent) /\ C \in Seq(AnyContent)
      /\ \A k \in DOMAIN T : T[k].type = "text"
      /\ \A k \in DOMAIN O : O[k].type \in {"image", "thinking"}
    BY KindsOfBlocks
<1>2. m.role \in {"user", "assistant", "developer", "system", "tool"} /\ yes \in BOOLEAN
    BY DEF AnyMessage
<1> HIDE DEF T, O, R, C, yes
<1>3. TO \in Seq(AnyContent)
    BY <1>1
<1>4. \A k \in DOMAIN TO : TO[k].type \in {"text", "image", "thinking"}
    <2>1. /\ DOMAIN TO = 1 .. Len(T) + Len(O) /\ DOMAIN T = 1 .. Len(T) /\ DOMAIN O = 1 .. Len(O)
          /\ \A k \in 1 .. Len(T) : TO[k] = T[k]
          /\ \A k \in 1 .. Len(O) : TO[Len(T) + k] = O[k]
          /\ \A k \in 1 .. Len(T) + Len(O) : k \in 1 .. Len(T) \/ \E l \in 1 .. Len(O) : k = Len(T) + l
        BY <1>1, Joining
    <2> HIDE DEF TO
    <2> SUFFICES ASSUME NEW k \in DOMAIN TO PROVE TO[k].type \in {"text", "image", "thinking"}
        OBVIOUS
    <2>2. CASE k \in 1 .. Len(T)
        BY <1>1, <2>1, <2>2
    <2>3. ASSUME NEW l \in 1 .. Len(O), k = Len(T) + l PROVE TO[k].type \in {"text", "image", "thinking"}
        <3>1. TO[k] = O[l] /\ O[l].type \in {"image", "thinking"}
            BY <1>1, <2>1, <2>3
        <3> QED
            BY <3>1
    <2> QED
        BY <2>1, <2>2, <2>3
<1> HIDE DEF TO
<1>5. \/ ContentMessages(m) = <<>> /\ TO = <<>>
      \/ \E c \in AnyMessage : /\ ContentMessages(m) = <<c>> /\ c.role = m.role /\ c.calls = <<>> /\ c.id = NoId
                               /\ c.blocks = TO
    <2> DEFINE only == O = <<>>
               c == Message(m.role, only, TO)
    <2>1. ContentMessages(m) = IF TO = <<>> THEN <<>> ELSE <<c>>
        BY DEF ContentMessages, TO, T, O
    <2>2. only \in BOOLEAN
        OBVIOUS
    <2> HIDE DEF only
    <2>3. c \in AnyMessage /\ c.role = m.role /\ c.calls = <<>> /\ c.id = NoId /\ c.blocks = TO
        BY <1>2, <1>3, <2>2, Constructed
    <2> HIDE DEF c
    <2> QED
        BY <2>1, <2>3
<1>6. /\ CallMessage(m) \in AnyMessage /\ CallMessage(m).role = "assistant" /\ CallMessage(m).id = NoId
      /\ CallMessage(m).blocks = TO /\ CallMessage(m).calls = Refs(C)
    <2> DEFINE only == Len(T) <= 1 /\ O = <<>>
               c == Message("assistant", only, TO)
    <2>1. CallMessage(m) = [c EXCEPT !.calls = Refs(C)]
        BY DEF CallMessage, TO, T, O, C
    <2>2. only \in BOOLEAN
        OBVIOUS
    <2> HIDE DEF only
    <2>3. c \in AnyMessage /\ c.role = "assistant" /\ c.id = NoId /\ c.blocks = TO
        BY <1>2, <1>3, <2>2, Constructed
    <2> HIDE DEF c
    <2>4. Refs(C) \in Seq(AnyRef)
        BY CallsOfAnswer DEF C
    <2> QED
        BY <2>1, <2>3, <2>4 DEF AnyMessage
<1>7. /\ ResultsOf(m) \in Seq(AnyMessage) /\ Len(ResultsOf(m)) = Len(R)
      /\ DOMAIN ResultsOf(m) = DOMAIN R
      /\ \A k \in DOMAIN ResultsOf(m) :
            /\ ResultsOf(m)[k].role = "tool" /\ ResultsOf(m)[k].id = R[k].ref
            /\ ResultsOf(m)[k].calls = <<>> /\ ResultsOf(m)[k].blocks = <<>>
    <2> DEFINE all == ResultsOf(m)
    <2>1. DOMAIN R = 1 .. Len(R) /\ Len(R) \in Nat /\ \A k \in DOMAIN R : R[k].ref \in AnyRef
        <3>1. \A k \in DOMAIN R : R[k] \in AnyContent
            BY <1>1
        <3> QED
            BY <1>1, <3>1, LenProperties DEF AnyContent
    <2>2. all = [k \in 1 .. Len(R) |-> ToolMessage(R[k].ref)]
        BY <2>1 DEF ResultsOf, R
    <2>3. \A k \in 1 .. Len(R) :
            /\ ToolMessage(R[k].ref) \in AnyMessage /\ ToolMessage(R[k].ref).role = "tool"
            /\ ToolMessage(R[k].ref).id = R[k].ref
            /\ ToolMessage(R[k].ref).calls = <<>> /\ ToolMessage(R[k].ref).blocks = <<>>
        BY <2>1, Constructed
    <2> HIDE DEF all
    <2>4. all \in Seq(AnyMessage) /\ Len(all) = Len(R)
        BY <2>1, <2>2, <2>3
    <2>5. DOMAIN all = 1 .. Len(R) /\ \A k \in 1 .. Len(R) : all[k] = ToolMessage(R[k].ref)
        BY <2>2
    <2> QED
        BY <2>1, <2>3, <2>4, <2>5 DEF all
<1>8. LET c == Message(m.role, yes, T)
      IN  /\ c \in AnyMessage /\ c.role = m.role /\ c.calls = <<>> /\ c.id = NoId /\ c.blocks = T
    BY <1>1, <1>2, Constructed
<1> QED
    BY <1>3, <1>4, <1>5, <1>6, <1>7, <1>8 DEF T, O, TO, R, C, yes

\* First the results of a message, each with its id, then what is none; calls
\* stand alone (ResultMessages, CallMessage).
LEMMA RewrittenTurn ==
    ASSUME NEW m \in AnyMessage, ClaudeMessage(m), NEW n
    PROVE  LET sent == rewriteMessage(m, n)
               results == Refs(ResultBlocks(m))
           IN  /\ sent \in Seq(AnyMessage) /\ Len(sent) \in Nat /\ DOMAIN sent = 1 .. Len(sent)
               /\ Len(results) \in Nat /\ Len(results) <= Len(sent) /\ Len(results) = Len(ResultBlocks(m))
               /\ \A k \in 1 .. Len(results) :
                    sent[k].role = "tool" /\ sent[k].id = results[k] /\ sent[k].id # NoId /\ sent[k].calls = <<>>
               /\ \A k \in DOMAIN sent : ~(k <= Len(results)) => sent[k].role # "tool"
               /\ \A k \in DOMAIN sent : sent[k].calls # <<>> => CallBlocks(m) # <<>>
               /\ CallBlocks(m) # <<>> => /\ Len(sent) = 1 /\ Len(results) = 0 /\ sent[1].calls = Refs(CallBlocks(m))
                                          /\ sent[1].id = NoId /\ sent[1].role = "assistant"
               /\ \A k \in DOMAIN sent : \A j \in DOMAIN sent[k].blocks :
                    /\ sent[k].blocks[j].type # "tool_use"
                    /\ sent[k].blocks[j].type = "tool_result" => sent[k].blocks[j].ref = NoId
<1> DEFINE sent == rewriteMessage(m, n)
           R == ResultBlocks(m)
           C == CallBlocks(m)
           TO == TextBlocks(m) \o Others(m)
           results == Refs(R)
           Good(k) == \A j \in DOMAIN sent[k].blocks :
                    /\ sent[k].blocks[j].type # "tool_use"
                    /\ sent[k].blocks[j].type = "tool_result" => sent[k].blocks[j].ref = NoId
           content == ContentMessages(m)
<1>1. /\ R \in Seq(AnyContent) /\ C \in Seq(AnyContent)
      /\ \A k \in DOMAIN R : R[k].type = "tool_result" /\ R[k].ref # NoId
      /\ C # <<>> => m.role = "assistant" /\ R = <<>>
      /\ R # <<>> => m.role = "user"
      /\ \A k \in DOMAIN TextBlocks(m) : TextBlocks(m)[k].type = "text"
    BY KindsOfBlocks
<1>2. m.role \in {"user", "assistant"} /\ m.calls = <<>> /\ m.id = NoId
    BY DEF ClaudeMessage
<1>3. Len(R) \in Nat /\ DOMAIN R = 1 .. Len(R) /\ Len(results) = Len(R)
      /\ \A k \in 1 .. Len(R) : results[k] = R[k].ref
    <2>1. Len(R) \in Nat /\ DOMAIN R = 1 .. Len(R)
        BY <1>1, LenProperties
    <2> HIDE DEF R
    <2> QED
        BY <2>1 DEF Refs
<1>4. /\ TO \in Seq(AnyContent)
      /\ \A k \in DOMAIN TO : TO[k].type \in {"text", "image", "thinking"}
      /\ \/ content = <<>> /\ TO = <<>>
         \/ \E c \in AnyMessage : /\ content = <<c>> /\ c.role = m.role /\ c.calls = <<>> /\ c.id = NoId
                                  /\ c.blocks = TO
    BY RewrittenMessages
<1> HIDE DEF sent, R, C, TO, results, content
<1>5. CASE R # <<>>
    <2> DEFINE rs == ResultsOf(m)
    <2>1. sent = rs \o content
        BY <1>5, RewrittenAs DEF sent, R, content
    <2>2. /\ rs \in Seq(AnyMessage) /\ Len(rs) = Len(R) /\ DOMAIN rs = DOMAIN R
          /\ \A k \in DOMAIN rs : /\ rs[k].role = "tool" /\ rs[k].id = R[k].ref
                                  /\ rs[k].calls = <<>> /\ rs[k].blocks = <<>>
        BY RewrittenMessages DEF R
    <2>3. C = <<>> /\ m.role = "user"
        BY <1>1, <1>5
    <2>4. content \in Seq(AnyMessage)
          /\ \A k \in DOMAIN content : content[k].role = m.role /\ content[k].calls = <<>> /\ content[k].blocks = TO
        <3>1. CASE content = <<>>
            BY <3>1
        <3>2. ASSUME NEW c \in AnyMessage, content = <<c>>, c.role = m.role, c.calls = <<>>, c.blocks = TO
              PROVE  content \in Seq(AnyMessage)
                     /\ \A k \in DOMAIN content : content[k].role = m.role /\ content[k].calls = <<>> /\ content[k].blocks = TO
            BY <3>2
        <3> QED
            BY <1>4, <3>1, <3>2
    <2> HIDE DEF rs
    <2>5. /\ sent \in Seq(AnyMessage) /\ Len(content) \in Nat /\ Len(sent) = Len(R) + Len(content)
          /\ DOMAIN sent = 1 .. Len(R) + Len(content) /\ DOMAIN content = 1 .. Len(content)
          /\ \A k \in 1 .. Len(R) : sent[k] = rs[k]
          /\ \A k \in 1 .. Len(content) : sent[Len(R) + k] = content[k]
          /\ \A k \in 1 .. Len(R) + Len(content) : k \in 1 .. Len(R) \/ \E l \in 1 .. Len(content) : k = Len(R) + l
        <3> DEFINE a == Len(rs)
                   b == Len(content)
                   all == rs \o content
        <3>0. rs \in Seq(AnyMessage) /\ content \in Seq(AnyMessage)
            BY <2>2, <2>4
        <3>1. /\ all \in Seq(AnyMessage) /\ a \in Nat /\ b \in Nat /\ Len(all) = a + b /\ DOMAIN all = 1 .. a + b
              /\ DOMAIN content = 1 .. b
              /\ \A k \in 1 .. a : all[k] = rs[k]
              /\ \A k \in 1 .. b : all[a + k] = content[k]
              /\ \A k \in 1 .. a + b : k \in 1 .. a \/ \E l \in 1 .. b : k = a + l
            BY <3>0, Joining
        <3>2. a = Len(R) /\ all = sent
            BY <2>1, <2>2
        <3> QED
            BY <3>1, <3>2, Zenon
    <2>6. \A k \in 1 .. Len(R) : /\ sent[k].role = "tool" /\ sent[k].id = R[k].ref /\ sent[k].id # NoId
                                 /\ sent[k].calls = <<>> /\ sent[k].blocks = <<>>
        <3> SUFFICES ASSUME NEW k \in 1 .. Len(R)
                     PROVE  /\ sent[k].role = "tool" /\ sent[k].id = R[k].ref /\ sent[k].id # NoId
                            /\ sent[k].calls = <<>> /\ sent[k].blocks = <<>>
            OBVIOUS
        <3>1. sent[k] = rs[k]
            BY <2>5
        <3>2. k \in DOMAIN rs /\ k \in DOMAIN R
            BY <1>3, <2>2
        <3>3. R[k].ref # NoId
            BY <1>1, <3>2
        <3> QED
            BY <2>2, <3>1, <3>2, <3>3
    <2>7. \A k \in DOMAIN sent : k \notin 1 .. Len(R) =>
                sent[k].role = "user" /\ sent[k].calls = <<>> /\ sent[k].blocks = TO
        BY <2>3, <2>4, <2>5, SMTT(30)
    <2>8. \A k \in DOMAIN sent : ~ (k <= Len(results)) => k \notin 1 .. Len(R)
        BY <1>3, <2>5
    <2>9. ASSUME NEW k \in DOMAIN sent PROVE Good(k) /\ sent[k].calls = <<>>
        <3>1. CASE k \in 1 .. Len(R)
            BY <2>6, <3>1
        <3>2. CASE k \notin 1 .. Len(R)
            BY <1>4, <2>7, <3>2
        <3> QED
            BY <3>1, <3>2
    <2>10. Len(sent) \in Nat /\ DOMAIN sent = 1 .. Len(sent) /\ Len(results) <= Len(sent)
        BY <1>3, <2>5
    <2>11. \A k \in 1 .. Len(results) :
                sent[k].role = "tool" /\ sent[k].id = results[k] /\ sent[k].id # NoId /\ sent[k].calls = <<>>
        BY <1>3, <2>6
    <2>12. \A k \in DOMAIN sent : ~(k <= Len(results)) => sent[k].role # "tool"
        BY <2>7, <2>8
    <2> QED
        BY <1>3, <2>3, <2>5, <2>9, <2>10, <2>11, <2>12 DEF R, C, results, sent
<1>6. ASSUME NEW c \in AnyMessage, R = <<>>, sent = <<c>>, c.role # "tool",
             C # <<>> => c.calls = Refs(C) /\ c.id = NoId /\ c.role = "assistant",
             C = <<>> => c.calls = <<>>,
             \A j \in DOMAIN c.blocks : /\ c.blocks[j].type # "tool_use"
                                        /\ c.blocks[j].type = "tool_result" => c.blocks[j].ref = NoId
      PROVE  /\ sent \in Seq(AnyMessage) /\ Len(sent) \in Nat /\ DOMAIN sent = 1 .. Len(sent)
             /\ Len(results) \in Nat /\ Len(results) <= Len(sent) /\ Len(results) = Len(R)
             /\ \A k \in 1 .. Len(results) :
                  sent[k].role = "tool" /\ sent[k].id = results[k] /\ sent[k].id # NoId /\ sent[k].calls = <<>>
             /\ \A k \in DOMAIN sent : ~(k <= Len(results)) => sent[k].role # "tool"
             /\ \A k \in DOMAIN sent : sent[k].calls # <<>> => C # <<>>
             /\ C # <<>> => /\ Len(sent) = 1 /\ Len(results) = 0 /\ sent[1].calls = Refs(C)
                            /\ sent[1].id = NoId /\ sent[1].role = "assistant"
             /\ \A k \in DOMAIN sent : Good(k)
    <2>1. Len(sent) = 1 /\ DOMAIN sent = {1} /\ DOMAIN sent = 1 .. 1 /\ sent[1] = c /\ sent \in Seq(AnyMessage)
        BY <1>6
    <2>2. Len(results) = 0 /\ Len(R) = 0
        BY <1>3, <1>6
    <2>3. \A k \in DOMAIN sent : sent[k] = c
        BY <2>1
    <2> QED
        BY <1>6, <2>1, <2>2, <2>3
<1>7. CASE R = <<>> /\ C # <<>>
    <2> DEFINE c == CallMessage(m)
    <2>1. sent = <<c>>
        BY <1>7, RewrittenAs DEF sent, C
    <2>2. c \in AnyMessage /\ c.role = "assistant" /\ c.id = NoId /\ c.blocks = TO /\ c.calls = Refs(C)
        BY RewrittenMessages DEF TO, C
    <2> HIDE DEF c
    <2>3. \A j \in DOMAIN c.blocks : /\ c.blocks[j].type # "tool_use"
                                     /\ c.blocks[j].type = "tool_result" => c.blocks[j].ref = NoId
        BY <1>4, <2>2
    <2> QED
        BY <1>6, <1>7, <2>1, <2>2, <2>3 DEF R, C, results, sent
<1>8. CASE R = <<>> /\ C = <<>>
    <2>1. CASE sent = <<m>>
        <3>1. \A j \in DOMAIN m.blocks : /\ m.blocks[j].type # "tool_use"
                                         /\ m.blocks[j].type = "tool_result" => m.blocks[j].ref = NoId
            <4>1. m.blocks \in Seq(AnyContent)
                BY DEF AnyMessage
            <4>2. \A j \in DOMAIN m.blocks : m.blocks[j].type # "tool_use"
                <5> DEFINE uses == Places(m, {"tool_use"})
                <5>1. C = BlocksAt(m, uses)
                    BY DEF C, CallBlocks, BlocksOf
                <5> HIDE DEF uses
                <5>2. \A j \in DOMAIN m.blocks : j \in uses => \E a \in DOMAIN C : C[a] = m.blocks[j]
                    BY <4>1, <5>1, BlocksAtPlaces
                <5> QED
                    BY <1>8, <5>2 DEF Places, uses
            <4>3. \A j \in DOMAIN m.blocks : m.blocks[j].type = "tool_result" => m.blocks[j].ref = NoId
                <5> DEFINE named == {k \in Places(m, {"tool_result"}) : m.blocks[k].ref # NoId}
                <5>1. R = BlocksAt(m, named)
                    BY DEF R, ResultBlocks
                <5> HIDE DEF named
                <5>2. \A j \in DOMAIN m.blocks : j \in named => \E a \in DOMAIN R : R[a] = m.blocks[j]
                    BY <4>1, <5>1, BlocksAtPlaces
                <5> QED
                    BY <1>8, <5>2 DEF Places, named
            <4> QED
                BY <4>2, <4>3
        <3>2. m.role # "tool"
            BY <1>2
        <3> QED
            BY <1>2, <1>6, <1>8, <2>1, <3>1, <3>2 DEF R, C, results, sent
    <2>2. CASE sent = <<Message(m.role, TRUE, TextBlocks(m))>>
        <3> DEFINE c == Message(m.role, TRUE, TextBlocks(m))
        <3>1. c \in AnyMessage /\ c.role = m.role /\ c.calls = <<>> /\ c.id = NoId /\ c.blocks = TextBlocks(m)
            BY RewrittenMessages
        <3>2. sent = <<c>>
            BY <2>2
        <3> HIDE DEF c
        <3>3. \A j \in DOMAIN c.blocks : /\ c.blocks[j].type # "tool_use"
                                         /\ c.blocks[j].type = "tool_result" => c.blocks[j].ref = NoId
            BY <1>1, <3>1
        <3>4. c.role # "tool"
            BY <1>2, <3>1
        <3> QED
            BY <1>6, <1>8, <3>1, <3>2, <3>3, <3>4 DEF R, C, results, sent
    <2> QED
        BY <1>8, <2>1, <2>2, RewrittenAs DEF R, C, sent
<1> QED
    BY <1>5, <1>7, <1>8

-----------------------------------------------------------------------------
(* Calls and results at the upstream                                       *)

\* Every message with calls is followed by their results, and results stand
\* nowhere else.
AllAnswered(messages) ==
    \A n \in DOMAIN messages :
        /\ messages[n].calls # <<>> => Answered(messages, n)
        /\ messages[n].role = "tool" =>
            \E k \in 1 .. n - 1 : messages[k].calls # <<>> /\ n <= k + Len(messages[k].calls)

\* The results behind a message are those for its calls: as many, and no more
\* (AnswersTo).
LEMMA RunOfResults ==
    ASSUME Sent \in Seq(AnyMessage), NEW n \in DOMAIN Sent, Answered(Sent, n)
    PROVE  /\ AnswersTo(n) = n + 1 .. n + Len(Sent[n].calls)
           /\ Len(Sent[n].calls) \in Nat /\ Cardinality(AnswersTo(n)) = Len(Sent[n].calls)
<1> DEFINE size == Len(Sent)
           len == Len(Sent[n].calls)
<1>1. size \in Nat /\ n \in 1 .. size
    BY LenProperties
<1>2. len \in Nat
    <2>1. Sent[n] \in AnyMessage
        BY ElementOfSeq
    <2>2. Sent[n].calls \in Seq(AnyRef)
        BY <2>1 DEF AnyMessage
    <2> QED
        BY <2>2, LenProperties
<1>3. /\ n + len <= size /\ \A k \in 1 .. len : Sent[n + k].role = "tool"
      /\ n + len < size => Sent[n + len + 1].role # "tool"
    BY DEF Answered
<1>4. \A k : k \in AnswersTo(n) <=> k \in n + 1 .. size /\ \A l \in n + 1 .. k : Sent[l].role = "tool"
    BY DEF AnswersTo
<1> HIDE DEF len, size
<1>5. ASSUME NEW k \in n + 1 .. n + len PROVE k \in AnswersTo(n)
    <2>1. k \in n + 1 .. size
        BY <1>1, <1>2, <1>3
    <2>2. ASSUME NEW l \in n + 1 .. k PROVE Sent[l].role = "tool"
        <3>1. l - n \in 1 .. len /\ n + (l - n) = l
            BY <1>1, <1>2
        <3> QED
            BY <1>3, <3>1
    <2> QED
        BY <1>4, <2>1, <2>2
<1>6. ASSUME NEW k \in AnswersTo(n) PROVE k \in n + 1 .. n + len
    <2>1. k \in n + 1 .. size /\ \A l \in n + 1 .. k : Sent[l].role = "tool"
        BY <1>4
    <2>2. ASSUME k > n + len PROVE FALSE
        <3>1. n + len + 1 \in n + 1 .. k /\ n + len < size
            BY <1>1, <1>2, <2>1, <2>2
        <3> QED
            BY <1>3, <2>1, <3>1
    <2> QED
        BY <1>1, <1>2, <2>1, <2>2
<1>7. AnswersTo(n) = n + 1 .. n + len
    BY <1>5, <1>6
<1>8. Cardinality(n + 1 .. n + len) = len
    <2>1. n + 1 \in Int /\ n + len \in Int
        BY <1>1, <1>2
    <2>2. Cardinality(n + 1 .. n + len) = IF n + 1 > n + len THEN 0 ELSE (n + len) - (n + 1) + 1
        BY <2>1, FS_Interval
    <2> QED
        BY <1>1, <1>2, <2>2
<1> QED
    BY <1>2, <1>7, <1>8 DEF len

\* A client that loses no ids gives every call its result (CallsAreAnswered).
LEMMA CallsGetAnswers ==
    ASSUME Sent \in Seq(AnyMessage), AllAnswered(Sent), ~setting.loses
    PROVE  CallsAreAnswered
<1>1. ASSUME NEW n \in DOMAIN Sent, Sent[n].calls # <<>>
      PROVE  /\ Cardinality(AnswersTo(n)) = Len(Sent[n].calls)
             /\ {Sent[k].id : k \in AnswersTo(n)} = ToSet(Sent[n].calls)
    <2> DEFINE calls == Sent[n].calls
               ids == [k \in DOMAIN calls |-> Sent[n + k].id]
    <2>1. Answered(Sent, n)
        BY <1>1 DEF AllAnswered
    <2>2. /\ AnswersTo(n) = n + 1 .. n + Len(calls) /\ Len(calls) \in Nat
          /\ Cardinality(AnswersTo(n)) = Len(calls)
        BY <2>1, RunOfResults
    <2>3. DOMAIN calls = 1 .. Len(calls) /\ n \in Nat
        <3>1. Sent[n] \in AnyMessage
            BY ElementOfSeq
        <3>2. calls \in Seq(AnyRef)
            BY <3>1 DEF AnyMessage
        <3> QED
            BY <3>2, LenProperties
    <2>4. AnswersFor(ids, calls)
        BY <2>1 DEF Answered
    <2>5. /\ \A k \in DOMAIN ids : \E l \in DOMAIN calls : ids[k] = calls[l]
          /\ \A l \in DOMAIN calls : \E k \in DOMAIN ids : ids[k] = calls[l]
        BY <2>4 DEF AnswersFor
    <2>6. DOMAIN ids = DOMAIN calls /\ \A k \in DOMAIN calls : ids[k] = Sent[n + k].id
        OBVIOUS
    <2>7. ToSet(calls) = {calls[l] : l \in DOMAIN calls}
        BY DEF ToSet
    <2> HIDE DEF ids, calls
    <2>8. ASSUME NEW k \in AnswersTo(n) PROVE Sent[k].id \in ToSet(calls)
        <3>1. k - n \in 1 .. Len(calls) /\ n + (k - n) = k
            BY <2>2, <2>3
        <3> QED
            BY <2>3, <2>5, <2>6, <2>7, <3>1
    <2>9. ASSUME NEW l \in DOMAIN calls PROVE \E k \in AnswersTo(n) : Sent[k].id = calls[l]
        <3>1. PICK k \in DOMAIN ids : ids[k] = calls[l]
            BY <2>5, Zenon
        <3>2. n + k \in AnswersTo(n)
            BY <2>2, <2>3, <2>6
        <3>3. Sent[n + k].id = calls[l]
            BY <2>6, <3>1
        <3> QED
            BY <3>2, <3>3
    <2>10. {Sent[k].id : k \in AnswersTo(n)} = ToSet(calls)
        BY <2>7, <2>8, <2>9
    <2> QED
        BY <2>2, <2>10 DEF calls
<1>2. ASSUME NEW k \in DOMAIN Sent, Sent[k].role = "tool"
      PROVE  \E n \in 1 .. k - 1 : Sent[n].calls # <<>> /\ k \in AnswersTo(n)
    <2>1. PICK n \in 1 .. k - 1 : Sent[n].calls # <<>> /\ k <= n + Len(Sent[n].calls)
        BY <1>2 DEF AllAnswered
    <2>2. n \in DOMAIN Sent /\ k \in Nat /\ n \in Nat
        BY LenProperties
    <2>3. Answered(Sent, n)
        BY <2>1, <2>2 DEF AllAnswered
    <2>4. AnswersTo(n) = n + 1 .. n + Len(Sent[n].calls) /\ Len(Sent[n].calls) \in Nat
        BY <2>2, <2>3, RunOfResults
    <2>5. k \in AnswersTo(n)
        BY <2>1, <2>2, <2>4
    <2> QED
        BY <2>1, <2>5
<1> QED
    BY <1>1, <1>2 DEF CallsAreAnswered

\* A chat client's history as it stands, or with ids for results that have none
\* (NormalizeChatCompletionRequest), answers all its calls; and neighbours
\* have different ids where no result is without one.
LEMMA ChatIsAnswered ==
    ASSUME NEW messages \in Seq(AnyMessage), \A n \in DOMAIN messages : ChatMessage(messages[n]),
           ChatTurns(messages), HasTheWord(messages),
           NEW sent \in Seq(AnyMessage), Len(sent) = Len(messages),
           \A n \in DOMAIN messages :
                /\ sent[n].calls = messages[n].calls /\ (sent[n].role = "tool" <=> messages[n].role = "tool")
                /\ \/ sent[n].id = messages[n].id
                   \/ messages[n].role = "tool" /\ messages[n].id = NoId /\ sent[n].id = Id("gateway", n)
    PROVE  /\ ~setting.loses => AllAnswered(sent)
           /\ (\A k \in DOMAIN sent : sent[k].role = "tool" => sent[k].id # NoId) =>
                \A k \in DOMAIN sent : sent[k].role = "tool" /\ k > 1 => sent[k - 1].id # sent[k].id
<1> DEFINE size == Len(messages)
<1>1. /\ size \in Nat /\ DOMAIN messages = 1 .. size /\ DOMAIN sent = 1 .. size
    BY LenProperties
<1>2. \A n \in 1 .. size : messages[n] \in AnyMessage
    BY <1>1, ElementOfSeq
<1> HIDE DEF size
<1>3. \A n \in 1 .. size : messages[n].calls \in Seq(AnyRef) /\ Len(messages[n].calls) \in Nat
                           /\ DOMAIN messages[n].calls = 1 .. Len(messages[n].calls)
    <2>1. \A n \in 1 .. size : messages[n].calls \in Seq(AnyRef)
        BY <1>2 DEF AnyMessage
    <2> QED
        BY <2>1, LenProperties
<1>4. ASSUME NEW n \in 1 .. size, messages[n].calls # <<>>
      PROVE  Answered(messages, n) /\ messages[n].role = "assistant" /\ messages[n].id = NoId
    <2>1. messages[n].role = "assistant" /\ messages[n].id = NoId
        BY <1>1, <1>4 DEF ChatMessage
    <2>2. Last(messages) = messages[size] /\ messages[size].role # "assistant"
        BY DEF HasTheWord, Last, size
    <2>3. n < size
        BY <1>1, <2>1, <2>2
    <2> QED
        BY <1>1, <1>4, <2>1, <2>3 DEF ChatTurns, size
<1>5. ASSUME NEW k \in 1 .. size, messages[k].role = "tool"
      PROVE  \E n \in 1 .. k - 1 : messages[n].calls # <<>> /\ k <= n + Len(messages[n].calls)
    BY <1>1, <1>5 DEF ChatTurns
<1>6. ASSUME ~setting.loses, NEW n \in 1 .. size, sent[n].calls # <<>>
      PROVE  Answered(sent, n)
    <2> DEFINE calls == messages[n].calls
               ids == [k \in DOMAIN calls |-> messages[n + k].id]
               sentIds == [k \in DOMAIN calls |-> sent[n + k].id]
    <2>1. sent[n].calls = calls /\ calls # <<>>
        BY <1>1, <1>6
    <2>2. Answered(messages, n)
        BY <1>4, <2>1
    <2>3. /\ n + Len(calls) <= size /\ \A k \in 1 .. Len(calls) : messages[n + k].role = "tool"
          /\ AnswersFor(ids, calls) /\ (n + Len(calls) < size => messages[n + Len(calls) + 1].role # "tool")
        BY <2>2 DEF Answered, size
    <2>4. \A k \in DOMAIN calls : ids[k] # NoId /\ ids[k] = messages[n + k].id
        BY <1>6, <2>3 DEF AnswersFor
    <2>5. DOMAIN calls = 1 .. Len(calls) /\ Len(calls) \in Nat
        BY <1>3
    <2> HIDE DEF calls
    <2>6. \A k \in DOMAIN calls : n + k \in 1 .. size
        BY <1>1, <2>3, <2>5
    <2>7. sentIds = ids
        <3>1. \A k \in DOMAIN calls : sent[n + k].id = messages[n + k].id
            BY <1>1, <2>4, <2>6
        <3> QED
            BY <3>1
    <2>8. AnswersFor(sentIds, calls)
        BY <2>3, <2>7
    <2>9. \A k \in 1 .. Len(calls) : sent[n + k].role = "tool"
        BY <1>1, <2>3, <2>5, <2>6
    <2>10. n + Len(calls) < size => sent[n + Len(calls) + 1].role # "tool"
        <3>1. n + Len(calls) < size => n + Len(calls) + 1 \in 1 .. size
            BY <1>1, <2>5
        <3> QED
            BY <1>1, <2>3, <3>1
    <2> QED
        BY <2>1, <2>3, <2>8, <2>9, <2>10 DEF Answered, size
<1>7. ~setting.loses => AllAnswered(sent)
    <2>1. ASSUME NEW k \in 1 .. size, sent[k].role = "tool"
          PROVE  \E n \in 1 .. k - 1 : sent[n].calls # <<>> /\ k <= n + Len(sent[n].calls)
        <3>1. PICK n \in 1 .. k - 1 : messages[n].calls # <<>> /\ k <= n + Len(messages[n].calls)
            BY <1>1, <1>5, <2>1
        <3>2. n \in 1 .. size
            BY <1>1
        <3>3. sent[n].calls = messages[n].calls
            BY <1>1, <3>2
        <3> QED
            BY <3>1, <3>3
    <2> QED
        BY <1>1, <1>6, <2>1 DEF AllAnswered
<1>8. ASSUME NEW k \in 1 .. size, sent[k].role = "tool", k > 1, sent[k].id # NoId
      PROVE  sent[k - 1].id # sent[k].id
    <2>1. messages[k].role = "tool" /\ k - 1 \in 1 .. size
        BY <1>1, <1>8
    <2>2. PICK n \in 1 .. k - 1 : messages[n].calls # <<>> /\ k <= n + Len(messages[n].calls)
        BY <1>5, <2>1
    <2>3. n \in 1 .. size
        BY <1>1
    <2>4. Answered(messages, n) /\ messages[n].role = "assistant" /\ messages[n].id = NoId
        BY <1>4, <2>2, <2>3
    <2> DEFINE calls == messages[n].calls
               ids == [j \in DOMAIN calls |-> messages[n + j].id]
    <2>5. /\ \A j \in 1 .. Len(calls) : messages[n + j].role = "tool"
          /\ AnswersFor(ids, calls)
        BY <2>4 DEF Answered
    <2>6. DOMAIN calls = 1 .. Len(calls) /\ Len(calls) \in Nat
        BY <1>3, <2>3
    <2>7. Distinct(ids) /\ DOMAIN ids = DOMAIN calls
        BY <2>5 DEF AnswersFor
    <2>8. \A i, j \in DOMAIN calls : messages[n + i].id = messages[n + j].id => i = j
        BY <2>7 DEF Distinct
    <2>9. k - n \in 1 .. Len(calls) /\ n + (k - n) = k
        BY <2>2, <2>6
    <2> HIDE DEF calls
    <2>10. /\ messages[k].id \in CallId \cup {NoId} /\ messages[k - 1].id \in CallId \cup {NoId}
        BY <1>1, <2>1 DEF ChatMessage
    <2>11. CASE k - 1 = n
        <3>1. sent[k - 1].id = NoId
            BY <1>1, <2>1, <2>4, <2>11
        <3> QED
            BY <1>8, <3>1
    <2>12. CASE k - 1 # n
        <3>1. k - 1 - n \in 1 .. Len(calls) /\ n + (k - 1 - n) = k - 1 /\ k - 1 - n # k - n
            BY <2>6, <2>9, <2>12
        <3>2. messages[k - 1].id # messages[k].id
            BY <2>6, <2>8, <2>9, <3>1
        <3>3. sent[k - 1].id = messages[k - 1].id \/ (messages[k - 1].id = NoId /\ sent[k - 1].id = Id("gateway", k - 1))
            BY <1>1, <2>1
        <3>4. sent[k].id = messages[k].id \/ (messages[k].id = NoId /\ sent[k].id = Id("gateway", k))
            BY <1>1, <2>1
        <3> QED
            BY <2>10, <3>2, <3>3, <3>4, IdsAreRefs
    <2> QED
        BY <2>11, <2>12
<1> QED
    BY <1>1, <1>7, <1>8

\* A list of blocks has as many ids as blocks.
LEMMA RefsOfBlocks ==
    ASSUME NEW blocks \in Seq(AnyContent)
    PROVE  /\ Refs(blocks) \in Seq(AnyRef) /\ Len(Refs(blocks)) = Len(blocks) /\ Len(blocks) \in Nat
           /\ DOMAIN Refs(blocks) = 1 .. Len(blocks) /\ DOMAIN blocks = 1 .. Len(blocks)
           /\ \A k \in 1 .. Len(blocks) : Refs(blocks)[k] = blocks[k].ref
           /\ Refs(blocks) = <<>> <=> blocks = <<>>
<1>1. DOMAIN blocks = 1 .. Len(blocks) /\ Len(blocks) \in Nat /\ \A k \in 1 .. Len(blocks) : blocks[k] \in AnyContent
    BY LenProperties, ElementOfSeq
<1>2. \A k \in 1 .. Len(blocks) : blocks[k].ref \in AnyRef
    BY <1>1 DEF AnyContent
<1>3. Refs(blocks) = [k \in 1 .. Len(blocks) |-> blocks[k].ref]
    BY <1>1 DEF Refs
<1>4. Refs(blocks) \in Seq(AnyRef) /\ Len(Refs(blocks)) = Len(blocks)
    BY <1>1, <1>2, <1>3
<1>5. Refs(blocks) = <<>> <=> Len(Refs(blocks)) = 0
    BY <1>4, EmptySeq
<1>6. blocks = <<>> <=> Len(blocks) = 0
    BY EmptySeq
<1> QED
    BY <1>1, <1>3, <1>4, <1>5, <1>6

\* What is known of the turns of a history in Claude's shape that was sent: the
\* message behind calls has as many results as there are calls, unless ids were
\* lost, and results stand only there.
LEMMA TurnsSent ==
    ASSUME NEW messages \in Seq(AnyMessage), \A n \in DOMAIN messages : ClaudeMessage(messages[n]),
           ClaudeTurns(messages), HasTheWord(messages)
    PROVE  /\ \A n \in 1 .. Len(messages) : CallBlocks(messages[n]) # <<>> =>
                /\ n < Len(messages) /\ Len(ResultBlocks(messages[n])) = 0
                /\ ~setting.loses =>
                    /\ AnswersFor(Refs(ResultBlocks(messages[n + 1])), Refs(CallBlocks(messages[n])))
                    /\ Len(Refs(CallBlocks(messages[n]))) = Len(ResultBlocks(messages[n + 1]))
                    /\ Len(Refs(CallBlocks(messages[n]))) > 0
           /\ \A n \in 1 .. Len(messages) : Len(ResultBlocks(messages[n])) > 0 =>
                n > 1 /\ CallBlocks(messages[n - 1]) # <<>>
<1> DEFINE size == Len(messages)
           C(n) == CallBlocks(messages[n])
           R(n) == ResultBlocks(messages[n])
<1>1. size \in Nat /\ DOMAIN messages = 1 .. size /\ \A n \in 1 .. size : messages[n] \in AnyMessage
    BY LenProperties, ElementOfSeq
<1>2. \A n \in 1 .. size :
        /\ C(n) \in Seq(AnyContent) /\ R(n) \in Seq(AnyContent)
        /\ C(n) # <<>> => messages[n].role = "assistant" /\ R(n) = <<>>
        /\ R(n) # <<>> => ResultsIn(messages[n]) # <<>>
        /\ (\A k \in DOMAIN Refs(ResultsIn(messages[n])) : Refs(ResultsIn(messages[n]))[k] # NoId)
                => R(n) = ResultsIn(messages[n])
    BY <1>1, KindsOfBlocks
<1>3. Last(messages) = messages[size] /\ messages[size].role # "assistant"
    BY DEF HasTheWord, Last
<1>4. \A n \in 1 .. size :
        /\ C(n) # <<>> /\ n < size => AnswersFor(Refs(ResultsIn(messages[n + 1])), Refs(C(n)))
        /\ ResultsIn(messages[n]) # <<>> => n > 1 /\ C(n - 1) # <<>>
    BY <1>1 DEF ClaudeTurns
<1> HIDE DEF size, C, R
<1>5. ASSUME NEW n \in 1 .. size, C(n) # <<>>
      PROVE  /\ n < size /\ Len(R(n)) = 0
             /\ ~setting.loses => /\ AnswersFor(Refs(R(n + 1)), Refs(C(n)))
                                  /\ Len(Refs(C(n))) = Len(R(n + 1)) /\ Len(Refs(C(n))) > 0
    <2>1. n # size /\ n < size
        BY <1>1, <1>2, <1>3, <1>5
    <2>2. Len(R(n)) = 0
        BY <1>2, <1>5, EmptySeq
    <2>3. ASSUME ~setting.loses
          PROVE  /\ AnswersFor(Refs(R(n + 1)), Refs(C(n)))
                 /\ Len(Refs(C(n))) = Len(R(n + 1)) /\ Len(Refs(C(n))) > 0
        <3> DEFINE given == Refs(ResultsIn(messages[n + 1]))
        <3>1. n + 1 \in 1 .. size
            BY <1>1, <2>1
        <3>2. AnswersFor(given, Refs(C(n)))
            BY <1>4, <1>5, <2>1
        <3>3. \A k \in DOMAIN given : given[k] # NoId
            <4> HIDE DEF given
            <4> QED
                BY <2>3, <3>2 DEF AnswersFor
        <3>4. R(n + 1) = ResultsIn(messages[n + 1])
            BY <1>2, <3>1, <3>3
        <3>5. Refs(R(n + 1)) = given
            BY <3>4
        <3>6. AnswersFor(Refs(R(n + 1)), Refs(C(n)))
            BY <3>2, <3>5
        <3> HIDE DEF given
        <3>7. DOMAIN Refs(R(n + 1)) = DOMAIN Refs(C(n))
            BY <3>6 DEF AnswersFor
        <3>8. /\ DOMAIN Refs(C(n)) = 1 .. Len(C(n)) /\ Len(Refs(C(n))) = Len(C(n)) /\ Len(C(n)) \in Nat
            BY <1>2, RefsOfBlocks
        <3>9. DOMAIN Refs(R(n + 1)) = 1 .. Len(R(n + 1)) /\ Len(R(n + 1)) \in Nat
            BY <1>2, <3>1, RefsOfBlocks
        <3>10. Len(C(n)) # 0
            BY <1>2, <1>5, EmptySeq
        <3>11. 1 .. Len(R(n + 1)) = 1 .. Len(C(n))
            BY <3>7, <3>8, <3>9
        <3>12. Len(R(n + 1)) = Len(C(n))
            BY <3>8, <3>9, <3>10, <3>11
        <3> QED
            BY <3>6, <3>8, <3>10, <3>12
    <2> QED
        BY <2>1, <2>2, <2>3
<1>6. ASSUME NEW n \in 1 .. size, Len(R(n)) > 0
      PROVE  n > 1 /\ C(n - 1) # <<>>
    <2>1. R(n) # <<>>
        BY <1>6, EmptySeq
    <2> QED
        BY <1>2, <1>4, <2>1
<1> QED
    BY <1>5, <1>6 DEF size, C, R

\* Where calls and results stand in the parts that are sent of Claude's messages:
\* a message becomes one with its calls, or first its results.
StandInParts(messages, parts) ==
    /\ parts \in Seq(Seq(AnyMessage)) /\ Len(parts) = Len(messages) /\ Len(messages) \in Nat
    /\ \A n \in 1 .. Len(messages) :
         /\ Len(ResultBlocks(messages[n])) \in Nat /\ Len(ResultBlocks(messages[n])) <= Len(parts[n])
         /\ DOMAIN parts[n] = 1 .. Len(parts[n])
         /\ \A k \in 1 .. Len(ResultBlocks(messages[n])) :
             /\ parts[n][k].role = "tool" /\ parts[n][k].id = Refs(ResultBlocks(messages[n]))[k]
             /\ parts[n][k].id # NoId /\ parts[n][k].calls = <<>>
         /\ \A k \in DOMAIN parts[n] :
             /\ ~ (k <= Len(ResultBlocks(messages[n]))) => parts[n][k].role # "tool"
             /\ parts[n][k].calls # <<>> => CallBlocks(messages[n]) # <<>>
         /\ CallBlocks(messages[n]) # <<>> =>
             /\ Len(parts[n]) = 1 /\ parts[n][1].calls = Refs(CallBlocks(messages[n]))
             /\ parts[n][1].calls # <<>> /\ parts[n][1].id = NoId
         /\ \A k \in DOMAIN parts[n] : \A j \in DOMAIN parts[n][k].blocks :
             /\ parts[n][k].blocks[j].type # "tool_use"
             /\ parts[n][k].blocks[j].type = "tool_result" => parts[n][k].blocks[j].ref = NoId

\* So it is in the parts that rewriteMessages makes.
LEMMA PartsSent ==
    ASSUME NEW messages \in Seq(AnyMessage), \A n \in DOMAIN messages : ClaudeMessage(messages[n]),
           NEW parts, parts = [n \in DOMAIN messages |-> rewriteMessage(messages[n], n)]
    PROVE  StandInParts(messages, parts)
<1>1. Len(messages) \in Nat /\ DOMAIN messages = 1 .. Len(messages)
      /\ \A n \in 1 .. Len(messages) : messages[n] \in AnyMessage
    BY LenProperties, ElementOfSeq
<1>2. DOMAIN parts = 1 .. Len(messages) /\ \A n \in 1 .. Len(messages) : parts[n] = rewriteMessage(messages[n], n)
    BY <1>1
<1>3. ASSUME NEW n \in 1 .. Len(messages)
      PROVE  /\ parts[n] \in Seq(AnyMessage)
             /\ Len(ResultBlocks(messages[n])) \in Nat /\ Len(ResultBlocks(messages[n])) <= Len(parts[n])
             /\ DOMAIN parts[n] = 1 .. Len(parts[n])
             /\ \A k \in 1 .. Len(ResultBlocks(messages[n])) :
                 /\ parts[n][k].role = "tool" /\ parts[n][k].id = Refs(ResultBlocks(messages[n]))[k]
                 /\ parts[n][k].id # NoId /\ parts[n][k].calls = <<>>
             /\ \A k \in DOMAIN parts[n] :
                 /\ ~ (k <= Len(ResultBlocks(messages[n]))) => parts[n][k].role # "tool"
                 /\ parts[n][k].calls # <<>> => CallBlocks(messages[n]) # <<>>
             /\ CallBlocks(messages[n]) # <<>> =>
                 /\ Len(parts[n]) = 1 /\ parts[n][1].calls = Refs(CallBlocks(messages[n]))
                 /\ parts[n][1].calls # <<>> /\ parts[n][1].id = NoId
             /\ \A k \in DOMAIN parts[n] : \A j \in DOMAIN parts[n][k].blocks :
                 /\ parts[n][k].blocks[j].type # "tool_use"
                 /\ parts[n][k].blocks[j].type = "tool_result" => parts[n][k].blocks[j].ref = NoId
    <2> DEFINE m == messages[n]
               sent == rewriteMessage(m, n)
               results == Refs(ResultBlocks(m))
    <2>1. m \in AnyMessage /\ ClaudeMessage(m) /\ parts[n] = sent
        BY <1>1, <1>2
    <2> HIDE DEF m
    <2>2. CallBlocks(m) \in Seq(AnyContent)
        BY <2>1, KindsOfBlocks
    <2>3. CallBlocks(m) # <<>> => Refs(CallBlocks(m)) # <<>>
        BY <2>2, RefsOfBlocks
    <2>4. /\ sent \in Seq(AnyMessage) /\ Len(sent) \in Nat /\ DOMAIN sent = 1 .. Len(sent)
          /\ Len(results) \in Nat /\ Len(results) <= Len(sent) /\ Len(results) = Len(ResultBlocks(m))
          /\ \A k \in 1 .. Len(results) :
               sent[k].role = "tool" /\ sent[k].id = results[k] /\ sent[k].id # NoId /\ sent[k].calls = <<>>
          /\ \A k \in DOMAIN sent : ~(k <= Len(results)) => sent[k].role # "tool"
          /\ \A k \in DOMAIN sent : sent[k].calls # <<>> => CallBlocks(m) # <<>>
          /\ CallBlocks(m) # <<>> => /\ Len(sent) = 1 /\ Len(results) = 0 /\ sent[1].calls = Refs(CallBlocks(m))
                                     /\ sent[1].id = NoId /\ sent[1].role = "assistant"
          /\ \A k \in DOMAIN sent : \A j \in DOMAIN sent[k].blocks :
               /\ sent[k].blocks[j].type # "tool_use"
               /\ sent[k].blocks[j].type = "tool_result" => sent[k].blocks[j].ref = NoId
        BY <2>1, RewrittenTurn, Zenon
    <2> HIDE DEF sent, results
    <2>5. /\ sent \in Seq(AnyMessage)
          /\ Len(ResultBlocks(m)) \in Nat /\ Len(ResultBlocks(m)) <= Len(sent) /\ DOMAIN sent = 1 .. Len(sent)
        BY <2>4
    <2>6. \A k \in 1 .. Len(ResultBlocks(m)) :
               sent[k].role = "tool" /\ sent[k].id = results[k] /\ sent[k].id # NoId /\ sent[k].calls = <<>>
        BY <2>4
    <2>7. \A k \in DOMAIN sent : /\ ~ (k <= Len(ResultBlocks(m))) => sent[k].role # "tool"
                                 /\ sent[k].calls # <<>> => CallBlocks(m) # <<>>
        BY <2>4
    <2>8. CallBlocks(m) # <<>> => /\ Len(sent) = 1 /\ sent[1].calls = Refs(CallBlocks(m))
                                  /\ sent[1].calls # <<>> /\ sent[1].id = NoId
        BY <2>3, <2>4
    <2>9. \A k \in DOMAIN sent : \A j \in DOMAIN sent[k].blocks :
               /\ sent[k].blocks[j].type # "tool_use"
               /\ sent[k].blocks[j].type = "tool_result" => sent[k].blocks[j].ref = NoId
        BY <2>4
    <2> QED
        BY <2>1, <2>5, <2>6, <2>7, <2>8, <2>9, ZenonT(40) DEF results, m
<1>4. parts \in Seq(Seq(AnyMessage)) /\ Len(parts) = Len(messages)
    <2>1. parts = [n \in 1 .. Len(messages) |-> parts[n]]
        BY <1>1
    <2>2. \A n \in 1 .. Len(messages) : parts[n] \in Seq(AnyMessage)
        BY <1>3
    <2>3. parts \in [1 .. Len(messages) -> Seq(AnyMessage)]
        BY <2>1, <2>2
    <2> QED
        BY <1>1, <2>3
<1> QED
    BY <1>1, <1>3, <1>4 DEF StandInParts

\* Calls and results follow each other in what rewriteMessages makes of a
\* client's history.
LEMMA ClaudeIsAnswered ==
    ASSUME NEW messages \in Seq(AnyMessage), \A n \in DOMAIN messages : ClaudeMessage(messages[n]),
           ClaudeTurns(messages), HasTheWord(messages),
           NEW parts, parts = [n \in DOMAIN messages |-> rewriteMessage(messages[n], n)],
           NEW sent, sent = FlattenSeq(parts)
    PROVE  /\ sent \in Seq(AnyMessage)
           /\ ~setting.loses => AllAnswered(sent)
           /\ \A p \in DOMAIN sent : sent[p].role = "tool" =>
                sent[p].id # NoId /\ (p > 1 => sent[p - 1].id # sent[p].id)
           /\ \A p \in DOMAIN sent : \A j \in DOMAIN sent[p].blocks :
                /\ sent[p].blocks[j].type # "tool_use"
                /\ sent[p].blocks[j].type = "tool_result" => sent[p].blocks[j].ref = NoId
<1> DEFINE size == Len(messages)
           at(n) == UpToPart(parts, n)
           r(n) == Len(ResultBlocks(messages[n]))
           R(n) == Refs(ResultBlocks(messages[n]))
           C(n) == Refs(CallBlocks(messages[n]))
           Calls(n) == CallBlocks(messages[n]) # <<>>
<1>1. /\ parts \in Seq(Seq(AnyMessage)) /\ Len(parts) = size /\ size \in Nat /\ DOMAIN messages = 1 .. size
      /\ \A n \in 1 .. size :
            /\ r(n) \in Nat /\ r(n) <= Len(parts[n]) /\ DOMAIN parts[n] = 1 .. Len(parts[n])
            /\ \A k \in 1 .. r(n) : /\ parts[n][k].role = "tool" /\ parts[n][k].id = R(n)[k]
                                    /\ parts[n][k].id # NoId /\ parts[n][k].calls = <<>>
            /\ \A k \in DOMAIN parts[n] : /\ ~ (k <= r(n)) => parts[n][k].role # "tool"
                                          /\ parts[n][k].calls # <<>> => Calls(n)
            /\ Calls(n) => /\ Len(parts[n]) = 1 /\ parts[n][1].calls = C(n)
                           /\ parts[n][1].calls # <<>> /\ parts[n][1].id = NoId
            /\ \A k \in DOMAIN parts[n] : \A j \in DOMAIN parts[n][k].blocks :
                    /\ parts[n][k].blocks[j].type # "tool_use"
                    /\ parts[n][k].blocks[j].type = "tool_result" => parts[n][k].blocks[j].ref = NoId
    <2>1. size \in Nat /\ DOMAIN messages = 1 .. size
        BY LenProperties
    <2>2. StandInParts(messages, parts)
        BY PartsSent
    <2> HIDE DEF size
    <2>3. size = Len(messages)
        BY DEF size
    <2> QED
        BY <2>1, <2>2, <2>3, ZenonT(40) DEF StandInParts
<1>2. /\ \A n \in 1 .. size : Calls(n) =>
            /\ n < size /\ r(n) = 0
            /\ ~setting.loses => AnswersFor(R(n + 1), C(n)) /\ Len(C(n)) = r(n + 1) /\ Len(C(n)) > 0
      /\ \A n \in 1 .. size : r(n) > 0 => n > 1 /\ Calls(n - 1)
    BY TurnsSent
<1>3. \A n \in 1 .. size : \A k, l \in 1 .. r(n) : R(n)[k] = R(n)[l] => k = l
    <2> SUFFICES ASSUME NEW n \in 1 .. size, NEW k \in 1 .. r(n), NEW l \in 1 .. r(n), R(n)[k] = R(n)[l]
                 PROVE  k = l
        OBVIOUS
    <2> DEFINE blocks == ResultBlocks(messages[n])
    <2>1. messages[n] \in AnyMessage /\ ClaudeMessage(messages[n])
        BY <1>1, ElementOfSeq
    <2>2. blocks \in Seq(AnyContent) /\ \A i, j \in DOMAIN blocks : blocks[i].ref = blocks[j].ref => i = j
        BY <2>1, KindsOfBlocks
    <2>3. DOMAIN blocks = 1 .. Len(blocks) /\ \A i \in 1 .. Len(blocks) : Refs(blocks)[i] = blocks[i].ref
        BY <2>2, RefsOfBlocks
    <2> QED
        BY <2>2, <2>3
<1> HIDE DEF size, r, R, C, Calls, at
<1>4. sent \in Seq(AnyMessage) /\ InPlace(sent, parts)
    <2>1. parts \in Seq(Seq(AnyMessage))
        BY <1>1
    <2>2. FlattenSeq(parts) \in Seq(AnyMessage) /\ InPlace(FlattenSeq(parts), parts)
        BY <2>1, PartsInPlace, Zenon
    <2> QED
        BY <2>2
<1>20. Len(parts) = size /\ size \in Nat /\ DOMAIN messages = 1 .. size
    BY <1>1
<1>21. sent \in Seq(AnyMessage) /\ at(0) = 0 /\ \A n \in 0 .. size : at(n) \in Nat /\ at(n) <= Len(sent)
    BY <1>4, <1>20, Zenon DEF at, InPlace
<1>22. \A n \in 1 .. size : /\ Len(parts[n]) \in Nat /\ DOMAIN parts[n] = 1 .. Len(parts[n])
                            /\ at(n) = at(n - 1) + Len(parts[n])
    BY <1>4, <1>20, Zenon DEF at, InPlace
<1>23. \A n \in 0 .. size : \A k \in 0 .. n : at(k) <= at(n)
    BY <1>4, <1>20, Zenon DEF at, InPlace
<1>24. \A n \in 1 .. size : \A l \in DOMAIN parts[n] : /\ at(n - 1) + l \in DOMAIN sent
                                                       /\ sent[at(n - 1) + l] = parts[n][l]
    BY <1>4, <1>20, Zenon DEF at, InPlace
<1>25. \A p \in DOMAIN sent : \E n \in 1 .. size : \E l \in DOMAIN parts[n] : p = at(n - 1) + l
    BY <1>4, <1>20, Zenon DEF at, InPlace
<1>26. \A n \in 1 .. size : r(n) \in Nat /\ r(n) <= Len(parts[n])
    BY <1>1, ZenonT(40)
<1>27. \A n \in 1 .. size : \A k \in 1 .. r(n) : /\ parts[n][k].role = "tool" /\ parts[n][k].id = R(n)[k]
                                                 /\ parts[n][k].id # NoId
    BY <1>1, ZenonT(40)
<1>28. \A n \in 1 .. size : \A k \in DOMAIN parts[n] : /\ ~ (k <= r(n)) => parts[n][k].role # "tool"
                                                       /\ parts[n][k].calls # <<>> => Calls(n)
    BY <1>1, ZenonT(40)
<1>29. \A n \in 1 .. size : Calls(n) => /\ Len(parts[n]) = 1 /\ parts[n][1].calls = C(n)
                                        /\ parts[n][1].calls # <<>> /\ parts[n][1].id = NoId
    BY <1>1, ZenonT(40)
<1>5. DOMAIN sent = 1 .. Len(sent) /\ Len(sent) \in Nat
    BY <1>21, LenProperties
<1>30. ASSUME NEW n \in 1 .. size, n < size
       PROVE  /\ n + 1 \in 1 .. size /\ Len(parts[n + 1]) \in Nat /\ DOMAIN parts[n + 1] = 1 .. Len(parts[n + 1])
              /\ at(n + 1) = at(n) + Len(parts[n + 1])
              /\ \A l \in DOMAIN parts[n + 1] : sent[at(n) + l] = parts[n + 1][l]
    <2>1. n + 1 \in 1 .. size /\ (n + 1) - 1 = n
        BY <1>20, <1>30
    <2> DEFINE k == n + 1
    <2>2. k \in 1 .. size /\ k - 1 = n
        BY <2>1
    <2> HIDE DEF k
    <2>3. /\ Len(parts[k]) \in Nat /\ DOMAIN parts[k] = 1 .. Len(parts[k])
          /\ at(k) = at(k - 1) + Len(parts[k])
          /\ \A l \in DOMAIN parts[k] : sent[at(k - 1) + l] = parts[k][l]
        BY <1>22, <1>24, <2>2, Zenon
    <2>4. /\ at(k) = at(n) + Len(parts[k])
          /\ \A l \in DOMAIN parts[k] : sent[at(n) + l] = parts[k][l]
        BY <2>2, <2>3, Zenon
    <2> QED
        BY <2>2, <2>3, <2>4, Zenon DEF k
\* Calls are the one message of their part.
<1>6. ASSUME NEW p \in DOMAIN sent, sent[p].calls # <<>>
      PROVE  \E n \in 1 .. size : Calls(n) /\ p = at(n)
    <2>1. PICK n \in 1 .. size : \E l \in DOMAIN parts[n] : p = at(n - 1) + l
        BY <1>25
    <2>2. PICK l \in DOMAIN parts[n] : p = at(n - 1) + l
        BY <2>1
    <2>3. sent[p] = parts[n][l] /\ l \in 1 .. Len(parts[n])
        BY <1>22, <1>24, <2>2
    <2>4. Calls(n)
        BY <1>6, <1>28, <2>2, <2>3
    <2>5. Len(parts[n]) = 1 /\ at(n) = at(n - 1) + Len(parts[n])
        BY <1>22, <1>29, <2>4
    <2>6. p = at(n)
        BY <2>2, <2>5
    <2> QED
        BY <2>4, <2>6
<1>7. ASSUME NEW n \in 1 .. size, Calls(n)
      PROVE  /\ n - 1 \in 0 .. size /\ at(n) = at(n - 1) + 1 /\ at(n) \in DOMAIN sent
             /\ sent[at(n)].calls = C(n) /\ sent[at(n)].calls # <<>> /\ sent[at(n)].id = NoId
    <2>1. n - 1 \in 0 .. size /\ Len(parts[n]) = 1
        BY <1>20, <1>29, <1>7
    <2>2. at(n) = at(n - 1) + 1
        BY <1>21, <1>22, <2>1
    <2>3. 1 \in DOMAIN parts[n]
        BY <1>22, <2>1
    <2>4. at(n) \in DOMAIN sent /\ sent[at(n)] = parts[n][1]
        BY <1>24, <2>2, <2>3
    <2> QED
        BY <1>29, <1>7, <2>1, <2>2, <2>4
\* A result is one of those its part begins with, and calls stand before it.
<1>8. ASSUME NEW p \in DOMAIN sent, sent[p].role = "tool"
      PROVE  \E n \in 2 .. size : \E l \in 1 .. r(n) :
                /\ p = at(n - 1) + l /\ Calls(n - 1) /\ sent[p].id = R(n)[l] /\ sent[p].id # NoId
    <2>1. PICK n \in 1 .. size : \E l \in DOMAIN parts[n] : p = at(n - 1) + l
        BY <1>25
    <2>2. PICK l \in DOMAIN parts[n] : p = at(n - 1) + l
        BY <2>1
    <2>3. sent[p] = parts[n][l] /\ l \in DOMAIN parts[n] /\ r(n) \in Nat /\ l \in 1 .. Len(parts[n])
        BY <1>22, <1>24, <1>26, <2>2
    <2>4. l <= r(n)
        BY <1>8, <1>28, <2>3
    <2>5. l \in 1 .. r(n) /\ r(n) > 0
        BY <2>3, <2>4
    <2>6. n > 1 /\ Calls(n - 1)
        BY <1>2, <2>5
    <2>7. sent[p].id = R(n)[l] /\ sent[p].id # NoId
        BY <1>27, <2>3, <2>5
    <2>8. n \in 2 .. size
        BY <1>20, <2>6
    <2> QED
        BY <2>2, <2>5, <2>6, <2>7, <2>8
\* Behind the results stands no other.
<1>9. ASSUME ~setting.loses, NEW n \in 1 .. size, Calls(n), NEW p \in DOMAIN sent, p = at(n) + Len(C(n)) + 1
      PROVE  sent[p].role # "tool"
    <2> SUFFICES ASSUME sent[p].role = "tool" PROVE FALSE
        OBVIOUS
    <2>1. PICK j \in 2 .. size : \E l \in 1 .. r(j) : p = at(j - 1) + l /\ Calls(j - 1)
        BY <1>8
    <2>2. PICK l \in 1 .. r(j) : p = at(j - 1) + l /\ Calls(j - 1)
        BY <2>1
    <2>3. /\ n < size /\ n + 1 \in 1 .. size /\ Len(C(n)) = r(n + 1) /\ Len(C(n)) > 0
          /\ r(n + 1) \in Nat /\ r(n + 1) <= Len(parts[n + 1]) /\ at(n) \in Nat
        <3>1. n < size /\ Len(C(n)) = r(n + 1) /\ Len(C(n)) > 0
            BY <1>2, <1>9
        <3>2. n + 1 \in 1 .. size /\ n \in 0 .. size
            BY <1>20, <3>1
        <3>3. r(n + 1) \in Nat /\ r(n + 1) <= Len(parts[n + 1])
            BY <1>26, <3>2
        <3>4. at(n) \in Nat
            BY <1>21, <3>2
        <3> QED
            BY <3>1, <3>2, <3>3, <3>4
    <2>4. at(n + 1) = at(n) + Len(parts[n + 1]) /\ Len(parts[n + 1]) \in Nat /\ at(n + 1) \in Nat
        <3>1. at(n + 1) = at(n) + Len(parts[n + 1]) /\ Len(parts[n + 1]) \in Nat
            BY <1>30, <2>3, Zenon
        <3>2. n + 1 \in 0 .. size
            BY <2>3
        <3>3. at(n + 1) \in Nat
            BY <1>21, <3>2, Zenon
        <3> QED
            BY <3>1, <3>3
    <2>5. /\ j - 1 \in 1 .. size /\ r(j) \in Nat /\ r(j) <= Len(parts[j]) /\ Len(parts[j]) \in Nat
          /\ at(j) = at(j - 1) + Len(parts[j]) /\ at(j) \in Nat /\ at(j - 1) \in Nat
        <3>1. j \in 1 .. size /\ j - 1 \in 1 .. size /\ j \in 0 .. size /\ j - 1 \in 0 .. size
            BY <1>20
        <3>2. r(j) \in Nat /\ r(j) <= Len(parts[j])
            BY <1>26, <3>1, Zenon
        <3>3. Len(parts[j]) \in Nat /\ at(j) = at(j - 1) + Len(parts[j])
            BY <1>22, <3>1, Zenon
        <3>4. at(j) \in Nat /\ at(j - 1) \in Nat
            BY <1>21, <3>1, Zenon
        <3> QED
            BY <3>1, <3>2, <3>3, <3>4
    <2>6. CASE j <= n
        <3>1. j \in 0 .. n /\ n \in 0 .. size
            BY <1>20, <2>6
        <3>2. at(j) <= at(n)
            BY <1>23, <3>1
        <3>3. p <= at(j)
            BY <2>2, <2>5
        <3>4. p > at(n)
            BY <1>9, <2>3
        <3> QED
            BY <1>5, <2>3, <2>5, <3>2, <3>3, <3>4
    <2>7. CASE j = n + 1
        <3>1. j - 1 = n
            BY <1>20, <2>7
        <3>2. p = at(n) + l /\ l <= r(n + 1)
            BY <2>2, <2>7, <3>1
        <3> QED
            BY <1>9, <2>3, <3>2
    <2>8. CASE j = n + 2
        <3>1. j - 1 = n + 1
            BY <1>20, <2>8
        <3>2. Calls(n + 1)
            BY <2>2, <3>1
        <3>3. r(n + 1) = 0
            BY <1>2, <2>3, <3>2
        <3> QED
            BY <2>3, <3>3
    <2>9. CASE j > n + 2
        <3>1. at(j - 1) = at(j - 1 - 1) + 1 /\ j - 1 - 1 \in 0 .. size /\ n + 1 \in 0 .. j - 1 - 1
            <4>1. j - 1 - 1 \in 0 .. size /\ n + 1 \in 0 .. j - 1 - 1
                BY <1>20, <2>9
            <4>2. at(j - 1) = at(j - 1 - 1) + 1
                BY <1>7, <2>2, <2>5, Zenon
            <4> QED
                BY <4>1, <4>2
        <3>2. at(n + 1) <= at(j - 1 - 1) /\ at(j - 1 - 1) \in Nat
            BY <1>21, <1>23, <3>1
        <3>3. p > at(j - 1)
            BY <2>2, <2>5
        <3>4. p <= at(n + 1) + 1
            BY <1>9, <2>3, <2>4
        <3>5. p \in Nat
            BY <1>5
        <3> QED
            BY <2>4, <2>5, <3>1, <3>2, <3>3, <3>4, <3>5
    <2>10. j <= n \/ j = n + 1 \/ j = n + 2 \/ j > n + 2
        BY <1>20, <1>26
    <2> QED
        BY <2>6, <2>7, <2>8, <2>9, <2>10
<1>10. ASSUME ~setting.loses, NEW n \in 1 .. size, Calls(n)
       PROVE  Answered(sent, at(n))
    <2> DEFINE calls == sent[at(n)].calls
               ids == [k \in DOMAIN calls |-> sent[at(n) + k].id]
    <2>1. calls = C(n) /\ at(n) \in DOMAIN sent /\ at(n) \in Nat
        BY <1>5, <1>7, <1>10
    <2>2. /\ n < size /\ n + 1 \in 1 .. size /\ Len(C(n)) = r(n + 1) /\ AnswersFor(R(n + 1), C(n))
          /\ r(n + 1) \in Nat /\ r(n + 1) <= Len(parts[n + 1])
        <3>1. n < size /\ Len(C(n)) = r(n + 1) /\ AnswersFor(R(n + 1), C(n))
            BY <1>2, <1>10
        <3>2. n + 1 \in 1 .. size
            BY <1>20, <3>1
        <3>3. r(n + 1) \in Nat /\ r(n + 1) <= Len(parts[n + 1])
            BY <1>26, <3>2
        <3> QED
            BY <3>1, <3>2, <3>3
    <2>3. at(n + 1) = at(n) + Len(parts[n + 1]) /\ at(n + 1) <= Len(sent) /\ Len(parts[n + 1]) \in Nat
        <3>1. at(n + 1) = at(n) + Len(parts[n + 1]) /\ Len(parts[n + 1]) \in Nat
            BY <1>30, <2>2, Zenon
        <3>2. n + 1 \in 0 .. size
            BY <2>2
        <3>3. at(n + 1) <= Len(sent)
            BY <1>21, <3>2, Zenon
        <3> QED
            BY <3>1, <3>3
    <2>4. DOMAIN C(n) = 1 .. Len(C(n))
        <3>1. messages[n] \in AnyMessage /\ ClaudeMessage(messages[n])
            BY <1>20, ElementOfSeq
        <3>2. CallBlocks(messages[n]) \in Seq(AnyContent)
            BY <3>1, KindsOfBlocks
        <3> QED
            BY <3>2, RefsOfBlocks DEF C
    <2>5. \A k \in 1 .. r(n + 1) : /\ sent[at(n) + k].role = "tool" /\ sent[at(n) + k].id = R(n + 1)[k]
        <3> SUFFICES ASSUME NEW k \in 1 .. r(n + 1)
                     PROVE  sent[at(n) + k].role = "tool" /\ sent[at(n) + k].id = R(n + 1)[k]
            OBVIOUS
        <3>1. k \in DOMAIN parts[n + 1]
            BY <1>30, <2>2
        <3>2. sent[at(n) + k] = parts[n + 1][k]
            BY <1>30, <2>2, <3>1
        <3> QED
            BY <1>27, <2>2, <3>2
    <2>6. ids = R(n + 1)
        <3>1. DOMAIN R(n + 1) = DOMAIN C(n) /\ R(n + 1) \in Seq(AnyRef)
            BY <2>2 DEF AnswersFor
        <3>2. R(n + 1) = [k \in DOMAIN R(n + 1) |-> R(n + 1)[k]]
            BY <3>1
        <3>3. \A k \in DOMAIN C(n) : sent[at(n) + k].id = R(n + 1)[k]
            BY <2>2, <2>4, <2>5
        <3>4. ids = [k \in DOMAIN C(n) |-> sent[at(n) + k].id]
            BY <2>1
        <3> QED
            BY <3>1, <3>2, <3>3, <3>4
    <2>7. AnswersFor(ids, calls)
        BY <2>1, <2>2, <2>6, Zenon
    <2>8. at(n) + Len(calls) <= Len(sent) /\ \A k \in 1 .. Len(calls) : sent[at(n) + k].role = "tool"
        <3>1. Len(calls) = r(n + 1)
            BY <2>1, <2>2
        <3>2. at(n) + r(n + 1) <= Len(sent)
            BY <1>5, <2>1, <2>2, <2>3
        <3> HIDE DEF calls
        <3> QED
            BY <2>5, <3>1, <3>2
    <2>9. at(n) + Len(calls) < Len(sent) => sent[at(n) + Len(calls) + 1].role # "tool"
        <3>1. at(n) + Len(calls) < Len(sent) => at(n) + Len(C(n)) + 1 \in DOMAIN sent
            BY <1>5, <2>1, <2>2
        <3> QED
            BY <1>9, <1>10, <2>1, <3>1
    <2> QED
        BY <2>7, <2>8, <2>9 DEF Answered
<1>11. ~setting.loses => AllAnswered(sent)
    <2> SUFFICES ASSUME ~setting.loses, NEW p \in DOMAIN sent
                 PROVE  /\ sent[p].calls # <<>> => Answered(sent, p)
                        /\ sent[p].role = "tool" =>
                             \E k \in 1 .. p - 1 : sent[k].calls # <<>> /\ p <= k + Len(sent[k].calls)
        BY DEF AllAnswered
    <2>1. sent[p].calls # <<>> => Answered(sent, p)
        BY <1>6, <1>10
    <2>2. ASSUME sent[p].role = "tool"
          PROVE  \E k \in 1 .. p - 1 : sent[k].calls # <<>> /\ p <= k + Len(sent[k].calls)
        <3>1. PICK n \in 2 .. size : \E l \in 1 .. r(n) : p = at(n - 1) + l /\ Calls(n - 1)
            BY <1>8, <2>2
        <3>2. PICK l \in 1 .. r(n) : p = at(n - 1) + l /\ Calls(n - 1)
            BY <3>1
        <3>3. n - 1 \in 1 .. size /\ (n - 1) + 1 = n /\ r(n) \in Nat
            BY <1>20, <1>26
        <3>4. at(n - 1) \in DOMAIN sent /\ sent[at(n - 1)].calls = C(n - 1) /\ sent[at(n - 1)].calls # <<>>
            BY <1>7, <3>2, <3>3
        <3>5. Len(C(n - 1)) = r(n)
            BY <1>2, <3>2, <3>3
        <3>6. at(n - 1) \in 1 .. p - 1 /\ p <= at(n - 1) + Len(C(n - 1))
            BY <1>5, <3>2, <3>3, <3>4, <3>5
        <3> QED
            BY <3>4, <3>6
    <2> QED
        BY <2>1, <2>2
<1>12. ASSUME NEW p \in DOMAIN sent, sent[p].role = "tool"
       PROVE  sent[p].id # NoId /\ (p > 1 => sent[p - 1].id # sent[p].id)
    <2>1. PICK n \in 2 .. size : \E l \in 1 .. r(n) :
                p = at(n - 1) + l /\ Calls(n - 1) /\ sent[p].id = R(n)[l] /\ sent[p].id # NoId
        BY <1>8, <1>12
    <2>2. PICK l \in 1 .. r(n) :
                p = at(n - 1) + l /\ Calls(n - 1) /\ sent[p].id = R(n)[l] /\ sent[p].id # NoId
        BY <2>1
    <2>3. n \in 1 .. size /\ n - 1 \in 1 .. size /\ r(n) \in Nat /\ r(n) <= Len(parts[n]) /\ Len(parts[n]) \in Nat
        <3>1. n \in 1 .. size /\ n - 1 \in 1 .. size
            BY <1>20
        <3>2. r(n) \in Nat /\ r(n) <= Len(parts[n]) /\ Len(parts[n]) \in Nat
            BY <1>22, <1>26, <3>1, Zenon
        <3> QED
            BY <3>1, <3>2
    <2>4. at(n - 1) \in Nat
        <3>1. n - 1 \in 0 .. size
            BY <2>3
        <3> QED
            BY <1>21, <3>1, Zenon
    <2>5. CASE l = 1
        <3>1. p - 1 = at(n - 1)
            BY <2>2, <2>4, <2>5
        <3>2. sent[at(n - 1)].id = NoId
            BY <1>7, <2>2, <2>3
        <3> QED
            BY <2>2, <3>1, <3>2
    <2>6. CASE l # 1
        <3>1. l - 1 \in 1 .. r(n) /\ l - 1 \in DOMAIN parts[n] /\ p - 1 = at(n - 1) + (l - 1)
            BY <1>22, <2>2, <2>3, <2>4, <2>6
        <3>2. sent[p - 1] = parts[n][l - 1]
            BY <1>24, <2>3, <3>1, Zenon
        <3>3. sent[p - 1].id = R(n)[l - 1]
            BY <1>27, <2>3, <3>1, <3>2, Zenon
        <3>4. R(n)[l - 1] # R(n)[l]
            <4>1. l - 1 # l
                OBVIOUS
            <4> QED
                BY <1>3, <2>3, <3>1, <4>1
        <3> QED
            BY <2>2, <3>3, <3>4
    <2> QED
        BY <2>2, <2>5, <2>6
<1>13. ASSUME NEW p \in DOMAIN sent, NEW j \in DOMAIN sent[p].blocks
       PROVE  /\ sent[p].blocks[j].type # "tool_use"
              /\ sent[p].blocks[j].type = "tool_result" => sent[p].blocks[j].ref = NoId
    <2>1. PICK n \in 1 .. size : \E l \in DOMAIN parts[n] : p = at(n - 1) + l
        BY <1>25
    <2>2. PICK l \in DOMAIN parts[n] : p = at(n - 1) + l
        BY <2>1
    <2>3. sent[p] = parts[n][l] /\ l \in DOMAIN parts[n]
        BY <1>24, <2>2, Zenon
    <2> QED
        BY <1>1, <2>3
<1> QED
    BY <1>21, <1>11, <1>12, <1>13, Zenon

\* A message in which no tools are involved has neither calls nor results that
\* have an id among its blocks (ToolsInvolved).
LEMMA BlocksStay ==
    ASSUME NEW m \in AnyMessage, ClaudeMessage(m), ~ToolsInvolved(m), NEW j \in DOMAIN m.blocks
    PROVE  m.blocks[j].type # "tool_use" /\ (m.blocks[j].type = "tool_result" => m.blocks[j].ref = NoId)
<1> DEFINE calls == Places(m, {"tool_use"})
           named == {k \in Places(m, {"tool_result"}) : m.blocks[k].ref # NoId}
<1>1. CASE m.isString
    BY <1>1 DEF ClaudeMessage
<1>2. CASE ~m.isString
    <2>1. CallBlocks(m) \o ResultBlocks(m) = <<>>
        BY <1>2 DEF ToolsInvolved
    <2>2. CallBlocks(m) \in Seq(AnyContent) /\ ResultBlocks(m) \in Seq(AnyContent)
        BY KindsOfBlocks
    <2>3. CallBlocks(m) = <<>> /\ ResultBlocks(m) = <<>>
        BY <2>1, <2>2
    <2>4. m.blocks \in Seq(AnyContent)
        BY DEF AnyMessage
    <2>5. CallBlocks(m) = BlocksAt(m, calls) /\ ResultBlocks(m) = BlocksAt(m, named)
        BY DEF CallBlocks, BlocksOf, ResultBlocks
    <2>6. /\ m.blocks[j].type = "tool_use" => j \in calls
          /\ m.blocks[j].type = "tool_result" /\ m.blocks[j].ref # NoId => j \in named
        BY DEF Places
    <2> HIDE DEF calls, named
    <2>7. ASSUME NEW places, j \in places PROVE BlocksAt(m, places) # <<>>
        <3>1. \E a \in DOMAIN BlocksAt(m, places) : BlocksAt(m, places)[a] = m.blocks[j]
            BY <2>4, <2>7, BlocksAtPlaces
        <3> QED
            BY <3>1
    <2> QED
        BY <2>3, <2>5, <2>6, <2>7
<1> QED
    BY <1>1, <1>2

\* A request in Claude's shape reaches the upstream as it is when no tools are
\* involved, and rewritten otherwise (ClaudeRequestToUpstream).
LEMMA SentOfClaude ==
    ASSUME setting.path = "/v1/messages", AreMessages(setting, history), ClaudeTurns(history), HasTheWord(history),
           forwarded = ForwardBody(setting, Request(setting, history))
    PROVE  /\ Sent \in Seq(AnyMessage)
           /\ ~setting.loses => AllAnswered(Sent)
           /\ \A p \in DOMAIN Sent : Sent[p].role = "tool" =>
                Sent[p].id # NoId /\ (p > 1 => Sent[p - 1].id # Sent[p].id)
           /\ \A p \in DOMAIN Sent : \A j \in DOMAIN Sent[p].blocks :
                /\ Sent[p].blocks[j].type # "tool_use"
                /\ Sent[p].blocks[j].type = "tool_result" => Sent[p].blocks[j].ref = NoId
<1>1. history \in Seq(AnyMessage) /\ \A n \in DOMAIN history : ClaudeMessage(history[n])
    BY DEF AreMessages, Shaped
<1>2. Sent = rewriteMessages(history)
    <2>1. Request(setting, history).messages = history /\ DOMAIN Request(setting, history) = {"name", "messages", "tools", "choice"}
        BY DEF Request
    <2>2. ForwardBody(setting, Request(setting, history)) = ClaudeRequestToUpstream(Request(setting, history))
        BY DEF ForwardBody, Endpoint
    <2>3. ClaudeRequestToUpstream(Request(setting, history)).messages = rewriteMessages(history)
        BY DEF Request, ClaudeRequestToUpstream
    <2> QED
        BY <2>2, <2>3 DEF Sent
<1>3. CASE \E n \in DOMAIN history : ToolsInvolved(history[n])
    <2> DEFINE parts == [n \in DOMAIN history |-> rewriteMessage(history[n], n)]
    <2>1. Sent = FlattenSeq(parts)
        BY <1>2, <1>3 DEF rewriteMessages
    <2> HIDE DEF parts
    <2>2. parts = [n \in DOMAIN history |-> rewriteMessage(history[n], n)]
        BY DEF parts
    <2> QED
        BY <1>1, <2>1, <2>2, ClaudeIsAnswered
<1>4. CASE \A n \in DOMAIN history : ~ToolsInvolved(history[n])
    <2>1. Sent = history
        BY <1>2, <1>4 DEF rewriteMessages
    <2>2. \A n \in DOMAIN history : history[n] \in AnyMessage /\ history[n].role # "tool" /\ history[n].calls = <<>>
        BY <1>1, ElementOfSeq DEF ClaudeMessage
    <2>3. ASSUME NEW n \in DOMAIN history, NEW j \in DOMAIN history[n].blocks
          PROVE  /\ history[n].blocks[j].type # "tool_use"
                 /\ history[n].blocks[j].type = "tool_result" => history[n].blocks[j].ref = NoId
        <3>1. history[n] \in AnyMessage /\ ClaudeMessage(history[n]) /\ ~ToolsInvolved(history[n])
            BY <1>1, <1>4, <2>2
        <3> QED
            BY <3>1, BlocksStay
    <2>4. AllAnswered(history)
        BY <2>2 DEF AllAnswered
    <2> QED
        BY <1>1, <2>1, <2>2, <2>3, <2>4, Zenon
<1> QED
    BY <1>3, <1>4

\* The tools of a request become functions, and the one that is chosen is
\* among them (rewriteTools, rewriteToolChoice).
LEMMA ToolsOfClaude ==
    ASSUME setting.path = "/v1/messages", forwarded = ForwardBody(setting, Request(setting, history))
    PROVE  /\ \A n \in DOMAIN forwarded.tools :
                forwarded.tools[n].name # "" => forwarded.tools[n].shape = "function"
           /\ forwarded.choice.tool \in {forwarded.tools[n].name : n \in DOMAIN forwarded.tools}
<1> DEFINE tools == <<Tool("claude", "Read"), Tool("claude", "")>>
           choice == [shape |-> "claude", name |-> "tool", tool |-> "Read"]
<1>1. forwarded = ClaudeRequestToUpstream(Request(setting, history))
    BY DEF ForwardBody, Endpoint
<1>2. forwarded.tools = rewriteTools(tools) /\ forwarded.choice = rewriteToolChoice(choice)
    BY <1>1 DEF ClaudeRequestToUpstream, Request
<1>3. choice.shape = "claude" /\ choice.name = "tool" /\ choice.tool = "Read"
    OBVIOUS
<1>4. /\ Len(tools) = 2 /\ DOMAIN tools = 1 .. 2 /\ tools[1] = Tool("claude", "Read") /\ tools[2] = Tool("claude", "")
    OBVIOUS
<1>5. \A shape, name : Tool(shape, name).shape = shape /\ Tool(shape, name).name = name
    BY DEF Tool
<1> HIDE DEF tools, choice
<1>6. rewriteToolChoice(choice).tool = "Read"
    <2>1. rewriteToolChoice(choice) = [shape |-> "upstream", name |-> "function", tool |-> choice.tool]
        BY <1>3 DEF rewriteToolChoice
    <2> QED
        BY <1>3, <2>1
<1>7. tools[1].name = "Read" /\ tools[1].name # "" /\ tools[2].name = ""
    <2>1. Tool("claude", "Read").name = "Read" /\ Tool("claude", "").name = ""
        BY DEF Tool
    <2> QED
        BY <1>4, <2>1
<1>8. /\ DOMAIN rewriteTools(tools) = 1 .. 2
      /\ rewriteTools(tools)[1] = Tool("function", "Read") /\ rewriteTools(tools)[2] = tools[2]
    <2>1. 1 \in 1 .. 2 /\ 2 \in 1 .. 2
        OBVIOUS
    <2> QED
        BY <1>4, <1>7, <2>1 DEF rewriteTools
<1>9. \A n \in 1 .. 2 : n = 1 \/ n = 2
    OBVIOUS
<1>10. ASSUME NEW n \in DOMAIN forwarded.tools, forwarded.tools[n].name # ""
       PROVE  forwarded.tools[n].shape = "function"
    <2>1. n = 1
        BY <1>2, <1>7, <1>8, <1>9, <1>10
    <2> QED
        BY <1>2, <1>8, <2>1 DEF Tool
<1>11. 1 \in DOMAIN forwarded.tools /\ forwarded.tools[1].name = "Read"
    BY <1>2, <1>8 DEF Tool
<1> QED
    BY <1>2, <1>6, <1>10, <1>11

\* What is forwarded came to one of the paths of endpoints (ServeHTTP).
LEMMA PathIsEndpoint ==
    ASSUME Decided, IsForwarded
    PROVE  setting.path \in {"/v1/chat/completions", "/v1/messages", "/v1/responses"}
<1>1. Admission(setting) = 0
    BY DEF Decided
<1>2. handleListModels(setting, setting.method).status # 0
    BY DEF handleListModels
<1>3. ASSUME setting.path \notin Endpoints
      PROVE  Admission(setting) \in {204, 404, handleListModels(setting, setting.method).status}
    BY <1>3 DEF Admission
<1> QED
    BY <1>1, <1>2, <1>3 DEF Endpoints

\* Whatever the client's shape, the order of results and the words beside them,
\* the upstream gets an exchange of calls and results it accepts, in histories
\* of any length (rewriteMessages, NormalizeChatCompletionRequest).
THEOREM ToolExchangesAreValid == Spec => []ToolExchangeIsValid
<1>1. ASSUME ConversationInv, ExchangeInv, Decided PROVE ToolExchangeIsValid
    <2> SUFFICES ASSUME IsForwarded
                 PROVE  /\ ~setting.loses => CallsAreAnswered
                        /\ setting.path # "/v1/responses" => ResultsHaveIds
                        /\ ToolsAreFunctions
        BY DEF ToolExchangeIsValid
    <2>1. /\ history \in Seq(AnyMessage) /\ \A n \in DOMAIN history : Shaped(setting, history[n])
          /\ AreMessages(setting, history) /\ forwarded = ForwardBody(setting, Request(setting, history))
        BY <1>1 DEF ConversationInv, AreMessages, IsRewrittenHistory
    <2>2. HasTheWord(history) /\ IF IsChatShaped THEN ChatTurns(history) ELSE ClaudeTurns(history)
        BY <1>1 DEF ExchangeInv, IsForwarded
    <2>3. setting.path \in {"/v1/chat/completions", "/v1/messages", "/v1/responses"}
        BY <1>1, PathIsEndpoint
    <2>4. CASE setting.path = "/v1/messages"
        <3>1. /\ Sent \in Seq(AnyMessage)
              /\ ~setting.loses => AllAnswered(Sent)
              /\ \A p \in DOMAIN Sent : Sent[p].role = "tool" =>
                    Sent[p].id # NoId /\ (p > 1 => Sent[p - 1].id # Sent[p].id)
              /\ \A p \in DOMAIN Sent : \A j \in DOMAIN Sent[p].blocks :
                    /\ Sent[p].blocks[j].type # "tool_use"
                    /\ Sent[p].blocks[j].type = "tool_result" => Sent[p].blocks[j].ref = NoId
            BY <2>1, <2>2, <2>4, SentOfClaude DEF IsChatShaped
        <3>2. ~setting.loses => CallsAreAnswered
            BY <3>1, CallsGetAnswers
        <3>3. ResultsHaveIds
            BY <3>1, Zenon DEF ResultsHaveIds
        <3>4. \A n \in DOMAIN Sent : \A b \in ToSet(Sent[n].blocks) :
                b.type # "tool_use" /\ (b.type = "tool_result" => b.ref = NoId)
            BY <3>1, Zenon DEF ToSet
        <3>5. ToolsAreFunctions
            BY <2>1, <2>4, <3>4, ToolsOfClaude DEF ToolsAreFunctions
        <3> QED
            BY <3>2, <3>3, <3>5
    <2>5. CASE setting.path # "/v1/messages"
        <3>1. ChatTurns(history) /\ \A n \in DOMAIN history : ChatMessage(history[n])
            BY <2>1, <2>2, <2>5 DEF IsChatShaped, Shaped
        <3>2. ToolsAreFunctions
            BY <2>5 DEF ToolsAreFunctions
        <3>3. /\ Sent \in Seq(AnyMessage) /\ Len(Sent) = Len(history)
              /\ \A n \in DOMAIN history :
                    /\ Sent[n].calls = history[n].calls /\ (Sent[n].role = "tool" <=> history[n].role = "tool")
                    /\ \/ Sent[n].id = history[n].id
                       \/ history[n].role = "tool" /\ history[n].id = NoId /\ Sent[n].id = Id("gateway", n)
              /\ setting.path # "/v1/responses" => \A n \in DOMAIN Sent : Sent[n].role = "tool" => Sent[n].id # NoId
            <4>1. CASE setting.path = "/v1/responses"
                <5>1. Sent = history
                    BY <2>1, <4>1 DEF Sent, ForwardBody, Endpoint, Request
                <5> QED
                    BY <2>1, <4>1, <5>1
            <4>2. CASE setting.path = "/v1/chat/completions"
                <5> DEFINE sent == ForwardBody(setting, Request(setting, history)).messages
                <5>1. Sent = sent
                    BY <2>1 DEF Sent
                <5>2. /\ sent \in Seq(AnyMessage) /\ Len(sent) = Len(history)
                      /\ \A n \in DOMAIN history :
                            /\ sent[n].calls = history[n].calls /\ (sent[n].role = "tool" <=> history[n].role = "tool")
                            /\ sent[n].id = IF history[n].role = "tool" /\ history[n].id = NoId THEN Id("gateway", n)
                                            ELSE history[n].id
                    BY <2>1, <4>2, SentInChat, Zenon
                <5> HIDE DEF sent
                <5>3. ASSUME NEW n \in DOMAIN history
                      PROVE  /\ \/ sent[n].id = history[n].id
                                \/ history[n].role = "tool" /\ history[n].id = NoId /\ sent[n].id = Id("gateway", n)
                             /\ sent[n].role = "tool" => sent[n].id # NoId
                    BY <5>2, IdsAreRefs
                <5>4. DOMAIN sent = DOMAIN history
                    BY <2>1, <5>2, LenProperties
                <5> QED
                    BY <5>1, <5>2, <5>3, <5>4, Zenon
            <4> QED
                BY <2>3, <2>5, <4>1, <4>2
        <3>4. /\ ~setting.loses => AllAnswered(Sent)
              /\ (\A k \in DOMAIN Sent : Sent[k].role = "tool" => Sent[k].id # NoId) =>
                    \A k \in DOMAIN Sent : Sent[k].role = "tool" /\ k > 1 => Sent[k - 1].id # Sent[k].id
            BY <2>1, <2>2, <3>1, <3>3, ChatIsAnswered
        <3>5. ~setting.loses => CallsAreAnswered
            BY <3>3, <3>4, CallsGetAnswers
        <3>6. setting.path # "/v1/responses" => ResultsHaveIds
            BY <3>3, <3>4, Zenon DEF ResultsHaveIds
        <3> QED
            BY <3>2, <3>5, <3>6
    <2> QED
        BY <2>4, <2>5
<1> QED
    BY <1>1, ConversationAlways, ExchangeAlways, AlwaysDecided, PTL

-----------------------------------------------------------------------------
(* How often something is said                                             *)

\* How often x is there in seq.
Times(seq, x) == Cardinality({k \in DOMAIN seq : seq[k] = x})

\* That is a number, and 0 only when it is not there.
LEMMA TimesIsNumber ==
    ASSUME NEW S, NEW seq \in Seq(S), NEW x
    PROVE  /\ IsFiniteSet({k \in DOMAIN seq : seq[k] = x}) /\ Times(seq, x) \in Nat
           /\ Times(seq, x) = 0 <=> \A k \in DOMAIN seq : seq[k] # x
<1> DEFINE places == {k \in DOMAIN seq : seq[k] = x}
<1>1. Len(seq) \in Nat /\ DOMAIN seq = 1 .. Len(seq)
    BY LenProperties
<1>2. IsFiniteSet(1 .. Len(seq))
    BY <1>1, FS_Interval
<1>3. places \in SUBSET (1 .. Len(seq))
    BY <1>1
<1>4. IsFiniteSet(places)
    BY <1>2, <1>3, FS_Subset
<1>5. Cardinality(places) \in Nat /\ (Cardinality(places) = 0 <=> places = {})
    BY <1>4, FS_CardinalityType, FS_EmptySet
<1>6. places = {} <=> \A k \in DOMAIN seq : seq[k] # x
    OBVIOUS
<1> HIDE DEF places
<1> QED
    BY <1>4, <1>5, <1>6 DEF Times, places

\* In two sequences that are joined it is there as often as in both.
LEMMA TimesJoined ==
    ASSUME NEW S, NEW s \in Seq(S), NEW t \in Seq(S), NEW x
    PROVE  Times(s \o t, x) = Times(s, x) + Times(t, x)
<1> DEFINE all == s \o t
           n == Len(s)
           A == {k \in DOMAIN s : s[k] = x}
           B == {k \in DOMAIN t : t[k] = x}
           moved == {k \in DOMAIN all : all[k] = x /\ k > n}
           whole == {k \in DOMAIN all : all[k] = x}
           shift == [k \in B |-> n + k]
<1>1. /\ all \in Seq(S) /\ n \in Nat /\ Len(t) \in Nat /\ DOMAIN all = 1 .. n + Len(t)
      /\ DOMAIN s = 1 .. n /\ DOMAIN t = 1 .. Len(t)
      /\ \A k \in 1 .. n : all[k] = s[k]
      /\ \A k \in 1 .. Len(t) : all[n + k] = t[k]
      /\ \A k \in 1 .. n + Len(t) : k \in 1 .. n \/ \E l \in 1 .. Len(t) : k = n + l
    BY Joining
<1>2. IsFiniteSet(A) /\ IsFiniteSet(B)
    BY TimesIsNumber
<1> HIDE DEF all, n
<1>3. whole = A \cup moved
    BY <1>1
<1>4. A \cap moved = {}
    BY <1>1
<1>5. shift \in [B -> moved]
    BY <1>1
<1>6. shift \in Injection(B, moved)
    <2>1. ASSUME NEW k \in B, NEW l \in B, shift[k] = shift[l] PROVE k = l
        BY <1>1, <2>1
    <2> HIDE DEF shift
    <2> QED
        BY <1>5, <2>1 DEF Injection, IsInjective
<1>7. shift \in Surjection(B, moved)
    <2>1. ASSUME NEW k \in moved PROVE \E l \in B : shift[l] = k
        <3>1. k \in 1 .. n + Len(t) /\ ~ (k \in 1 .. n) /\ all[k] = x
            BY <1>1
        <3>2. PICK l \in 1 .. Len(t) : k = n + l
            BY <1>1, <3>1
        <3>3. l \in B
            BY <1>1, <3>1, <3>2
        <3> QED
            BY <3>2, <3>3
    <2> HIDE DEF shift
    <2> QED
        BY <1>5, <2>1 DEF Surjection
<1>8. ExistsBijection(B, moved)
    <2> HIDE DEF shift, B, moved
    <2> QED
        BY <1>6, <1>7 DEF ExistsBijection, Bijection
<1> HIDE DEF A, B, moved, whole
<1>9. IsFiniteSet(moved) /\ Cardinality(moved) = Cardinality(B)
    BY <1>2, <1>8, FS_Bijection
<1>10. Cardinality(A \cup moved) = Cardinality(A) + Cardinality(moved) - Cardinality(A \cap moved)
    BY <1>2, <1>9, FS_Union
<1>11. Cardinality(A \cap moved) = 0
    BY <1>4, FS_EmptySet
<1>12. Cardinality(A) \in Nat /\ Cardinality(B) \in Nat
    BY <1>2, FS_CardinalityType
<1>13. Cardinality(whole) = Cardinality(A) + Cardinality(B)
    BY <1>3, <1>9, <1>10, <1>11, <1>12
<1> QED
    BY <1>13 DEF whole, A, B, all, Times

\* What blocks say, and calls (Said).
KindOf(type) == CASE type = "tool_use" -> "call" [] type = "tool_result" -> "result" [] OTHER -> type
SaidIn(blocks) == [n \in DOMAIN blocks |-> <<KindOf(blocks[n].type), blocks[n].ref>>]
SaidCalls(calls) == [n \in DOMAIN calls |-> <<"call", calls[n]>>]

AnySaid == {"call", "result", "text", "image", "thinking"} \X AnyRef

\* It is as long as they are many.
LEMMA SaidOfBlocks ==
    /\ \A blocks \in Seq(AnyContent) :
        /\ SaidIn(blocks) \in Seq(AnySaid) /\ Len(SaidIn(blocks)) = Len(blocks)
        /\ DOMAIN SaidIn(blocks) = DOMAIN blocks
    /\ \A calls \in Seq(AnyRef) :
        /\ SaidCalls(calls) \in Seq(AnySaid) /\ Len(SaidCalls(calls)) = Len(calls)
        /\ DOMAIN SaidCalls(calls) = DOMAIN calls
    /\ \A ref \in AnyRef : <<<<"result", ref>>>> \in Seq(AnySaid)
<1>1. ASSUME NEW blocks \in Seq(AnyContent)
      PROVE  /\ SaidIn(blocks) \in Seq(AnySaid) /\ Len(SaidIn(blocks)) = Len(blocks)
             /\ DOMAIN SaidIn(blocks) = DOMAIN blocks
    <2>1. Len(blocks) \in Nat /\ DOMAIN blocks = 1 .. Len(blocks)
        BY LenProperties
    <2>2. ASSUME NEW n \in 1 .. Len(blocks) PROVE <<KindOf(blocks[n].type), blocks[n].ref>> \in AnySaid
        <3>1. blocks[n] \in AnyContent
            BY <2>1, ElementOfSeq
        <3>2. blocks[n].ref \in AnyRef /\ blocks[n].type \in {"text", "image", "thinking", "tool_use", "tool_result"}
            BY <3>1 DEF AnyContent
        <3>3. KindOf(blocks[n].type) \in {"call", "result", "text", "image", "thinking"}
            BY <3>2 DEF KindOf
        <3> QED
            BY <3>2, <3>3 DEF AnySaid
    <2>3. SaidIn(blocks) = [n \in 1 .. Len(blocks) |-> <<KindOf(blocks[n].type), blocks[n].ref>>]
        BY <2>1 DEF SaidIn
    <2> QED
        BY <2>1, <2>2, <2>3
<1>2. ASSUME NEW calls \in Seq(AnyRef)
      PROVE  /\ SaidCalls(calls) \in Seq(AnySaid) /\ Len(SaidCalls(calls)) = Len(calls)
             /\ DOMAIN SaidCalls(calls) = DOMAIN calls
    <2>1. Len(calls) \in Nat /\ DOMAIN calls = 1 .. Len(calls)
        BY LenProperties
    <2>2. \A n \in 1 .. Len(calls) : <<"call", calls[n]>> \in AnySaid
        BY <2>1, ElementOfSeq DEF AnySaid
    <2>3. SaidCalls(calls) = [n \in 1 .. Len(calls) |-> <<"call", calls[n]>>]
        BY <2>1 DEF SaidCalls
    <2> QED
        BY <2>1, <2>2, <2>3
<1>3. ASSUME NEW ref \in AnyRef PROVE <<<<"result", ref>>>> \in Seq(AnySaid)
    <2>1. <<"result", ref>> \in AnySaid
        BY DEF AnySaid
    <2> QED
        BY <2>1
<1> QED
    BY <1>1, <1>2, <1>3

\* What a message says, part by part.
LEMMA SaidIs ==
    ASSUME NEW m \in AnyMessage
    PROVE  /\ Said(m) = SaidIn(m.blocks) \o SaidCalls(m.calls) \o (IF m.role = "tool" THEN <<<<"result", m.id>>>> ELSE <<>>)
           /\ Said(m) \in Seq(AnySaid)
           /\ SaidIn(m.blocks) \in Seq(AnySaid) /\ SaidCalls(m.calls) \in Seq(AnySaid)
           /\ <<<<"result", m.id>>>> \in Seq(AnySaid)
           /\ m.role # "tool" => Said(m) = SaidIn(m.blocks) \o SaidCalls(m.calls)
           /\ m.role = "tool" => Said(m) = SaidIn(m.blocks) \o SaidCalls(m.calls) \o <<<<"result", m.id>>>>
           /\ m.calls = <<>> /\ m.role # "tool" => Said(m) = SaidIn(m.blocks)
<1>1. m.blocks \in Seq(AnyContent) /\ m.calls \in Seq(AnyRef) /\ m.id \in AnyRef
    BY DEF AnyMessage
<1> DEFINE blocks == SaidIn(m.blocks)
           calls == SaidCalls(m.calls)
           result == <<<<"result", m.id>>>>
<1>2. Said(m) = blocks \o calls \o (IF m.role = "tool" THEN result ELSE <<>>)
    BY DEF Said, SaidIn, SaidCalls, KindOf
<1>3. blocks \in Seq(AnySaid) /\ calls \in Seq(AnySaid) /\ result \in Seq(AnySaid)
    BY <1>1, SaidOfBlocks
<1>4. m.calls = <<>> => calls = <<>>
    <2>1. Len(calls) = Len(m.calls)
        BY <1>1, SaidOfBlocks
    <2> HIDE DEF calls
    <2> QED
        BY <1>3, <2>1, EmptySeq
<1> HIDE DEF blocks, calls, result
<1>5. CASE m.role = "tool"
    <2>1. Said(m) = blocks \o calls \o result
        BY <1>2, <1>5
    <2>2. Said(m) \in Seq(AnySaid)
        BY <1>3, <2>1
    <2> QED
        BY <1>2, <1>3, <1>5, <2>1, <2>2 DEF blocks, calls, result
<1>6. CASE m.role # "tool"
    <2>1. Said(m) = blocks \o calls \o <<>>
        BY <1>2, <1>6
    <2>2. blocks \o calls \o <<>> = blocks \o calls /\ blocks \o calls \in Seq(AnySaid) /\ blocks \o <<>> = blocks
        BY <1>3
    <2>3. Said(m) \in Seq(AnySaid) /\ Said(m) = blocks \o calls /\ (m.calls = <<>> => Said(m) = blocks)
        BY <1>4, <2>1, <2>2
    <2> QED
        BY <1>2, <1>3, <1>6, <2>3 DEF blocks, calls, result
<1> QED
    BY <1>5, <1>6

\* What is said in two lists of blocks that are joined.
LEMMA SaidInJoined ==
    ASSUME NEW s \in Seq(AnyContent), NEW t \in Seq(AnyContent)
    PROVE  SaidIn(s \o t) = SaidIn(s) \o SaidIn(t)
<1> DEFINE f == SaidIn(s \o t)
<1>1. SaidIn(s) \in Seq(AnySaid) /\ SaidIn(t) \in Seq(AnySaid) /\ Len(SaidIn(s)) = Len(s) /\ Len(SaidIn(t)) = Len(t)
      /\ DOMAIN SaidIn(s) = DOMAIN s /\ DOMAIN SaidIn(t) = DOMAIN t
    BY SaidOfBlocks
<1>2. /\ s \o t \in Seq(AnyContent) /\ Len(s) \in Nat /\ Len(t) \in Nat
      /\ DOMAIN (s \o t) = 1 .. Len(s) + Len(t)
      /\ DOMAIN s = 1 .. Len(s) /\ DOMAIN t = 1 .. Len(t)
      /\ \A n \in 1 .. Len(s) : (s \o t)[n] = s[n]
      /\ \A n \in 1 .. Len(t) : (s \o t)[Len(s) + n] = t[n]
    BY Joining
<1> DEFINE all == s \o t
<1> HIDE DEF all
<1>3. DOMAIN all = 1 .. Len(s) + Len(t) /\ (\A n \in 1 .. Len(s) : all[n] = s[n] /\ n \in 1 .. Len(s) + Len(t))
      /\ (\A n \in 1 .. Len(t) : all[Len(s) + n] = t[n] /\ Len(s) + n \in 1 .. Len(s) + Len(t))
    BY <1>2 DEF all
<1>4. /\ f = [n \in DOMAIN f |-> f[n]] /\ DOMAIN f = 1 .. Len(s) + Len(t)
      /\ \A n \in 1 .. Len(s) : f[n] = SaidIn(s)[n]
      /\ \A n \in 1 .. Len(t) : f[Len(s) + n] = SaidIn(t)[n]
    <2>1. f = SaidIn(all)
        BY DEF all
    <2> HIDE DEF f
    <2> QED
        BY <1>2, <1>3, <2>1 DEF SaidIn
<1> HIDE DEF f
<1>5. \A u, v \in Seq(AnySaid) :
        /\ f = [n \in DOMAIN f |-> f[n]] /\ DOMAIN f = 1 .. Len(u) + Len(v)
        /\ \A n \in 1 .. Len(u) : f[n] = u[n]
        /\ \A n \in 1 .. Len(v) : f[Len(u) + n] = v[n]
        => f = u \o v
    BY IsConcat
<1>6. DOMAIN f = 1 .. Len(SaidIn(s)) + Len(SaidIn(t)) /\ 1 .. Len(SaidIn(s)) = 1 .. Len(s) /\ 1 .. Len(SaidIn(t)) = 1 .. Len(t)
    BY <1>1, <1>4
<1>7. \A n \in 1 .. Len(SaidIn(t)) : f[Len(SaidIn(s)) + n] = SaidIn(t)[n]
    BY <1>1, <1>4
<1>8. f = SaidIn(s) \o SaidIn(t)
    BY <1>1, <1>4, <1>5, <1>6, <1>7, Zenon
<1> QED
    BY <1>8 DEF f

\* What messages say, one behind the other (AllSaid).
SaidBy(messages) == FlattenSeq([n \in DOMAIN messages |-> Said(messages[n])])

Saids(messages) == [n \in DOMAIN messages |-> Said(messages[n])]

\* It is a sequence; two lists of messages that are joined say what both say,
\* and one message what it says.
LEMMA SaidByJoined ==
    /\ \A messages \in Seq(AnyMessage) : /\ Saids(messages) \in Seq(Seq(AnySaid)) /\ SaidBy(messages) \in Seq(AnySaid)
                                         /\ Len(Saids(messages)) = Len(messages)
    /\ \A s, t \in Seq(AnyMessage) : SaidBy(s \o t) = SaidBy(s) \o SaidBy(t)
    /\ \A m \in AnyMessage : SaidBy(<<m>>) = Said(m)
    /\ SaidBy(<<>>) = <<>>
<1>1. ASSUME NEW messages \in Seq(AnyMessage)
      PROVE  /\ Saids(messages) \in Seq(Seq(AnySaid)) /\ SaidBy(messages) \in Seq(AnySaid)
             /\ Len(Saids(messages)) = Len(messages) /\ DOMAIN Saids(messages) = 1 .. Len(messages)
             /\ SaidBy(messages) = FlattenSeq(Saids(messages))
    <2>1. Len(messages) \in Nat /\ DOMAIN messages = 1 .. Len(messages)
        BY LenProperties
    <2>2. \A n \in 1 .. Len(messages) : Said(messages[n]) \in Seq(AnySaid)
        BY <2>1, ElementOfSeq, SaidIs
    <2>3. Saids(messages) = [n \in 1 .. Len(messages) |-> Said(messages[n])]
        BY <2>1 DEF Saids
    <2>4. Saids(messages) \in [1 .. Len(messages) -> Seq(AnySaid)]
        BY <2>2, <2>3
    <2>5. Saids(messages) \in Seq(Seq(AnySaid)) /\ Len(Saids(messages)) = Len(messages)
        BY <2>1, <2>4
    <2>6. SaidBy(messages) = FlattenSeq(Saids(messages))
        BY DEF SaidBy, Saids
    <2> QED
        BY <2>3, <2>5, <2>6, FlattenType
<1>2. ASSUME NEW s \in Seq(AnyMessage), NEW t \in Seq(AnyMessage)
      PROVE  SaidBy(s \o t) = SaidBy(s) \o SaidBy(t)
    <2> DEFINE all == s \o t
               f == Saids(all)
               p == Saids(s)
               q == Saids(t)
    <2>1. /\ all \in Seq(AnyMessage) /\ Len(s) \in Nat /\ Len(t) \in Nat
          /\ DOMAIN all = 1 .. Len(s) + Len(t)
          /\ DOMAIN s = 1 .. Len(s) /\ DOMAIN t = 1 .. Len(t)
          /\ \A n \in 1 .. Len(s) : all[n] = s[n]
          /\ \A n \in 1 .. Len(t) : all[Len(s) + n] = t[n]
        BY Joining
    <2> HIDE DEF all
    <2>2. p \in Seq(Seq(AnySaid)) /\ q \in Seq(Seq(AnySaid)) /\ Len(p) = Len(s) /\ Len(q) = Len(t)
          /\ SaidBy(s) = FlattenSeq(p) /\ SaidBy(t) = FlattenSeq(q) /\ SaidBy(all) = FlattenSeq(f)
        BY <1>1, <2>1
    <2>3. (\A n \in 1 .. Len(s) : n \in DOMAIN all) /\ (\A n \in 1 .. Len(t) : Len(s) + n \in DOMAIN all)
        BY <2>1
    <2>4. /\ f = [n \in DOMAIN f |-> f[n]] /\ DOMAIN f = 1 .. Len(s) + Len(t)
          /\ \A n \in 1 .. Len(s) : f[n] = p[n]
          /\ \A n \in 1 .. Len(t) : f[Len(s) + n] = q[n]
        BY <2>1, <2>3 DEF Saids
    <2> HIDE DEF f, p, q
    <2>5. \A u, v \in Seq(Seq(AnySaid)) :
            /\ f = [n \in DOMAIN f |-> f[n]] /\ DOMAIN f = 1 .. Len(u) + Len(v)
            /\ \A n \in 1 .. Len(u) : f[n] = u[n]
            /\ \A n \in 1 .. Len(v) : f[Len(u) + n] = v[n]
            => f = u \o v
        BY IsConcat
    <2>6. f = p \o q
        <3>1. DOMAIN f = 1 .. Len(p) + Len(q)
            BY <2>2, <2>4
        <3>2. (\A n \in 1 .. Len(p) : f[n] = p[n]) /\ (\A n \in 1 .. Len(q) : f[Len(p) + n] = q[n])
            BY <2>2, <2>4
        <3> QED
            BY <2>2, <2>4, <2>5, <3>1, <3>2, Zenon
    <2>7. FlattenSeq(p \o q) = FlattenSeq(p) \o FlattenSeq(q)
        BY <2>2, FlattenConcat
    <2> QED
        BY <2>2, <2>6, <2>7 DEF all
<1>3. ASSUME NEW m \in AnyMessage PROVE SaidBy(<<m>>) = Said(m)
    <2> DEFINE one == <<m>>
               ss == Saids(one)
    <2>1. one \in Seq(AnyMessage) /\ DOMAIN one = 1 .. 1 /\ one[1] = m /\ Len(one) = 1
        OBVIOUS
    <2> HIDE DEF one
    <2>2. ss \in Seq(Seq(AnySaid)) /\ Len(ss) = 1 /\ SaidBy(one) = FlattenSeq(ss)
        BY <1>1, <2>1
    <2>3. ss[1] = Said(m)
        <3>1. 1 \in DOMAIN one
            BY <2>1
        <3> QED
            BY <2>1, <3>1 DEF Saids
    <2> HIDE DEF ss
    <2>4. FlattenSeq(ss) = Joined(ss, 1) /\ Joined(ss, 1) = Joined(ss, 0) \o ss[1] /\ Joined(ss, 0) = <<>>
        <3>1. /\ FlattenSeq(ss) = Joined(ss, Len(ss)) /\ Joined(ss, 0) = <<>>
              /\ \A n \in 1 .. Len(ss) : Joined(ss, n) = Joined(ss, n - 1) \o ss[n]
            BY <2>2, JoinedStep
        <3>2. 1 \in 1 .. Len(ss) /\ 1 - 1 = 0
            BY <2>2
        <3> QED
            BY <2>2, <3>1, <3>2
    <2>5. Said(m) \in Seq(AnySaid)
        BY SaidIs
    <2>6. <<>> \o Said(m) = Said(m)
        BY <2>5
    <2> QED
        BY <2>2, <2>3, <2>4, <2>6 DEF one
<1>4. SaidBy(<<>>) = <<>>
    <2>1. <<>> \in Seq(AnyMessage) /\ Len(<<>>) = 0
        OBVIOUS
    <2>2. Saids(<<>>) \in Seq(Seq(AnySaid)) /\ Len(Saids(<<>>)) = 0 /\ SaidBy(<<>>) = FlattenSeq(Saids(<<>>))
        BY <1>1, <2>1
    <2>3. FlattenSeq(Saids(<<>>)) = Joined(Saids(<<>>), Len(Saids(<<>>))) /\ Joined(Saids(<<>>), 0) = <<>>
        BY <2>2, JoinedStep
    <2> QED
        BY <2>2, <2>3
<1> QED
    BY <1>1, <1>2, <1>3, <1>4

\* When every message becomes some that say x as often as it does, all of them
\* say x as often as all the messages did.
LEMMA PartsSaySame ==
    ASSUME NEW messages \in Seq(AnyMessage), NEW parts \in Seq(Seq(AnyMessage)), Len(parts) = Len(messages), NEW x,
           \A n \in DOMAIN messages : Times(SaidBy(parts[n]), x) = Times(Said(messages[n]), x)
    PROVE  /\ SaidBy(FlattenSeq(parts)) \in Seq(AnySaid) /\ SaidBy(messages) \in Seq(AnySaid)
           /\ Times(SaidBy(FlattenSeq(parts)), x) = Times(SaidBy(messages), x)
<1> DEFINE size == Len(messages)
           saids == Saids(messages)
           P == {n \in 0 .. size : Times(SaidBy(Joined(parts, n)), x) = Times(Joined(saids, n), x)}
<1>1. size \in Nat /\ DOMAIN messages = 1 .. size /\ Len(parts) = size
    BY LenProperties
<1>2. saids \in Seq(Seq(AnySaid)) /\ Len(saids) = size /\ SaidBy(messages) \in Seq(AnySaid)
      /\ SaidBy(messages) = FlattenSeq(saids)
    BY SaidByJoined DEF SaidBy, Saids
<1>3. \A n \in 1 .. size : saids[n] = Said(messages[n]) /\ saids[n] \in Seq(AnySaid) /\ parts[n] \in Seq(AnyMessage)
    <2>1. \A n \in 1 .. size : saids[n] = Said(messages[n])
        BY <1>1 DEF Saids
    <2>2. DOMAIN saids = 1 .. size /\ DOMAIN parts = 1 .. size
        BY <1>1, <1>2, LenProperties
    <2> HIDE DEF saids, size
    <2> QED
        BY <1>2, <2>1, <2>2, ElementOfSeq
<1> HIDE DEF saids, size
<1>4. /\ FlattenSeq(parts) = Joined(parts, size) /\ Joined(parts, 0) = <<>>
      /\ \A n \in 1 .. size : Joined(parts, n) = Joined(parts, n - 1) \o parts[n]
      /\ \A n \in 0 .. size : Joined(parts, n) \in Seq(AnyMessage)
    BY <1>1, JoinedStep
<1>5. /\ FlattenSeq(saids) = Joined(saids, size) /\ Joined(saids, 0) = <<>>
      /\ \A n \in 1 .. size : Joined(saids, n) = Joined(saids, n - 1) \o saids[n]
      /\ \A n \in 0 .. size : Joined(saids, n) \in Seq(AnySaid)
    BY <1>2, JoinedStep
<1>6. 0 \in P
    BY <1>1, <1>4, <1>5, SaidByJoined
<1>7. ASSUME NEW n \in 1 .. size, n - 1 \in P PROVE n \in P
    <2>1. n - 1 \in 0 .. size /\ n \in 0 .. size
        BY <1>1
    <2> DEFINE before == Joined(parts, n - 1)
               said == Joined(saids, n - 1)
    <2>2. before \in Seq(AnyMessage) /\ said \in Seq(AnySaid)
        BY <1>4, <1>5, <2>1
    <2>3. Joined(parts, n) = before \o parts[n] /\ Joined(saids, n) = said \o saids[n]
        BY <1>4, <1>5
    <2>4. Times(SaidBy(before), x) = Times(said, x)
        BY <1>7
    <2>5. Times(SaidBy(parts[n]), x) = Times(saids[n], x)
        BY <1>1, <1>3
    <2>6. parts[n] \in Seq(AnyMessage) /\ saids[n] \in Seq(AnySaid)
        BY <1>3
    <2> HIDE DEF before, said
    <2>7. SaidBy(before \o parts[n]) = SaidBy(before) \o SaidBy(parts[n])
          /\ SaidBy(before) \in Seq(AnySaid) /\ SaidBy(parts[n]) \in Seq(AnySaid)
        BY <2>2, <2>6, SaidByJoined
    <2>8. Times(SaidBy(before) \o SaidBy(parts[n]), x) = Times(SaidBy(before), x) + Times(SaidBy(parts[n]), x)
        BY <2>7, TimesJoined
    <2>9. Times(said \o saids[n], x) = Times(said, x) + Times(saids[n], x)
        BY <2>2, <2>6, TimesJoined
    <2> QED
        BY <2>1, <2>3, <2>4, <2>5, <2>7, <2>8, <2>9
<1> HIDE DEF P
<1>8. 0 .. size \subseteq P
    BY <1>1, <1>6, <1>7, UpTo
<1>9. size \in P
    BY <1>1, <1>8
<1>10. SaidBy(FlattenSeq(parts)) \in Seq(AnySaid)
    <2>1. FlattenSeq(parts) \in Seq(AnyMessage)
        BY FlattenType
    <2> QED
        BY <2>1, SaidByJoined
<1> QED
    BY <1>2, <1>4, <1>5, <1>9, <1>10 DEF P

\* One thing is said once.
LEMMA TimesOfOne ==
    ASSUME NEW e, NEW x
    PROVE  /\ Times(<<e>>, e) = 1 /\ (e # x => Times(<<e>>, x) = 0)
           /\ Times(<<>>, x) = 0
<1> DEFINE one == <<e>>
<1>1. DOMAIN one = {1} /\ one[1] = e
    OBVIOUS
<1> HIDE DEF one
<1>2. {k \in DOMAIN one : one[k] = e} = {1}
    BY <1>1
<1>3. e # x => {k \in DOMAIN one : one[k] = x} = {}
    BY <1>1
<1>4. Times(one, e) = 1 /\ (e # x => Times(one, x) = 0)
    BY <1>2, <1>3, FS_Singleton, FS_EmptySet DEF Times
<1>5. {k \in DOMAIN <<>> : <<>>[k] = x} = {}
    OBVIOUS
<1>6. Times(<<>>, x) = 0
    BY <1>5, FS_EmptySet DEF Times
<1> QED
    BY <1>4, <1>6 DEF one

\* The places of blocks that say x.
Saying(m, places, x) ==
    {k \in DOMAIN m.blocks : k \in places /\ <<KindOf(m.blocks[k].type), m.blocks[k].ref>> = x}

\* The blocks at some places say x as often as it is said there.
LEMMA TimesAtPlaces ==
    ASSUME NEW m, m.blocks \in Seq(AnyContent), NEW places, NEW x
    PROVE  /\ IsFiniteSet(Saying(m, places, x))
           /\ Times(SaidIn(BlocksAt(m, places)), x) = Cardinality(Saying(m, places, x))
<1> DEFINE size == Len(m.blocks)
           item(n) == <<KindOf(m.blocks[n].type), m.blocks[n].ref>>
           parts == [n \in DOMAIN m.blocks |-> IF n \in places THEN <<m.blocks[n]>> ELSE <<>>]
           upTo(n) == {k \in 1 .. n : k \in places /\ item(k) = x}
           P == {n \in 0 .. size : /\ IsFiniteSet(upTo(n))
                                   /\ Times(SaidIn(Joined(parts, n)), x) = Cardinality(upTo(n))}
<1>1. DOMAIN m.blocks = 1 .. size /\ size \in Nat /\ \A n \in 1 .. size : m.blocks[n] \in AnyContent
    BY LenProperties, ElementOfSeq
<1>2. DOMAIN parts = 1 .. size /\ \A n \in 1 .. size : parts[n] = IF n \in places THEN <<m.blocks[n]>> ELSE <<>>
    BY <1>1
<1>3. BlocksAt(m, places) = FlattenSeq(parts)
    BY DEF BlocksAt
<1>4. Saying(m, places, x) = upTo(size)
    BY <1>1 DEF Saying
<1> HIDE DEF size
<1>5. parts \in Seq(Seq(AnyContent)) /\ Len(parts) = size
    <2>1. \A n \in 1 .. size : (IF n \in places THEN <<m.blocks[n]>> ELSE <<>>) \in Seq(AnyContent)
        BY <1>1
    <2>2. parts = [n \in 1 .. size |-> IF n \in places THEN <<m.blocks[n]>> ELSE <<>>]
        BY <1>1
    <2> HIDE DEF parts
    <2>3. parts \in [1 .. size -> Seq(AnyContent)]
        BY <2>1, <2>2
    <2> QED
        BY <1>1, <2>3
<1> HIDE DEF parts, item
<1>6. /\ FlattenSeq(parts) = Joined(parts, size) /\ Joined(parts, 0) = <<>>
      /\ \A n \in 1 .. size : Joined(parts, n) = Joined(parts, n - 1) \o parts[n]
      /\ \A n \in 0 .. size : Joined(parts, n) \in Seq(AnyContent)
    BY <1>1, <1>5, JoinedStep
<1>7. 0 \in P
    <2>1. upTo(0) = {}
        OBVIOUS
    <2>2. SaidIn(<<>>) = <<>>
        <3>1. <<>> \in Seq(AnyContent)
            OBVIOUS
        <3>2. SaidIn(<<>>) \in Seq(AnySaid) /\ Len(SaidIn(<<>>)) = Len(<<>>)
            BY <3>1, SaidOfBlocks
        <3> QED
            BY <3>2, EmptySeq
    <2>3. Times(SaidIn(Joined(parts, 0)), x) = 0
        BY <1>6, <2>2, TimesOfOne
    <2> HIDE DEF upTo
    <2> QED
        BY <1>1, <2>1, <2>3, FS_EmptySet
<1>8. ASSUME NEW n \in 1 .. size, n - 1 \in P PROVE n \in P
    <2> DEFINE before == Joined(parts, n - 1)
    <2>1. n - 1 \in 0 .. size /\ n \in 0 .. size
        BY <1>1
    <2>2. before \in Seq(AnyContent) /\ Joined(parts, n) = before \o parts[n]
        BY <1>6, <2>1
    <2>3. IsFiniteSet(upTo(n - 1)) /\ Times(SaidIn(before), x) = Cardinality(upTo(n - 1))
        BY <1>8
    <2> HIDE DEF before
    <2>4. Cardinality(upTo(n - 1)) \in Nat
        <3> HIDE DEF upTo
        <3> QED
            BY <2>3, FS_CardinalityType
    <2>5. CASE n \in places
        <3> DEFINE one == <<m.blocks[n]>>
        <3>1. parts[n] = one
            BY <1>2, <2>5
        <3>2. m.blocks[n] \in AnyContent
            BY <1>1
        <3>3. one \in Seq(AnyContent) /\ DOMAIN one = {1} /\ one[1] = m.blocks[n]
            BY <3>2
        <3> HIDE DEF one
        <3>4. SaidIn(one) = <<item(n)>>
            <4>1. SaidIn(one) \in Seq(AnySaid) /\ Len(SaidIn(one)) = Len(one) /\ DOMAIN SaidIn(one) = DOMAIN one
                BY <3>3, SaidOfBlocks
            <4>2. SaidIn(one)[1] = item(n)
                BY <3>3 DEF SaidIn, item
            <4>3. Len(one) = 1
                BY DEF one
            <4> QED
                BY <4>1, <4>2, <4>3
        <3>5. SaidIn(before \o one) = SaidIn(before) \o SaidIn(one)
              /\ SaidIn(before) \in Seq(AnySaid) /\ SaidIn(one) \in Seq(AnySaid)
            BY <2>2, <3>3, SaidInJoined, SaidOfBlocks
        <3>6. Times(SaidIn(before \o one), x) = Times(SaidIn(before), x) + Times(SaidIn(one), x)
            BY <3>5, TimesJoined
        <3>7. CASE item(n) = x
            <4>1. Times(SaidIn(one), x) = 1
                BY <3>4, <3>7, TimesOfOne
            <4>2. upTo(n) = upTo(n - 1) \cup {n} /\ n \notin upTo(n - 1)
                BY <2>5, <3>7
            <4> HIDE DEF upTo
            <4>3. IsFiniteSet(upTo(n)) /\ Cardinality(upTo(n)) = Cardinality(upTo(n - 1)) + 1
                BY <2>3, <4>2, FS_AddElement
            <4> QED
                BY <2>1, <2>2, <2>3, <2>4, <3>1, <3>6, <4>1, <4>3
        <3>8. CASE item(n) # x
            <4>1. Times(SaidIn(one), x) = 0
                BY <3>4, <3>8, TimesOfOne
            <4>2. upTo(n) = upTo(n - 1)
                BY <3>8
            <4>3. Times(SaidIn(Joined(parts, n)), x) = Cardinality(upTo(n - 1))
                <5> HIDE DEF upTo
                <5> QED
                    BY <2>2, <2>3, <2>4, <3>1, <3>6, <4>1
            <4>4. IsFiniteSet(upTo(n)) /\ Times(SaidIn(Joined(parts, n)), x) = Cardinality(upTo(n))
                <5> HIDE DEF upTo
                <5> QED
                    BY <2>3, <4>2, <4>3, Zenon
            <4> QED
                BY <2>1, <4>4
        <3> QED
            BY <3>7, <3>8
    <2>6. CASE n \notin places
        <3>1. parts[n] = <<>>
            BY <1>2, <2>6
        <3>2. Joined(parts, n) = before
            BY <2>2, <3>1
        <3>3. upTo(n) = upTo(n - 1)
            BY <2>6
        <3> HIDE DEF upTo
        <3> QED
            BY <2>1, <2>3, <3>2, <3>3
    <2> QED
        BY <2>5, <2>6
<1> HIDE DEF P
<1>9. 0 .. size \subseteq P
    BY <1>1, <1>7, <1>8, UpTo
<1>10. size \in P
    BY <1>1, <1>9
<1> HIDE DEF upTo
<1> QED
    BY <1>3, <1>4, <1>6, <1>10 DEF P

\* Every block but a result without an id is a text, a call, a result or one of
\* the others: what a message says is what these say.
LEMMA TimesByKind ==
    ASSUME NEW m \in AnyMessage, NEW x, x # <<"result", NoId>>
    PROVE  Times(SaidIn(m.blocks), x) = Times(SaidIn(TextBlocks(m)), x) + Times(SaidIn(Others(m)), x)
                                        + Times(SaidIn(CallBlocks(m)), x) + Times(SaidIn(ResultBlocks(m)), x)
<1> DEFINE texts == Places(m, {"text"})
           others == DOMAIN m.blocks \ Places(m, {"text", "tool_use", "tool_result"})
           calls == Places(m, {"tool_use"})
           named == {n \in Places(m, {"tool_result"}) : m.blocks[n].ref # NoId}
           inTexts == Saying(m, texts, x)
           inOthers == Saying(m, others, x)
           inCalls == Saying(m, calls, x)
           inNamed == Saying(m, named, x)
           whole == {k \in DOMAIN m.blocks : SaidIn(m.blocks)[k] = x}
<1>1. m.blocks \in Seq(AnyContent)
    BY DEF AnyMessage
<1>2. /\ TextBlocks(m) = BlocksAt(m, texts) /\ Others(m) = BlocksAt(m, others)
      /\ CallBlocks(m) = BlocksAt(m, calls) /\ ResultBlocks(m) = BlocksAt(m, named)
    BY DEF TextBlocks, Others, CallBlocks, ResultBlocks, BlocksOf
<1>3. \A k \in DOMAIN m.blocks :
        /\ k \in texts <=> m.blocks[k].type = "text"
        /\ k \in calls <=> m.blocks[k].type = "tool_use"
        /\ k \in named <=> m.blocks[k].type = "tool_result" /\ m.blocks[k].ref # NoId
        /\ k \in others <=> m.blocks[k].type \notin {"text", "tool_use", "tool_result"}
    BY DEF Places
<1>4. Times(SaidIn(m.blocks), x) = Cardinality(whole)
    <2>1. DOMAIN SaidIn(m.blocks) = DOMAIN m.blocks
        BY DEF SaidIn
    <2> QED
        BY <2>1 DEF Times
<1>5. \A k \in DOMAIN m.blocks : SaidIn(m.blocks)[k] = <<KindOf(m.blocks[k].type), m.blocks[k].ref>>
    BY DEF SaidIn
<1> HIDE DEF texts, others, calls, named
<1>6. \A k \in DOMAIN m.blocks : k \in whole =>
        k \in texts \/ k \in others \/ k \in calls \/ k \in named
    <2> SUFFICES ASSUME NEW k \in DOMAIN m.blocks, k \in whole, k \notin texts, k \notin others, k \notin calls,
                        k \notin named
                 PROVE  FALSE
        OBVIOUS
    <2>1. m.blocks[k].type = "tool_result" /\ m.blocks[k].ref = NoId
        BY <1>3
    <2>2. KindOf(m.blocks[k].type) = "result"
        BY <2>1 DEF KindOf
    <2>3. SaidIn(m.blocks)[k] = <<"result", NoId>>
        BY <1>5, <2>1, <2>2
    <2> QED
        BY <2>3
<1>7. whole = ((inTexts \cup inOthers) \cup inCalls) \cup inNamed
    BY <1>5, <1>6 DEF Saying
<1>8. /\ inTexts \cap inOthers = {} /\ (inTexts \cup inOthers) \cap inCalls = {}
      /\ ((inTexts \cup inOthers) \cup inCalls) \cap inNamed = {}
    BY <1>3 DEF Saying
<1>9. /\ IsFiniteSet(inTexts) /\ IsFiniteSet(inOthers) /\ IsFiniteSet(inCalls) /\ IsFiniteSet(inNamed)
      /\ Times(SaidIn(TextBlocks(m)), x) = Cardinality(inTexts)
      /\ Times(SaidIn(Others(m)), x) = Cardinality(inOthers)
      /\ Times(SaidIn(CallBlocks(m)), x) = Cardinality(inCalls)
      /\ Times(SaidIn(ResultBlocks(m)), x) = Cardinality(inNamed)
    BY <1>1, <1>2, TimesAtPlaces
<1> HIDE DEF inTexts, inOthers, inCalls, inNamed, whole
<1>10. ASSUME NEW A, NEW B, IsFiniteSet(A), IsFiniteSet(B), A \cap B = {}
       PROVE  IsFiniteSet(A \cup B) /\ Cardinality(A \cup B) = Cardinality(A) + Cardinality(B)
              /\ Cardinality(A) \in Nat /\ Cardinality(B) \in Nat
    <2>1. Cardinality(A) \in Nat /\ Cardinality(B) \in Nat
        BY <1>10, FS_CardinalityType
    <2>2. IsFiniteSet(A \cup B) /\ Cardinality(A \cup B) = Cardinality(A) + Cardinality(B) - Cardinality(A \cap B)
        BY <1>10, FS_Union
    <2>3. Cardinality(A \cap B) = 0
        BY <1>10, FS_EmptySet
    <2> QED
        BY <2>1, <2>2, <2>3
<1> DEFINE two == inTexts \cup inOthers
           three == two \cup inCalls
<1>11. IsFiniteSet(two) /\ Cardinality(two) = Cardinality(inTexts) + Cardinality(inOthers)
    BY <1>8, <1>9, <1>10
<1> HIDE DEF two
<1>12. IsFiniteSet(three) /\ Cardinality(three) = Cardinality(two) + Cardinality(inCalls)
    BY <1>8, <1>9, <1>10, <1>11 DEF two
<1> HIDE DEF three
<1>13. Cardinality(whole) = Cardinality(three) + Cardinality(inNamed)
    BY <1>7, <1>8, <1>9, <1>10, <1>12 DEF three, two
<1> QED
    BY <1>4, <1>9, <1>11, <1>12, <1>13

\* Whatever rewriteMessages makes of a message says the same as it did, as
\* often, but for results without an id.
LEMMA RewrittenSaysSame ==
    ASSUME NEW m \in AnyMessage, ClaudeMessage(m), NEW n, NEW x, x # <<"result", NoId>>
    PROVE  Times(SaidBy(rewriteMessage(m, n)), x) = Times(Said(m), x)
<1> DEFINE T == TextBlocks(m)
           O == Others(m)
           C == CallBlocks(m)
           R == ResultBlocks(m)
           TO == T \o O
           results == ResultsOf(m)
           content == ContentMessages(m)
<1>1. /\ T \in Seq(AnyContent) /\ O \in Seq(AnyContent) /\ C \in Seq(AnyContent) /\ R \in Seq(AnyContent)
      /\ C # <<>> => R = <<>>
    BY KindsOfBlocks
<1>2. m.role # "tool" /\ m.calls = <<>>
    BY DEF ClaudeMessage
<1>3. Said(m) = SaidIn(m.blocks)
    BY <1>2, SaidIs
<1>4. Times(SaidIn(m.blocks), x) = Times(SaidIn(T), x) + Times(SaidIn(O), x) + Times(SaidIn(C), x) + Times(SaidIn(R), x)
    BY TimesByKind
<1>5. /\ R # <<>> => rewriteMessage(m, n) = results \o content
      /\ C # <<>> => rewriteMessage(m, n) = <<CallMessage(m)>>
      /\ R = <<>> /\ C = <<>> =>
            \/ rewriteMessage(m, n) = <<m>>
            \/ O = <<>> /\ rewriteMessage(m, n) = <<Message(m.role, TRUE, T)>>
    BY RewrittenAs
<1>6. /\ TO \in Seq(AnyContent)
      /\ \/ content = <<>> /\ TO = <<>>
         \/ \E c \in AnyMessage : /\ content = <<c>> /\ c.role = m.role /\ c.calls = <<>> /\ c.id = NoId
                                  /\ c.blocks = TO
    BY RewrittenMessages
<1>7. /\ CallMessage(m) \in AnyMessage /\ CallMessage(m).role = "assistant"
      /\ CallMessage(m).blocks = TO /\ CallMessage(m).calls = Refs(C)
    BY RewrittenMessages
<1>8. /\ results \in Seq(AnyMessage) /\ Len(results) = Len(R) /\ DOMAIN results = DOMAIN R
      /\ \A k \in DOMAIN results : /\ results[k].role = "tool" /\ results[k].id = R[k].ref
                                   /\ results[k].calls = <<>> /\ results[k].blocks = <<>>
    BY RewrittenMessages
<1>9. /\ Message(m.role, TRUE, T) \in AnyMessage /\ Message(m.role, TRUE, T).role = m.role
      /\ Message(m.role, TRUE, T).calls = <<>> /\ Message(m.role, TRUE, T).blocks = T
    BY RewrittenMessages
<1>10. /\ \A k \in DOMAIN R : R[k].type = "tool_result"
       /\ \A k \in DOMAIN C : C[k].type = "tool_use"
    <2>1. \A k \in DOMAIN R : R[k].type = "tool_result"
        BY KindsOfBlocks
    <2>2. \A k \in DOMAIN C : C[k].type = "tool_use"
        <3> DEFINE places == Places(m, {"tool_use"})
        <3>1. C = BlocksAt(m, places) /\ \A k \in places : k \in DOMAIN m.blocks /\ m.blocks[k].type = "tool_use"
            BY DEF CallBlocks, BlocksOf, Places
        <3>2. m.blocks \in Seq(AnyContent)
            BY DEF AnyMessage
        <3> HIDE DEF places
        <3>3. \A a \in DOMAIN BlocksAt(m, places) : \E k \in DOMAIN m.blocks :
                    k \in places /\ BlocksAt(m, places)[a] = m.blocks[k]
            BY <3>2, BlocksAtPlaces
        <3> HIDE DEF C
        <3> QED
            BY <3>1, <3>3
    <2> QED
        BY <2>1, <2>2
<1> HIDE DEF T, O, C, R, results, content
<1>11. \A blocks \in Seq(AnyContent) : SaidIn(blocks) \in Seq(AnySaid) /\ Times(SaidIn(blocks), x) \in Nat
                                      /\ (blocks = <<>> => Times(SaidIn(blocks), x) = 0)
    <2> SUFFICES ASSUME NEW blocks \in Seq(AnyContent)
                 PROVE  SaidIn(blocks) \in Seq(AnySaid) /\ Times(SaidIn(blocks), x) \in Nat
                        /\ (blocks = <<>> => Times(SaidIn(blocks), x) = 0)
        OBVIOUS
    <2>1. SaidIn(blocks) \in Seq(AnySaid) /\ Len(SaidIn(blocks)) = Len(blocks)
        BY SaidOfBlocks
    <2>2. Times(SaidIn(blocks), x) \in Nat
        BY <2>1, TimesIsNumber
    <2>3. blocks = <<>> => SaidIn(blocks) = <<>>
        BY <2>1, EmptySeq
    <2> QED
        BY <2>1, <2>2, <2>3, TimesOfOne
<1>12. Times(SaidIn(TO), x) = Times(SaidIn(T), x) + Times(SaidIn(O), x)
    <2>1. SaidIn(TO) = SaidIn(T) \o SaidIn(O)
        BY <1>1, SaidInJoined
    <2>2. SaidIn(T) \in Seq(AnySaid) /\ SaidIn(O) \in Seq(AnySaid)
        BY <1>1, <1>11
    <2> HIDE DEF TO
    <2> QED
        BY <2>1, <2>2, TimesJoined
<1> HIDE DEF TO
<1>13. \A c \in AnyMessage : SaidBy(<<c>>) = Said(c)
    BY SaidByJoined
<1>14. CASE C # <<>>
    <2> DEFINE c == CallMessage(m)
               calls == SaidCalls(Refs(C))
    <2>1. c \in AnyMessage /\ c.role # "tool" /\ c.blocks = TO /\ c.calls = Refs(C)
        BY <1>7
    <2> HIDE DEF c
    <2>2. Said(c) = SaidIn(TO) \o calls /\ SaidIn(TO) \in Seq(AnySaid) /\ calls \in Seq(AnySaid)
        BY <2>1, SaidIs
    <2>3. calls = SaidIn(C)
        <3>1. /\ DOMAIN Refs(C) = 1 .. Len(C) /\ DOMAIN C = 1 .. Len(C)
              /\ \A k \in 1 .. Len(C) : Refs(C)[k] = C[k].ref
            BY <1>1, RefsOfBlocks
        <3>2. \A k \in 1 .. Len(C) : KindOf(C[k].type) = "call"
            BY <1>10, <3>1 DEF KindOf
        <3>3. calls = [k \in 1 .. Len(C) |-> <<"call", C[k].ref>>]
            BY <3>1 DEF SaidCalls
        <3>4. SaidIn(C) = [k \in 1 .. Len(C) |-> <<KindOf(C[k].type), C[k].ref>>]
            BY <3>1 DEF SaidIn
        <3>5. SaidIn(C) = [k \in 1 .. Len(C) |-> <<"call", C[k].ref>>]
            BY <3>2, <3>4
        <3> QED
            BY <3>3, <3>5
    <2> HIDE DEF calls
    <2>4. Times(Said(c), x) = Times(SaidIn(TO), x) + Times(SaidIn(C), x)
        BY <2>2, <2>3, TimesJoined
    <2>5. SaidBy(rewriteMessage(m, n)) = Said(c)
        BY <1>5, <1>13, <1>14, <2>1 DEF c
    <2>6. Times(SaidIn(R), x) = 0
        BY <1>1, <1>11, <1>14
    <2>7. Times(SaidIn(T), x) \in Nat /\ Times(SaidIn(O), x) \in Nat /\ Times(SaidIn(C), x) \in Nat
        BY <1>1, <1>11
    <2> QED
        BY <1>3, <1>4, <1>12, <2>4, <2>5, <2>6, <2>7
<1>15. CASE R # <<>>
    <2>1. C = <<>>
        BY <1>1, <1>15
    <2>2. content \in Seq(AnyMessage) /\ Times(SaidBy(content), x) = Times(SaidIn(TO), x)
        <3>1. CASE content = <<>> /\ TO = <<>>
            <4>1. SaidBy(content) = <<>>
                BY <3>1, SaidByJoined
            <4>2. Times(SaidIn(TO), x) = 0
                BY <1>6, <1>11, <3>1
            <4>3. Times(SaidBy(content), x) = 0
                BY <4>1, TimesOfOne
            <4> QED
                BY <3>1, <4>2, <4>3
        <3>2. ASSUME NEW c \in AnyMessage, content = <<c>>, c.role = m.role, c.calls = <<>>, c.blocks = TO
              PROVE  content \in Seq(AnyMessage) /\ Times(SaidBy(content), x) = Times(SaidIn(TO), x)
            <4>1. Said(c) = SaidIn(c.blocks)
                BY <1>2, <3>2, SaidIs
            <4>2. SaidBy(content) = SaidIn(TO)
                BY <1>13, <3>2, <4>1
            <4>3. content \in Seq(AnyMessage)
                BY <3>2
            <4> QED
                BY <4>2, <4>3
        <3> QED
            BY <1>6, <3>1, <3>2
    <2>3. SaidBy(results) = SaidIn(R)
        <3> DEFINE ss == Saids(results)
        <3>1. ss \in Seq(Seq(AnySaid)) /\ Len(ss) = Len(R) /\ SaidBy(results) = FlattenSeq(ss)
            BY <1>8, SaidByJoined DEF SaidBy, Saids
        <3>2. SaidIn(R) \in Seq(AnySaid) /\ Len(SaidIn(R)) = Len(R) /\ DOMAIN SaidIn(R) = DOMAIN R
            BY <1>1, SaidOfBlocks
        <3>3. ASSUME NEW k \in DOMAIN R PROVE ss[k] = <<SaidIn(R)[k]>>
            <4> DEFINE c == results[k]
            <4>1. c \in AnyMessage
                BY <1>8, ElementOfSeq
            <4>2. c.role = "tool" /\ c.id = R[k].ref /\ c.calls = <<>> /\ c.blocks = <<>>
                BY <1>8
            <4>3. ss[k] = Said(c)
                BY <1>8 DEF Saids
            <4> HIDE DEF c
            <4>4. Said(c) = SaidIn(<<>>) \o SaidCalls(<<>>) \o <<<<"result", R[k].ref>>>>
                  /\ <<<<"result", R[k].ref>>>> \in Seq(AnySaid)
                BY <4>1, <4>2, SaidIs
            <4>5. SaidIn(<<>>) = <<>> /\ SaidCalls(<<>>) = <<>>
                <5>1. <<>> \in Seq(AnyContent) /\ <<>> \in Seq(AnyRef) /\ Len(<<>>) = 0
                    OBVIOUS
                <5>2. /\ SaidIn(<<>>) \in Seq(AnySaid) /\ Len(SaidIn(<<>>)) = 0
                      /\ SaidCalls(<<>>) \in Seq(AnySaid) /\ Len(SaidCalls(<<>>)) = 0
                    BY <5>1, SaidOfBlocks
                <5> QED
                    BY <5>2, EmptySeq
            <4>6. <<>> \o <<>> \o <<<<"result", R[k].ref>>>> = <<<<"result", R[k].ref>>>>
                BY <4>4
            <4>7. SaidIn(R)[k] = <<"result", R[k].ref>>
                BY <1>10 DEF SaidIn, KindOf
            <4> QED
                BY <4>3, <4>4, <4>5, <4>6, <4>7
        <3> HIDE DEF ss
        <3>4. FlattenSeq(ss) = SaidIn(R)
            BY <3>1, <3>2, <3>3, FlattenSingles
        <3> QED
            BY <3>1, <3>4
    <2>4. SaidBy(results \o content) = SaidBy(results) \o SaidBy(content)
          /\ SaidBy(results) \in Seq(AnySaid) /\ SaidBy(content) \in Seq(AnySaid)
        BY <1>8, <2>2, SaidByJoined
    <2>5. Times(SaidBy(results) \o SaidBy(content), x) = Times(SaidBy(results), x) + Times(SaidBy(content), x)
        BY <2>4, TimesJoined
    <2>6. Times(SaidIn(C), x) = 0
        BY <1>1, <1>11, <2>1
    <2>7. Times(SaidIn(T), x) \in Nat /\ Times(SaidIn(O), x) \in Nat /\ Times(SaidIn(R), x) \in Nat
        BY <1>1, <1>11
    <2>8. SaidBy(rewriteMessage(m, n)) = SaidBy(results) \o SaidBy(content)
        BY <1>5, <1>15, <2>4
    <2> QED
        BY <1>3, <1>4, <1>12, <2>2, <2>3, <2>5, <2>6, <2>7, <2>8
<1>16. CASE R = <<>> /\ C = <<>>
    <2>1. CASE rewriteMessage(m, n) = <<m>>
        BY <1>13, <2>1
    <2>2. CASE O = <<>> /\ rewriteMessage(m, n) = <<Message(m.role, TRUE, T)>>
        <3> DEFINE c == Message(m.role, TRUE, T)
        <3>1. c \in AnyMessage /\ c.role # "tool" /\ c.calls = <<>> /\ c.blocks = T
            BY <1>2, <1>9
        <3>2. rewriteMessage(m, n) = <<c>>
            BY <2>2
        <3> HIDE DEF c
        <3>3. Said(c) = SaidIn(T)
            BY <3>1, SaidIs
        <3>4. SaidBy(rewriteMessage(m, n)) = SaidIn(T)
            BY <1>13, <3>1, <3>2, <3>3
        <3>5. Times(SaidIn(O), x) = 0 /\ Times(SaidIn(C), x) = 0 /\ Times(SaidIn(R), x) = 0 /\ Times(SaidIn(T), x) \in Nat
            BY <1>1, <1>11, <1>16, <2>2
        <3> QED
            BY <1>3, <1>4, <3>4, <3>5
    <2> QED
        BY <1>5, <1>16, <2>1, <2>2
<1> QED
    BY <1>14, <1>15, <1>16

\* A message of a chat client's does not have an id of the gateway's making, and
\* says the same when it gets one in place of none (NormalizeChatCompletionRequest).
LEMMA ChatSaysSame ==
    ASSUME NEW m \in AnyMessage, ChatMessage(m), NEW n \in Nat
    PROVE  /\ Times(Said(m), <<"result", Id("gateway", n)>>) = 0
           /\ \A c \in AnyMessage : \A x :
                /\ c.blocks = m.blocks /\ c.calls = m.calls /\ (c.role = "tool" <=> m.role = "tool")
                /\ c.id = m.id \/ (m.role = "tool" /\ m.id = NoId /\ c.id = Id("gateway", n))
                /\ x # <<"result", NoId>> /\ x # <<"result", Id("gateway", n)>>
                => Times(Said(c), x) = Times(Said(m), x)
<1> DEFINE made == <<"result", Id("gateway", n)>>
           before(c) == SaidIn(c.blocks) \o SaidCalls(c.calls)
           last(c) == <<<<"result", c.id>>>>
<1>1. ASSUME NEW c \in AnyMessage, NEW x
      PROVE  /\ Times(before(c), x) = Times(SaidIn(c.blocks), x) + Times(SaidCalls(c.calls), x)
             /\ Times(before(c), x) \in Nat /\ Times(last(c), x) \in Nat
             /\ c.role = "tool" => Times(Said(c), x) = Times(before(c), x) + Times(last(c), x)
             /\ c.role # "tool" => Times(Said(c), x) = Times(before(c), x)
    <2>1. /\ SaidIn(c.blocks) \in Seq(AnySaid) /\ SaidCalls(c.calls) \in Seq(AnySaid) /\ last(c) \in Seq(AnySaid)
          /\ c.role = "tool" => Said(c) = before(c) \o last(c)
          /\ c.role # "tool" => Said(c) = before(c)
        BY SaidIs
    <2>2. before(c) \in Seq(AnySaid)
        BY <2>1
    <2>3. Times(before(c), x) = Times(SaidIn(c.blocks), x) + Times(SaidCalls(c.calls), x)
        BY <2>1, TimesJoined
    <2> HIDE DEF before, last
    <2>4. Times(before(c) \o last(c), x) = Times(before(c), x) + Times(last(c), x)
        BY <2>1, <2>2, TimesJoined
    <2>5. Times(before(c), x) \in Nat /\ Times(last(c), x) \in Nat
        BY <2>1, <2>2, TimesIsNumber
    <2> QED
        BY <2>1, <2>3, <2>4, <2>5
<1>2. m.blocks \in Seq(AnyContent) /\ m.calls \in Seq(AnyRef)
    BY DEF AnyMessage
<1>3. Times(SaidIn(m.blocks), made) = 0
    <2>1. SaidIn(m.blocks) \in Seq(AnySaid) /\ DOMAIN SaidIn(m.blocks) = DOMAIN m.blocks
        BY <1>2, SaidOfBlocks
    <2>2. ASSUME NEW k \in DOMAIN m.blocks PROVE SaidIn(m.blocks)[k] # made
        <3>1. m.blocks[k].type \in {"text", "image"}
            BY DEF ChatMessage
        <3>2. KindOf(m.blocks[k].type) \in {"text", "image"}
            BY <3>1 DEF KindOf
        <3>3. SaidIn(m.blocks)[k] = <<KindOf(m.blocks[k].type), m.blocks[k].ref>>
            BY DEF SaidIn
        <3>4. KindOf(m.blocks[k].type) # "result"
            BY <3>2
        <3> QED
            BY <3>3, <3>4
    <2> HIDE DEF made
    <2> QED
        BY <2>1, <2>2, TimesIsNumber
<1>4. Times(SaidCalls(m.calls), made) = 0
    <2>1. SaidCalls(m.calls) \in Seq(AnySaid) /\ DOMAIN SaidCalls(m.calls) = DOMAIN m.calls
        BY <1>2, SaidOfBlocks
    <2>2. \A k \in DOMAIN m.calls : SaidCalls(m.calls)[k] # made
        BY DEF SaidCalls
    <2> HIDE DEF made
    <2> QED
        BY <2>1, <2>2, TimesIsNumber
<1>5. Times(last(m), made) = 0
    <2>1. m.id \in CallId \cup {NoId}
        BY DEF ChatMessage
    <2>2. m.id # Id("gateway", n)
        BY <2>1, IdsAreRefs
    <2>3. <<"result", m.id>> # made
        BY <2>2
    <2> HIDE DEF made
    <2> QED
        BY <2>3, TimesOfOne
<1>6. Times(Said(m), made) = 0
    <2> HIDE DEF made, before, last
    <2> QED
        BY <1>1, <1>3, <1>4, <1>5
<1>7. ASSUME NEW c \in AnyMessage, NEW x,
             c.blocks = m.blocks, c.calls = m.calls, c.role = "tool" <=> m.role = "tool",
             c.id = m.id \/ (m.role = "tool" /\ m.id = NoId /\ c.id = Id("gateway", n)),
             x # <<"result", NoId>>, x # made
      PROVE  Times(Said(c), x) = Times(Said(m), x)
    <2>1. before(c) = before(m)
        BY <1>7
    <2>2. CASE m.role # "tool"
        <3> HIDE DEF before, last
        <3> QED
            BY <1>1, <1>7, <2>1, <2>2
    <2>3. CASE m.role = "tool"
        <3>1. Times(last(c), x) = Times(last(m), x)
            <4>1. CASE c.id = m.id
                <5>1. last(c) = last(m)
                    BY <4>1
                <5> HIDE DEF last
                <5> QED
                    BY <5>1
            <4>2. CASE m.id = NoId /\ c.id = Id("gateway", n)
                <5>1. <<"result", m.id>> # x /\ <<"result", c.id>> # x
                    BY <1>7, <4>2
                <5> QED
                    BY <5>1, TimesOfOne
            <4> QED
                BY <1>7, <4>1, <4>2
        <3> HIDE DEF before, last
        <3> QED
            BY <1>1, <1>7, <2>1, <2>3, <3>1
    <2> QED
        BY <2>2, <2>3
<1> QED
    BY <1>6, <1>7

\* Two lists of messages that say x as often have it as often in the bags of what
\* they say.
LEMMA SameInBags ==
    ASSUME NEW old \in Seq(AnyMessage), NEW new \in Seq(AnyMessage), NEW x \in DOMAIN AllSaid(old),
           Times(SaidBy(new), x) = Times(SaidBy(old), x)
    PROVE  x \in DOMAIN AllSaid(new) /\ AllSaid(new)[x] = AllSaid(old)[x]
<1>1. \A messages : AllSaid(messages) = ToBag(SaidBy(messages))
    BY DEF AllSaid, SaidBy
<1>2. \A seq : DOMAIN ToBag(seq) = {seq[k] : k \in DOMAIN seq} /\ \A y \in DOMAIN ToBag(seq) : ToBag(seq)[y] = Times(seq, y)
    BY DEF ToBag, Range, Times
<1>3. SaidBy(old) \in Seq(AnySaid) /\ SaidBy(new) \in Seq(AnySaid)
    BY SaidByJoined
<1>4. x \in {SaidBy(old)[k] : k \in DOMAIN SaidBy(old)}
    BY <1>1, <1>2
<1>5. Times(SaidBy(old), x) # 0
    BY <1>3, <1>4, TimesIsNumber
<1>6. \E k \in DOMAIN SaidBy(new) : SaidBy(new)[k] = x
    BY <1>3, <1>5, TimesIsNumber
<1>7. x \in DOMAIN AllSaid(new)
    BY <1>1, <1>2, <1>6
<1> QED
    BY <1>1, <1>2, <1>7

\* Splitting and regrouping messages neither loses nor doubles anything that was
\* said, except results that name no call, for histories of any length
\* (rewriteMessages, NormalizeChatCompletionRequest).
THEOREM NothingIsLost == Spec => []NothingSaidIsLost
<1>1. ASSUME ConversationInv, Decided PROVE NothingSaidIsLost
    <2> SUFFICES ASSUME IsForwarded, NEW x \in DOMAIN AllSaid(history), x # <<"result", NoId>>
                 PROVE  x \in DOMAIN AllSaid(Sent) /\ AllSaid(Sent)[x] = AllSaid(history)[x]
        BY DEF NothingSaidIsLost
    <2>1. /\ history \in Seq(AnyMessage) /\ \A n \in DOMAIN history : Shaped(setting, history[n])
          /\ forwarded = ForwardBody(setting, Request(setting, history))
        BY <1>1 DEF ConversationInv, AreMessages, IsRewrittenHistory
    <2>2. setting.path \in {"/v1/chat/completions", "/v1/messages", "/v1/responses"}
        BY <1>1, PathIsEndpoint
    <2>3. DOMAIN history = 1 .. Len(history) /\ Len(history) \in Nat /\ \A n \in DOMAIN history : history[n] \in AnyMessage
        BY <2>1, LenProperties, ElementOfSeq
    <2>4. ASSUME NEW parts \in Seq(Seq(AnyMessage)), Len(parts) = Len(history), Sent = FlattenSeq(parts),
                 \A n \in DOMAIN history : Times(SaidBy(parts[n]), x) = Times(Said(history[n]), x)
          PROVE  x \in DOMAIN AllSaid(Sent) /\ AllSaid(Sent)[x] = AllSaid(history)[x]
        <3>1. Times(SaidBy(FlattenSeq(parts)), x) = Times(SaidBy(history), x)
            BY <2>1, <2>4, PartsSaySame
        <3>2. Sent \in Seq(AnyMessage)
            BY <2>4, FlattenType
        <3>3. Times(SaidBy(Sent), x) = Times(SaidBy(history), x)
            BY <2>4, <3>1
        <3> QED
            BY <2>1, <3>2, <3>3, SameInBags
    <2>5. CASE Sent = history
        BY <2>5
    <2>6. CASE setting.path = "/v1/messages" /\ Sent # history
        <3> DEFINE parts == [n \in DOMAIN history |-> rewriteMessage(history[n], n)]
        <3>1. Sent = rewriteMessages(history)
            <4>1. ForwardBody(setting, Request(setting, history)) = ClaudeRequestToUpstream(Request(setting, history))
                BY <2>6 DEF ForwardBody, Endpoint
            <4>2. ClaudeRequestToUpstream(Request(setting, history)).messages = rewriteMessages(history)
                BY DEF Request, ClaudeRequestToUpstream
            <4> QED
                BY <2>1, <4>1, <4>2 DEF Sent
        <3>2. Sent = FlattenSeq(parts)
            BY <2>6, <3>1 DEF rewriteMessages
        <3>3. \A n \in DOMAIN history : ClaudeMessage(history[n])
            BY <2>1, <2>6 DEF Shaped
        <3>4. \A n \in DOMAIN history : parts[n] = rewriteMessage(history[n], n)
            OBVIOUS
        <3>5. parts = [n \in DOMAIN history |-> rewriteMessage(history[n], n)]
            OBVIOUS
        <3> HIDE DEF parts
        <3>6. parts \in Seq(Seq(AnyMessage)) /\ Len(parts) = Len(history)
            BY <2>1, <3>3, <3>5, PartsSent DEF StandInParts
        <3>7. \A n \in DOMAIN history : Times(SaidBy(parts[n]), x) = Times(Said(history[n]), x)
            BY <2>3, <3>3, <3>4, RewrittenSaysSame
        <3> QED
            BY <2>4, <3>2, <3>6, <3>7
    <2>7. CASE setting.path = "/v1/responses"
        <3>1. Sent = history
            BY <2>1, <2>7 DEF Sent, ForwardBody, Endpoint, Request
        <3> QED
            BY <2>5, <3>1
    <2>8. CASE setting.path = "/v1/chat/completions"
        <3> DEFINE sent == ForwardBody(setting, Request(setting, history)).messages
                   parts == [n \in DOMAIN history |-> <<sent[n]>>]
        <3>1. Sent = sent
            BY <2>1 DEF Sent
        <3>2. /\ sent \in Seq(AnyMessage) /\ Len(sent) = Len(history)
              /\ \A n \in DOMAIN history :
                    /\ sent[n].blocks = history[n].blocks /\ sent[n].calls = history[n].calls
                    /\ sent[n].role = "tool" <=> history[n].role = "tool"
                    /\ sent[n].id = IF history[n].role = "tool" /\ history[n].id = NoId THEN Id("gateway", n)
                                    ELSE history[n].id
            BY <2>1, <2>8, SentInChat, Zenon
        <3>3. \A n \in DOMAIN history : ChatMessage(history[n])
            BY <2>1, <2>8 DEF Shaped
        <3> HIDE DEF sent
        <3>4. DOMAIN sent = DOMAIN history /\ \A n \in DOMAIN history : sent[n] \in AnyMessage
            BY <2>3, <3>2, LenProperties, ElementOfSeq
        <3>5. parts \in Seq(Seq(AnyMessage)) /\ Len(parts) = Len(history)
            <4>1. parts = [n \in 1 .. Len(history) |-> <<sent[n]>>]
                BY <2>3
            <4>2. \A n \in 1 .. Len(history) : <<sent[n]>> \in Seq(AnyMessage)
                BY <2>3, <3>4
            <4> HIDE DEF parts
            <4>3. parts \in [1 .. Len(history) -> Seq(AnyMessage)]
                BY <4>1, <4>2
            <4> QED
                BY <2>3, <4>3
        <3>6. \A n \in DOMAIN history : parts[n] = <<sent[n]>>
            OBVIOUS
        <3> HIDE DEF parts
        <3>7. FlattenSeq(parts) = sent
            BY <3>2, <3>4, <3>5, <3>6, FlattenSingles
        <3>8. \A n \in Nat : x # <<"result", Id("gateway", n)>>
            <4>1. SaidBy(history) = FlattenSeq(Saids(history)) /\ Saids(history) \in Seq(Seq(AnySaid))
                BY <2>1, SaidByJoined DEF SaidBy, Saids
            <4>2. x \in {SaidBy(history)[k] : k \in DOMAIN SaidBy(history)}
                BY DEF AllSaid, SaidBy, ToBag, Range
            <4>3. PICK k \in DOMAIN Saids(history) : \E l \in DOMAIN Saids(history)[k] : x = Saids(history)[k][l]
                BY <4>1, <4>2, FlattenElements
            <4>4. k \in DOMAIN history /\ Saids(history)[k] = Said(history[k])
                BY DEF Saids
            <4>5. Said(history[k]) \in Seq(AnySaid)
                BY <2>3, <4>4, SaidIs
            <4>6. Times(Said(history[k]), x) # 0
                BY <4>3, <4>4, <4>5, TimesIsNumber
            <4>7. \A n \in Nat : Times(Said(history[k]), <<"result", Id("gateway", n)>>) = 0
                BY <2>3, <3>3, <4>4, ChatSaysSame
            <4> QED
                BY <4>6, <4>7
        <3>9. ASSUME NEW n \in DOMAIN history
              PROVE  Times(SaidBy(parts[n]), x) = Times(Said(history[n]), x)
            <4>1. SaidBy(parts[n]) = Said(sent[n])
                BY <3>4, <3>6, SaidByJoined
            <4>2. /\ history[n] \in AnyMessage /\ ChatMessage(history[n]) /\ n \in Nat /\ sent[n] \in AnyMessage
                  /\ x # <<"result", Id("gateway", n)>>
                BY <2>3, <3>3, <3>4, <3>8
            <4>3. /\ sent[n].blocks = history[n].blocks /\ sent[n].calls = history[n].calls
                  /\ (sent[n].role = "tool" <=> history[n].role = "tool")
                  /\ sent[n].id = history[n].id
                        \/ (history[n].role = "tool" /\ history[n].id = NoId /\ sent[n].id = Id("gateway", n))
                BY <3>2
            <4>4. Times(Said(sent[n]), x) = Times(Said(history[n]), x)
                BY <4>2, <4>3, ChatSaysSame
            <4> QED
                BY <4>1, <4>4
        <3>10. Sent = FlattenSeq(parts)
            BY <3>1, <3>7
        <3> QED
            BY <2>4, <3>5, <3>9, <3>10
    <2> QED
        BY <2>2, <2>5, <2>6, <2>7, <2>8
<1> QED
    BY <1>1, ConversationAlways, AlwaysDecided, PTL
=============================================================================
