---------------------------- MODULE Conversation ----------------------------
(***************************************************************************)
(* A conversation over several requests: the client sends its whole        *)
(* history each time, ServeHTTP admits the request, finds its session and  *)
(* rewrites it for the upstream, and the answer, rewritten in turn, becomes *)
(* part of the history.  Composes Session, ChatRequest, ClaudeRequest and  *)
(* Dsml; what happens to a request on the way out (proxies, retries) is in *)
(* module Gateway, of which only the failure is seen here.                 *)
(***************************************************************************)
EXTENDS ClaudeRequest, ChatRequest, Session, Dsml, FiniteSets

CONSTANTS
    Settings,       \* clients and the configuration they meet
    MaxMessages,    \* bound: messages of a history
    MaxFailures     \* bound: requests the upstream fails to answer

ASSUME ConversationAssumption ==
    /\ MaxMessages \in Nat /\ MaxFailures \in Nat
    /\ \A s \in Settings :
        /\ DOMAIN s = {"path", "method", "configuredKey", "key", "body", "model", "allowed",
                       "name", "loses"}
        /\ s.body \in {"whole", "too large"}

VARIABLES
    setting,        \* the client and the configuration, of Settings
    history,        \* the client's messages
    phase,          \* who has the word: "client", "gateway", "upstream", or nobody: "refused"
    status,         \* of the answer that is the gateway's own, 0 before
    session,        \* of the last request that was admitted
    forwarded,      \* the request the upstream has
    failures        \* requests it did not answer

vars == <<setting, history, phase, status, session, forwarded, failures>>

\* endpoints: which of the rewritings a path has.
Endpoint(path) ==
    [normalizeChatRoles |-> path = "/v1/chat/completions", needInject |-> path = "/v1/chat/completions",
     adaptClaudeTools |-> path = "/v1/messages", rewriteDSML |-> path = "/v1/messages"]

Endpoints == {"/v1/chat/completions", "/v1/messages", "/v1/responses"}

-----------------------------------------------------------------------------
checkAuth(s) == s.configuredKey = "" \/ s.key = s.configuredKey

\* Variant: an empty list allows nothing.
MustBeListed(s) == s.model \in s.allowed

IsModelAllowed(s) == s.allowed = {} \/ s.model \in s.allowed

handleListModels(s, method) ==
    IF method \notin {"GET", "HEAD"} THEN [status |-> 405, data |-> {}]
    ELSE IF ~checkAuth(s) THEN [status |-> 401, data |-> {}]
    ELSE [status |-> 200, data |-> s.allowed]

\* The checks of ServeHTTP: the status the gateway answers itself, or 0 for a
\* request that goes on.
Admission(s) ==
    IF s.method = "OPTIONS" THEN 204
    ELSE IF s.path = "/v1/models" THEN handleListModels(s, s.method).status
    ELSE IF s.path \notin Endpoints THEN 404
    ELSE IF s.method # "POST" THEN 405
    ELSE IF ~checkAuth(s) THEN 401
    ELSE IF s.body = "too large" THEN 400
    ELSE IF s.model = "" THEN 400
    ELSE IF ~IsModelAllowed(s) THEN 403
    ELSE 0

\* The request as the client sends it.  The body of /v1/responses has its
\* messages in a field that nothing here looks at.
Request(s, messages) ==
    [name |-> s.name, messages |-> messages,
     tools |-> <<Tool("claude", "Read"), Tool("claude", "")>>,
     choice |-> [shape |-> "claude", name |-> "tool", tool |-> "Read"]]

SessionOf(s, n) ==
    ExtractFromRequest(Request(s, IF s.path = "/v1/responses" THEN <<>> ELSE history), n)

\* Variant: reasoning is injected before the roles are normalised.
InjectFirst(s, request) ==
    IF Endpoint(s.path).needInject
    THEN NormalizeChatCompletionRequest(InjectReasoningContent(s.model, request))
    ELSE IF Endpoint(s.path).adaptClaudeTools THEN ClaudeRequestToUpstream(request) ELSE request

\* forwardBody
ForwardBody(s, request) ==
    LET ep == Endpoint(s.path)
        normal == IF ep.normalizeChatRoles THEN NormalizeChatCompletionRequest(request) ELSE request
        adapted == IF ep.adaptClaudeTools THEN ClaudeRequestToUpstream(normal) ELSE normal
    IN  IF ep.needInject THEN InjectReasoningContent(s.model, adapted) ELSE adapted

-----------------------------------------------------------------------------
NoSession == Named("")

Init ==
    /\ setting \in Settings
    /\ history = <<>> /\ phase = "client" /\ status = 0
    /\ session = NoSession /\ forwarded = Request(setting, <<>>) /\ failures = 0

\* The client adds messages and asks.
Ask(messages) ==
    /\ phase = "client" /\ Len(history) + Len(messages) <= MaxMessages
    /\ history' = history \o messages
    /\ phase' = "gateway"
    /\ UNCHANGED <<setting, status, session, forwarded, failures>>

\* Only /v1/messages speaks in blocks.
IsChatShaped == setting.path # "/v1/messages"

\* Calls of the last answer, which the client has to answer before it goes on.
Pending ==
    IF history = <<>> \/ Last(history).role # "assistant" THEN <<>>
    ELSE IF IsChatShaped THEN Last(history).calls
    ELSE Refs(BlocksOf(Last(history), {"tool_use"}))

IsClientsTurn == history # <<>> => Last(history).role = "assistant"

\* A new text or image, told apart by its place in the history.
Fresh(type) == Block(type, Id(type, Len(history) + 1))

UserContents == {<<Fresh("text")>>, <<Fresh("image")>>, <<Fresh("image"), Fresh("text")>>}

\* A turn of the user; a chat client may begin with its instructions.
SayNext ==
    /\ IsClientsTurn /\ Pending = <<>>
    /\ \E blocks \in UserContents, opening \in {<<>>, <<Message("developer", TRUE, <<>>)>>} :
        /\ opening # <<>> => history = <<>> /\ IsChatShaped
        /\ Ask(opening \o <<Message("user", blocks = <<Fresh("text")>>, blocks)>>)

\* The results of the calls, in either order.  A client that loses ids gives
\* some without one.
Orders == {Pending, Reverse(Pending)}
Given(ids) == IF setting.loses THEN {ids, [ids EXCEPT ![1] = NoId]} ELSE {ids}

\* In Claude's shape all results are blocks of one message, and the user may
\* say something in it too, before or after them.
AnswerClaude ==
    /\ Pending # <<>> /\ ~IsChatShaped
    /\ \E order \in Orders : \E ids \in Given(order), first \in BOOLEAN,
            word \in {<<>>, <<Fresh("text")>>, <<Fresh("image"), Fresh("text")>>} :
        LET results == [n \in DOMAIN ids |-> Block("tool_result", ids[n])]
        IN  (word = <<>> => first) /\ Ask(<<Message("user", FALSE, IF first THEN word \o results ELSE results \o word)>>)

\* In the shape of chat completions each result is a message.
AnswerChat ==
    /\ Pending # <<>> /\ IsChatShaped
    /\ \E order \in Orders : \E ids \in Given(order) :
        Ask([n \in DOMAIN ids |-> ToolMessage(ids[n])])

\* The same history once more, after a failure.
AskAgain == history # <<>> /\ ~IsClientsTurn /\ Ask(<<>>)

-----------------------------------------------------------------------------
\* An error, the list of models, or nothing (204).
Refuse ==
    /\ phase = "gateway" /\ Admission(setting) # 0
    /\ phase' = "refused" /\ status' = Admission(setting)
    /\ UNCHANGED <<setting, history, session, forwarded, failures>>

\* The number of the request makes a random session new.
Forward ==
    /\ phase = "gateway" /\ Admission(setting) = 0
    /\ session' = SessionOf(setting, Len(history) + failures)
    /\ forwarded' = ForwardBody(setting, Request(setting, history))
    /\ phase' = "upstream"
    /\ UNCHANGED <<setting, history, status, failures>>

-----------------------------------------------------------------------------
\* Nothing comes back, or an answer with an error status.
Fail ==
    /\ phase = "upstream" /\ failures < MaxFailures
    /\ failures' = failures + 1 /\ phase' = "client"
    /\ UNCHANGED <<setting, history, status, session, forwarded>>

Reply(message) ==
    /\ phase = "upstream" /\ Len(history) < MaxMessages
    /\ history' = Append(history, message)
    /\ phase' = "client"
    /\ UNCHANGED <<setting, status, session, forwarded, failures>>

\* In chat completions: calls, if any, and reasoning, which the client may keep.
CallNames == {<<>>, <<Id("call", 1)>>, <<Id("call", 1), Id("call", 2)>>}

ReplyChat ==
    /\ IsChatShaped
    /\ \E calls \in CallNames, reasoning \in {"none", "given"} :
        Reply([Message("assistant", TRUE, <<Fresh("text")>>)
                    EXCEPT !.calls = calls, !.reasoning = reasoning])

\* In Claude's shape: a text, in which calls may be written as DSML, and calls
\* as blocks.  The client gets it through RewriteClaudeMessageDSML.
Written(n) ==
    <<Word("w"), RegionOpen>>
        \o FlattenSeq([k \in 1 .. n |-> <<InvokeOpen("Read"), InvokeClose>>]) \o <<RegionClose>>

ClaudeAnswers ==
    {RewriteClaudeMessageDSML(thoughts \o <<TextBlock(Written(1))>>) :
        thoughts \in {<<>>, <<Thinking>>}}
    \cup {RewriteClaudeMessageDSML(<<TextBlock(Written(n))>> \o calls) :
            n \in {0, 2}, calls \in {<<>>, <<ToolUse(Id("toolu", 1), "Read", {})>>}}

ReplyClaude ==
    /\ ~IsChatShaped
    /\ \E blocks \in ClaudeAnswers :
        Reply(Message("assistant", FALSE,
            [n \in DOMAIN blocks |-> IF blocks[n].type = "tool_use" THEN Block("tool_use", blocks[n].id)
                                     ELSE Fresh(blocks[n].type)]))

Next ==
    \/ SayNext \/ AnswerClaude \/ AnswerChat \/ AskAgain
    \/ Refuse \/ Forward
    \/ Fail \/ ReplyChat \/ ReplyClaude

Spec == Init /\ [][Next]_vars

-----------------------------------------------------------------------------
Sent == forwarded.messages
IsForwarded == phase = "upstream"

\* The results that directly follow message n.
AnswersTo(n) ==
    {k \in n + 1 .. Len(Sent) : \A l \in n + 1 .. k : Sent[l].role = "tool"}

\* An assistant message with calls is followed by one result for each of them,
\* in any order, and by nothing else before them; no result stands elsewhere.
CallsAreAnswered ==
    /\ \A n \in DOMAIN Sent : Sent[n].calls # <<>> =>
        /\ Cardinality(AnswersTo(n)) = Len(Sent[n].calls)
        /\ {Sent[k].id : k \in AnswersTo(n)} = ToSet(Sent[n].calls)
    /\ \A k \in DOMAIN Sent : Sent[k].role = "tool" =>
        \E n \in 1 .. k - 1 : Sent[n].calls # <<>> /\ k \in AnswersTo(n)

\* No result is without an id, and none that was given one shares it with the
\* result before it.
ResultsHaveIds ==
    \A k \in DOMAIN Sent : Sent[k].role = "tool" =>
        /\ Sent[k].id # NoId
        /\ k > 1 => Sent[k - 1].id # Sent[k].id

\* What /v1/messages sends has the tools of chat completions: functions, and
\* neither calls nor results as blocks.  (A result without an id passes as the
\* block it is when its message is left as it is.)
ToolsAreFunctions ==
    setting.path = "/v1/messages" =>
        /\ \A n \in DOMAIN forwarded.tools : forwarded.tools[n].name # "" => forwarded.tools[n].shape = "function"
        /\ forwarded.choice.tool \in {forwarded.tools[n].name : n \in DOMAIN forwarded.tools}
        /\ \A n \in DOMAIN Sent : \A b \in ToSet(Sent[n].blocks) :
            b.type # "tool_use" /\ (b.type = "tool_result" => b.ref = NoId)

\* Whatever the client's shape, order of results and words beside them, the
\* upstream gets an exchange of calls and results it accepts
\* (rewriteMessages, NormalizeChatCompletionRequest).
ToolExchangeIsValid ==
    IsForwarded =>
        /\ ~setting.loses => CallsAreAnswered
        /\ setting.path # "/v1/responses" => ResultsHaveIds
        /\ ToolsAreFunctions

\* What a message says: its texts and images, calls and results.
Said(m) ==
    LET kind(b) == CASE b.type = "tool_use" -> "call" [] b.type = "tool_result" -> "result" [] OTHER -> b.type
    IN  [n \in DOMAIN m.blocks |-> <<kind(m.blocks[n]), m.blocks[n].ref>>]
            \o [n \in DOMAIN m.calls |-> <<"call", m.calls[n]>>]
            \o (IF m.role = "tool" THEN <<<<"result", m.id>>>> ELSE <<>>)

AllSaid(messages) == ToBag(FlattenSeq([n \in DOMAIN messages |-> Said(messages[n])]))

\* Splitting and regrouping messages neither loses nor doubles anything that was
\* said, except results that name no call.
NothingSaidIsLost ==
    IsForwarded =>
        \A item \in DOMAIN AllSaid(history) \ {<<"result", NoId>>} :
            item \in DOMAIN AllSaid(Sent) /\ AllSaid(Sent)[item] = AllSaid(history)[item]

\* A chat request reaches the upstream with reasoning in every message the
\* model wants it in, and with the client's own wherever nothing made the
\* gateway write the messages anew (the order of the rewritings in ServeHTTP).
ReasoningArrives ==
    IsForwarded /\ setting.path = "/v1/chat/completions" =>
        \A n \in DOMAIN history :
            /\ InScope(history[n], Scope(setting.model)) => Sent[n].reasoning # "none"
            /\ history[n].reasoning = "given" /\ (\A k \in DOMAIN history : IsNormal(history[k]))
                    => Sent[n].reasoning = "given"

\* Once something identifies the conversation its session stays the same, over
\* every turn and every failure: the proxy it is tied to does not change for
\* want of an identity ("Stable per conversation", session.go).
SessionSettles ==
    [][session.kind # "random" /\ session # NoSession => session' = session]_vars

\* A client finds out from /v1/models, with the key it has, which models it may
\* use: a model that is refused is not on a list that has others, and one that
\* is forwarded is on it unless it is empty.
ModelsAgreeWithList ==
    LET list == handleListModels(setting, "GET")
    IN  /\ status = 403 => list.status = 200 /\ list.data # {} /\ setting.model \notin list.data
        /\ IsForwarded => list.status = 200 /\ (list.data = {} \/ setting.model \in list.data)

=============================================================================
