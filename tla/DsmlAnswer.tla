----------------------------- MODULE DsmlAnswer -----------------------------
(***************************************************************************)
(* One answer of the upstream on its way to the client of /v1/messages:    *)
(* the upstream writes it block by block, the gateway buffers it and       *)
(* rewrites it when its status is 2xx (the end of ServeHTTP), and the      *)
(* client reads what it is sent, a stream event by event.                  *)
(***************************************************************************)
EXTENDS Dsml, FiniteSets

CONSTANTS
    Fragments,      \* what the upstream may write next in a text
    Cuts,           \* subsets of Cuttable: what its tokenizer may cut
    MaxTokens,      \* bound: tokens of an answer of one block
    MaxShared,      \* bound: tokens of an answer of several blocks
    MaxBlocks       \* bound: blocks of an answer

ASSUME AnswerAssumption ==
    /\ Fragments \subseteq Seq(Token) \ {<<>>}
    /\ Cuts \subseteq SUBSET Cuttable
    /\ {MaxTokens, MaxShared, MaxBlocks} \subseteq Nat /\ MaxShared <= MaxTokens

VARIABLES
    isStream,       \* the request asks for a stream
    content,        \* blocks of the upstream's answer
    form, cut,      \* how they reach the gateway
    sent,           \* what the gateway has not yet delivered
    client          \* what the client has read: its phase, blocks and stop reason

vars == <<isStream, content, form, cut, sent, client>>

Waiting == [phase |-> "waiting", blocks |-> <<>>, stop |-> ""]

Init ==
    /\ isStream \in BOOLEAN
    /\ content = <<>>
    /\ form = "unsent" /\ cut = {}
    /\ sent = <<>>
    /\ client = Waiting

-----------------------------------------------------------------------------
\* The upstream writes its answer.  Prose after prose is no other text.
Prose == {"word", "mention"}

Say(fragment) ==
    /\ form = "unsent"
    /\ Len(Texts(content)) + Len(fragment) <= IF Len(content) = 1 THEN MaxTokens ELSE MaxShared
    /\ content # <<>> /\ Last(content).type = "text"
    /\ LET text == Last(content).text
       IN  /\ text # <<>> /\ Head(fragment).tag \in Prose => Last(text).tag \notin Prose
           /\ content' = ReplaceAt(content, Len(content), TextBlock(text \o fragment))
    /\ UNCHANGED <<isStream, form, cut, sent, client>>

BeginBlock(block) ==
    /\ form = "unsent" /\ Len(content) < MaxBlocks /\ Len(Texts(content)) <= MaxShared
    /\ content # <<>> => Last(content) # NoBlock
    /\ content' = Append(content, block)
    /\ UNCHANGED <<isStream, form, cut, sent, client>>

\* A call the upstream writes as such, under an id of its own.
Native(n) == ToolUse(Id("toolu", n), "Read", {"file_path"})

UpstreamStop(blocks) ==
    IF \E i \in DOMAIN blocks : blocks[i].type = "tool_use" THEN "tool_use" ELSE "end_turn"

\* Variant: stop_reason stays as the upstream sent it.
UpstreamStopKept(blocks) == UpstreamStop(blocks)

\* stop_reason after RewriteClaudeMessageDSML.
MessageStop(blocks) ==
    IF RewriteClaudeMessageDSML(blocks) # blocks THEN "tool_use" ELSE UpstreamStop(blocks)

Whole(blocks, stop) == [phase |-> "ended", blocks |-> blocks, stop |-> stop]

\* The body is complete: ServeHTTP rewrites it and writes it to the client, who
\* reads a message, or a stream that came through as it was, without the
\* gateway having a part in it.
Deliver(f, c) ==
    /\ form = "unsent" /\ content # <<>> /\ Last(content) # NoBlock
    /\ f = "bare" => content = <<TextBlock(Texts(content))>>
    /\ f # "events" => c = {}
    /\ form' = f /\ cut' = c
    /\ \/ /\ ~isStream /\ f \in {"line", "pretty"}
          /\ client' = Whole(RewriteClaudeMessageDSML(content), MessageStop(content))
          /\ UNCHANGED sent
       \/ /\ isStream /\ RewriteClaudeStreamDSML(content, f, c).kind = "raw"
          /\ client' = Whole(content, UpstreamStop(content))
          /\ UNCHANGED sent
       \/ /\ isStream /\ RewriteClaudeStreamDSML(content, f, c).kind = "events"
          /\ sent' = RewriteClaudeStreamDSML(content, f, c).events
          /\ UNCHANGED client
    /\ UNCHANGED <<isStream, content>>

-----------------------------------------------------------------------------
\* The client of a stream: which event it expects in each phase, and what it
\* makes of it.  The block being filled is the last one.
ClientAfter(e) ==
    LET open == Last(client.blocks)
        filled == IF open.type = "text" THEN TextBlock(open.text \o e.block.text)
                  ELSE ToolUse(open.id, open.name, open.input \cup e.block.input)
    IN  CASE client.phase = "waiting" /\ e.type = "message_start" -> [client EXCEPT !.phase = "message"]
          [] /\ client.phase = "message" /\ e.type = "content_block_start"
             /\ e.index = Len(client.blocks) ->
                [client EXCEPT !.phase = "block", !.blocks = Append(@, e.block)]
          [] /\ client.phase = "block" /\ e.type = "content_block_delta"
             /\ e.index = Len(client.blocks) - 1 /\ e.block.type = open.type ->
                [client EXCEPT !.blocks = ReplaceAt(@, Len(@), filled)]
          [] /\ client.phase = "block" /\ e.type = "content_block_stop"
             /\ e.index = Len(client.blocks) - 1 -> [client EXCEPT !.phase = "message"]
          [] client.phase = "message" /\ e.type = "message_delta" ->
                [client EXCEPT !.phase = "closing", !.stop = "tool_use"]
          [] client.phase = "closing" /\ e.type = "message_stop" -> [client EXCEPT !.phase = "ended"]
          [] OTHER -> [client EXCEPT !.phase = "broken"]

Receive ==
    /\ sent # <<>>
    /\ client' = ClientAfter(Head(sent))
    /\ sent' = Tail(sent)
    /\ UNCHANGED <<isStream, content, form, cut>>

Next ==
    \/ \E fragment \in Fragments : Say(fragment)
    \/ \E block \in {NoBlock, Thinking, Native(Len(content) + 1)} : BeginBlock(block)
    \/ \E f \in Forms, c \in Cuts : Deliver(f, c)
    \/ Receive

Spec == Init /\ [][Next]_vars

-----------------------------------------------------------------------------
IsText == Len(content) = 1 /\ content[1].type = "text"
HasEnded == client.phase = "ended"

\* A stream the gateway writes is one a client can read: every block is opened,
\* filled and closed under the next index, and the message is closed after
\* them (synthesizeToolUseSSE).
StreamIsWellFormed ==
    /\ client.phase # "broken"
    /\ sent = <<>> => client.phase \in {"waiting", "ended"}

\* What the client of a stream ends up with is what it would have read in a
\* message: the two ways RewriteClaudeStreamDSML and RewriteClaudeMessageDSML
\* turn a text into calls agree, however the body was formed.
StreamAgreesWithMessage ==
    isStream /\ HasEnded /\ IsText /\ cut = {} =>
        client = Whole(RewriteClaudeMessageDSML(content), MessageStop(content))

\* A client looks for calls exactly when the answer says it stopped for them.
StopAnnouncesCalls ==
    HasEnded => (client.stop = "tool_use"
                    <=> \E i \in DOMAIN client.blocks : client.blocks[i].type = "tool_use")

\* No text the client gets from a rewritten answer still has a call in it, so
\* that a second gateway on the way would find nothing more to rewrite.  (Only
\* messageJSONToSSE, which joins the texts of several blocks, may compose one.)
NothingLeftToRewrite ==
    HasEnded /\ client.blocks # content /\ (form = "pretty" => ~isStream \/ IsText) =>
        \A i \in DOMAIN client.blocks : ~StripAndParseDSML(client.blocks[i].text).ok

\* What the comment above RewriteClaudeStreamDSML says: a stream that has calls
\* in its text deltas is rewritten, however the deltas are cut ("If no DSML is
\* present, raw is returned unchanged").  The code looks for the words in the
\* bytes of the stream, where a cut word is not found.
CutTagsAreRewritten ==
    isStream /\ HasEnded /\ IsText =>
        client = Whole(RewriteClaudeMessageDSML(content), MessageStop(content))

\* The first n tokens of a text hold this many tokens of a kind.
CountIn(text, n, tag) == Cardinality({k \in 1 .. n : text[k].tag = tag})

\* Is token n inside a region, or inside an invoke?
Enclosed(text, n, open, close) == CountIn(text, n, open) > CountIn(text, n - 1, close)

\* Every tag that opens is closed before the next of its kind opens, and no
\* region begins or ends inside an invoke.
WellFormed(text) ==
    /\ \A n \in 1 .. Len(text) :
        /\ CountIn(text, n, "regionOpen") - CountIn(text, n, "regionClose") \in {0, 1}
        /\ CountIn(text, n, "invokeOpen") - CountIn(text, n, "invokeClose") \in {0, 1}
        /\ text[n].tag \in {"regionOpen", "regionClose"}
                => ~Enclosed(text, n, "invokeOpen", "invokeClose")
    /\ CountIn(text, Len(text), "regionOpen") = CountIn(text, Len(text), "regionClose")
    /\ CountIn(text, Len(text), "invokeOpen") = CountIn(text, Len(text), "invokeClose")

Named(text) == {n \in DOMAIN text : text[n].tag = "invokeOpen" /\ text[n].name # ""}

\* Calls are written inside regions or outside, not both.
Unmixed(text) ==
    LET inside == {n \in Named(text) : Enclosed(text, n, "regionOpen", "regionClose")}
    IN  inside \in {{}, Named(text)}

\* The call that the invoke at place n is: the parameters up to its closing tag
\* are its own.
CallAt(text, n) ==
    LET tool == mapToolName(text[n].name)
        params == {text[k].name : k \in {l \in n .. Len(text) :
                        text[l].tag = "param" /\ \A m \in n .. l : text[m].tag # "invokeClose"}}
    IN  [name |-> tool, input |-> {mapParamName(tool, p) : p \in params}]

\* In a text whose tags match, each named invoke becomes one call, in the order
\* of the text and with its own parameters, and the prose around the markup is
\* all that stays: no call is lost, doubled, or given the parameters of another
\* (StripAndParseDSML).
EveryCallOnceAndAllProse ==
    HasEnded /\ IsText /\ cut = {} =>
        LET text == content[1].text
            calls == FlattenSeq([n \in DOMAIN text |-> IF n \in Named(text) THEN <<CallAt(text, n)>> ELSE <<>>])
            prose == FlattenSeq([n \in DOMAIN text |->
                        IF \/ Enclosed(text, n, "regionOpen", "regionClose")
                           \/ Enclosed(text, n, "invokeOpen", "invokeClose") THEN <<>> ELSE <<text[n]>>])
            uses == FlattenSeq([b \in DOMAIN client.blocks |->
                        IF client.blocks[b].type # "tool_use" THEN <<>>
                        ELSE <<[name |-> client.blocks[b].name, input |-> client.blocks[b].input]>>])
        IN  WellFormed(text) /\ Unmixed(text) /\ Named(text) # {} =>
                uses = calls /\ Texts(client.blocks) = prose

\* The results a client sends back are told apart by the ids of the calls.
CallIdsDiffer ==
    HasEnded => \A i, j \in DOMAIN client.blocks :
        client.blocks[i].id # NoId /\ client.blocks[i].id = client.blocks[j].id => i = j

=============================================================================
