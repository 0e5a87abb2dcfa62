--------------------------- MODULE ClaudeRequest ----------------------------
(***************************************************************************)
(* translate/claude_request.go: a Claude request in the shape the upstream *)
(* accepts, tools as functions, tool_use blocks as tool_calls of an        *)
(* assistant message and tool_result blocks as messages of role tool.      *)
(* Joining texts, the schemas of tools and the JSON of inputs are left     *)
(* out; every message of a client names its role.                          *)
(***************************************************************************)
EXTENDS Messages

\* A tool, as Claude or as chat clients describe it; a choice, as an object or
\* already as the string (or function object) the upstream takes.
Tool(shape, name) == [shape |-> shape, name |-> name]

\* A tool without a name passes as it is.
rewriteTools(tools) ==
    [n \in DOMAIN tools |-> IF tools[n].name = "" THEN tools[n] ELSE Tool("function", tools[n].name)]

rewriteToolChoice(choice) ==
    IF choice.shape # "claude" THEN choice
    ELSE CASE choice.name = "any" -> [shape |-> "upstream", name |-> "required", tool |-> ""]
           [] choice.name \in {"auto", "none"} -> [shape |-> "upstream", name |-> choice.name, tool |-> ""]
           [] choice.name = "tool" /\ choice.tool # "" ->
                [shape |-> "upstream", name |-> "function", tool |-> choice.tool]
           [] OTHER -> choice

-----------------------------------------------------------------------------
TextBlocks(m) == BlocksOf(m, {"text"})
Others(m) == BlocksAt(m, DOMAIN m.blocks \ Places(m, {"text", "tool_use", "tool_result"}))
CallBlocks(m) == BlocksOf(m, {"tool_use"})

\* A result that names no call is skipped.
ResultBlocks(m) == BlocksAt(m, {n \in Places(m, {"tool_result"}) : m.blocks[n].ref # NoId})

Refs(blocks) == [n \in DOMAIN blocks |-> blocks[n].ref]

\* The id made for a tool message that has none; n keeps two of them apart.
GeneratedId(n) == Id("gateway", n)

\* What a message says besides results, a string when there are only texts.
ContentMessages(m) ==
    IF TextBlocks(m) \o Others(m) = <<>> THEN <<>>
    ELSE <<Message(m.role, Others(m) = <<>>, TextBlocks(m) \o Others(m))>>

StringMessage(m, n) ==
    IF m.role = "tool" /\ m.id = NoId THEN [m EXCEPT !.id = GeneratedId(n)] ELSE m

ResultsOf(m) == [n \in DOMAIN ResultBlocks(m) |-> ToolMessage(ResultBlocks(m)[n].ref)]

\* Variant: a message keeps its place before the results.
ContentBeforeResults(m) == ContentMessages(m) \o ResultsOf(m)

\* Variant: what stands beside the results is dropped.
ResultsAlone(m) == ResultsOf(m)

\* The results first, each a message of its own, then what else the message
\* said: tool_use blocks beside a result are dropped.
ResultMessages(m) == ResultsOf(m) \o ContentMessages(m)

\* The texts stay parts of the content unless there is just one.
CallMessage(m) ==
    [Message("assistant", Len(TextBlocks(m)) <= 1 /\ Others(m) = <<>>, TextBlocks(m) \o Others(m))
        EXCEPT !.calls = Refs(CallBlocks(m))]

rewriteMessage(m, n) ==
    CASE m.isString -> <<StringMessage(m, n)>>
      [] ~m.isString /\ ResultBlocks(m) # <<>> -> ResultMessages(m)
      [] ~m.isString /\ ResultBlocks(m) = <<>> /\ CallBlocks(m) # <<>> -> <<CallMessage(m)>>
      [] ~m.isString /\ ResultBlocks(m) = <<>> /\ CallBlocks(m) = <<>> ->
            IF Others(m) = <<>> /\ TextBlocks(m) # <<>> THEN <<Message(m.role, TRUE, TextBlocks(m))>> ELSE <<m>>

\* Does anything of the messages have to change?
ToolsInvolved(m) ==
    IF m.isString THEN m.role = "tool" /\ m.id = NoId ELSE CallBlocks(m) \o ResultBlocks(m) # <<>>

rewriteMessages(messages) ==
    IF \E n \in DOMAIN messages : ToolsInvolved(messages[n])
    THEN FlattenSeq([n \in DOMAIN messages |-> rewriteMessage(messages[n], n)])
    ELSE messages

\* Every message leaves at least one, so that the net below messagesEmpty never
\* catches anything.
ClaudeRequestToUpstream(request) ==
    [request EXCEPT !.tools = rewriteTools(@), !.choice = rewriteToolChoice(@),
                    !.messages = rewriteMessages(@)]

=============================================================================
