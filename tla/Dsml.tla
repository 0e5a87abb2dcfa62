-------------------------------- MODULE Dsml --------------------------------
(***************************************************************************)
(* translate/dsml.go: tool calls that a free model wrote as text (DSML     *)
(* markup) become tool_use blocks of the answer, in a message or in a      *)
(* stream of events.                                                       *)
(*                                                                         *)
(* A text is a sequence of tokens: the tags that open and close a region   *)
(* of calls and an invoke, a whole parameter element, and prose, which may *)
(* mention the markup.  White space is left out (a text of white space is  *)
(* the empty sequence), and so are the values of parameters: the input of  *)
(* a call is the set of its parameters' names.                             *)
(***************************************************************************)
EXTENDS Ids, SequencesExt

RegionOpen == [tag |-> "regionOpen", name |-> ""]
RegionClose == [tag |-> "regionClose", name |-> ""]
InvokeOpen(n) == [tag |-> "invokeOpen", name |-> n]
InvokeClose == [tag |-> "invokeClose", name |-> ""]
Param(n) == [tag |-> "param", name |-> n]
Word(w) == [tag |-> "word", name |-> w]
Mention == [tag |-> "mention", name |-> ""]

Token == [tag : {"regionOpen", "regionClose", "invokeOpen", "invokeClose", "param", "word", "mention"},
          name : STRING]

\* The tokens that spell the word DSML, and those with a word for calls.
Marked == {"regionOpen", "regionClose", "invokeOpen", "invokeClose", "param", "mention"}
Keyed == Marked \ {"param"}

TextBlock(text) == [type |-> "text", text |-> text, id |-> NoId, name |-> "", input |-> {}]
ToolUse(id, name, input) ==
    [type |-> "tool_use", text |-> <<>>, id |-> id, name |-> name, input |-> input]
Thinking == [type |-> "thinking", text |-> <<>>, id |-> NoId, name |-> "", input |-> {}]

Tags(text) == {text[i].tag : i \in DOMAIN text}

ContainsDSML(text) == Tags(text) \cap Marked # {} /\ Tags(text) \cap Keyed # {}

-----------------------------------------------------------------------------
\* Variant: "open (.*) close", up to the last closing tag.
GreedyMatches(text, open, close) ==
    {m \in (DOMAIN text) \X (DOMAIN text) :
        /\ m[1] < m[2] /\ text[m[1]].tag = open /\ text[m[2]].tag = close
        /\ \A k \in m[2] + 1 .. Len(text) : text[k].tag # close
        /\ \A k \in 1 .. m[1] - 1 : text[k].tag # open}

\* The matches of "open (.*?) close", leftmost first, none overlapping another:
\* a match goes from an opening tag to the first closing tag after it, and
\* swallows the opening tags on its way.
Matches(text, open, close) ==
    {m \in (DOMAIN text) \X (DOMAIN text) :
        /\ m[1] < m[2] /\ text[m[1]].tag = open /\ text[m[2]].tag = close
        /\ \A k \in m[1] .. m[2] - 1 : text[k].tag # close
        /\ \A k \in 1 .. m[1] - 1 : text[k].tag = open => \E l \in k .. m[1] : text[l].tag = close}

\* f applied to every match, in the order of the text, the results joined.
JoinMatches(text, open, close, f(_, _)) ==
    FlattenSeq([i \in DOMAIN text |->
        LET ends == {m[2] : m \in {n \in Matches(text, open, close) : n[1] = i}}
        IN  IF ends = {} THEN <<>> ELSE f(i, CHOOSE j \in ends : TRUE)])

\* regexp.ReplaceAllString(text, "")
Without(text, open, close) ==
    LET matched == UNION {m[1] .. m[2] : m \in Matches(text, open, close)}
    IN  FlattenSeq([i \in DOMAIN text |-> IF i \in matched THEN <<>> ELSE <<text[i]>>])

mapToolName(name) ==
    CASE name \in {"exec_command", "run_terminal_cmd", "shell", "bash_tool", "shell_command",
                   "run_command"} -> "Bash"
      [] name \in {"read_file", "read_files"} -> "Read"
      [] name \in {"write_file", "create_file"} -> "Write"
      [] name \in {"search_replace", "apply_patch", "edit_file"} -> "Edit"
      [] OTHER -> name

mapParamName(tool, param) ==
    CASE tool \in {"Bash", "bash"} /\ param \in {"cmd", "command_line", "script"} -> "command"
      [] tool \in {"Read", "read", "Edit", "edit", "Write", "write"}
            /\ param \in {"file", "filepath", "path"} -> "file_path"
      [] OTHER -> param

\* Invokes whose name is blank (here: empty) are no calls.
parseInvokes(body) ==
    JoinMatches(body, "invokeOpen", "invokeClose",
        LAMBDA i, j :
            LET name == mapToolName(body[i].name)
                params == {body[k].name : k \in {l \in i .. j : body[l].tag = "param"}}
            IN  IF name = "" THEN <<>>
                ELSE <<[name |-> name, input |-> {mapParamName(name, p) : p \in params}]>>)

parseDSMLRegions(text) ==
    JoinMatches(text, "regionOpen", "regionClose",
                LAMBDA i, j : parseInvokes(SubSeq(text, i + 1, j - 1)))

\* Variant: bare invokes stay in a text that has regions.
BareInvokesStay(text) ==
    LET inRegions == parseDSMLRegions(text)
        calls == IF inRegions # <<>> THEN inRegions ELSE parseInvokes(text)
    IN  IF calls = <<>> THEN [ok |-> FALSE, calls |-> <<>>, clean |-> text]
        ELSE [ok |-> TRUE, calls |-> calls,
              clean |-> IF inRegions # <<>> THEN Without(text, "regionOpen", "regionClose")
                        ELSE Without(text, "invokeOpen", "invokeClose")]

\* The calls of the regions, or of the whole text when the regions have none.
\* Both kinds of markup are removed, whichever gave the calls.
StripAndParseDSML(text) ==
    LET inRegions == parseDSMLRegions(text)
        calls == IF inRegions # <<>> THEN inRegions ELSE parseInvokes(text)
    IN  IF ~ContainsDSML(text) \/ calls = <<>> THEN [ok |-> FALSE, calls |-> <<>>, clean |-> text]
        ELSE [ok |-> TRUE, calls |-> calls,
              clean |-> Without(Without(text, "regionOpen", "regionClose"),
                                "invokeOpen", "invokeClose")]

-----------------------------------------------------------------------------
\* fmt.Sprintf("toolu_dsml_%d", n), n from 1 in every answer.
DsmlId(n) == Id("toolu_dsml", n)

ToolUses(calls) == [n \in DOMAIN calls |-> ToolUse(DsmlId(n), calls[n].name, calls[n].input)]

Texts(content) == FlattenSeq([i \in DOMAIN content |-> content[i].text])

\* Variant: the calls of every block are numbered from one and stay in its place.
NumberedPerBlock(content) ==
    LET parsed(b) == StripAndParseDSML(b.text)
        rewritten(b) == IF ~parsed(b).ok THEN <<b>>
                        ELSE SelectSeq(<<TextBlock(parsed(b).clean)>>, LAMBDA t : t.text # <<>>)
                                \o ToolUses(parsed(b).calls)
    IN  FlattenSeq([i \in DOMAIN content |-> rewritten(content[i])])

\* Every text block is rewritten by itself; the calls come last.
RewriteClaudeMessageDSML(content) ==
    LET parsed(b) == StripAndParseDSML(b.text)
        rewritten(b) == IF ~parsed(b).ok THEN <<b>>
                        ELSE IF parsed(b).clean = <<>> THEN <<>> ELSE <<TextBlock(parsed(b).clean)>>
    IN  FlattenSeq([i \in DOMAIN content |-> rewritten(content[i])])
            \o ToolUses(FlattenSeq([i \in DOMAIN content |-> parsed(content[i]).calls]))

-----------------------------------------------------------------------------
\* Events of a stream.  Those of a block carry its index.
Event(type, index, block) == [type |-> type, index |-> index, block |-> block]
NoBlock == TextBlock(<<>>)

\* A block is announced empty and filled by one delta.
BlockEvents(index, block) ==
    << Event("content_block_start", index,
             IF block.type = "text" THEN TextBlock(<<>>) ELSE ToolUse(block.id, block.name, {})),
       Event("content_block_delta", index,
             IF block.type = "text" THEN block ELSE ToolUse(NoId, "", block.input)),
       Event("content_block_stop", index, NoBlock) >>

\* Variant: the index is not advanced past the text.
IndexOfCallsFromZero(clean, calls) ==
    LET text == IF clean = <<>> THEN <<>> ELSE BlockEvents(0, TextBlock(clean))
        uses == ToolUses(calls)
    IN  <<Event("message_start", 0, NoBlock)>> \o text
            \o FlattenSeq([i \in DOMAIN uses |-> BlockEvents(i - 1, uses[i])])
            \o <<Event("message_delta", 0, NoBlock), Event("message_stop", 0, NoBlock)>>

\* Indices are counted from 0 over the blocks that are written.
synthesizeToolUseSSE(clean, calls) ==
    LET blocks == (IF clean = <<>> THEN <<>> ELSE <<TextBlock(clean)>>) \o ToolUses(calls)
    IN  <<Event("message_start", 0, NoBlock)>>
            \o FlattenSeq([i \in DOMAIN blocks |-> BlockEvents(i - 1, blocks[i])])
            \o <<Event("message_delta", 0, NoBlock), Event("message_stop", 0, NoBlock)>>

\* The texts and the tool calls of a message; other blocks get lost, and the
\* ids of the calls are given anew.
messageJSONToSSE(content) ==
    LET uses == FlattenSeq([i \in DOMAIN content |->
                    IF content[i].type = "tool_use" THEN <<content[i]>> ELSE <<>>])
    IN  synthesizeToolUseSSE(Texts(content),
            [n \in DOMAIN uses |-> [name |-> uses[n].name, input |-> uses[n].input]])

\* How an answer to a streaming request reaches the gateway: as events, as a
\* message on one line, as a message on several lines, or as bare text.
Forms == {"events", "line", "pretty", "bare"}

\* The words DSML and tool_calls (or invoke) are each in one delta or cut into
\* several: Cut is the set of those that are cut.
Cuttable == {"marker", "keyword"}

\* ContainsDSML of the bytes of the answer.
WireContainsDSML(content, form, cut) ==
    LET tags == Tags(Texts(content))
        uncut(word) == form # "events" \/ word \notin cut
    IN  tags \cap Marked # {} /\ uncut("marker") /\ tags \cap Keyed # {} /\ uncut("keyword")

\* Variant: only events are read.
EventsOnly(content, form) == IF form = "events" THEN Texts(content) ELSE <<>>

\* accumulateStreamMeta: what is read line by line.  The lines of a message on
\* several lines, and those of a bare text, are no JSON.
accumulateStreamMeta(content, form) ==
    IF form \in {"events", "line"} THEN Texts(content) ELSE <<>>

\* What the client gets: the bytes as they came, or events.
Raw == [kind |-> "raw", events |-> <<>>]
Rewritten(events) == [kind |-> "events", events |-> events]

RewriteClaudeStreamDSML(content, form, cut) ==
    LET text == accumulateStreamMeta(content, form)
        message == IF form = "pretty" THEN RewriteClaudeMessageDSML(content) ELSE content
        parsed == StripAndParseDSML(IF form = "bare" THEN Texts(content) ELSE text)
    IN  IF ~WireContainsDSML(content, form, cut) THEN Raw
        ELSE IF message # content THEN Rewritten(messageJSONToSSE(message))
        ELSE IF parsed.ok THEN Rewritten(synthesizeToolUseSSE(parsed.clean, parsed.calls))
        ELSE Raw

=============================================================================
