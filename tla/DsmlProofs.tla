----------------------------- MODULE DsmlProofs -----------------------------
(***************************************************************************)
(* What a client reads of an answer with markup, for answers of any length *)
(* and any number of blocks, in every form and however they are cut.       *)
(*                                                                         *)
(* A stream is read event by event (ReadStep); AnswerInv says that what    *)
(* the client has read is what the events so far add up to.  What the      *)
(* blocks are that it ends up with follows from the lemmas of DsmlLemmas.  *)
(* For texts whose tags match, counts of tags are turned into matches      *)
(* (EnclosedIsMatched), and the calls of the regions into those of the     *)
(* text (CallsOfText).                                                     *)
(***************************************************************************)
EXTENDS DsmlAnswer, DsmlLemmas, FiniteSetTheorems

-----------------------------------------------------------------------------
(* The client of a stream                                                  *)

\* What client c is when event p of the stream of these blocks is next.
ReadUpTo(blocks, p, c) ==
    LET n == Len(blocks)
    IN  \/ p = 1 /\ c = Waiting
        \/ \E k \in 1 .. n + 1 : p = 3 * k - 1 /\ c = Reading("message", SubSeq(blocks, 1, k - 1))
        \/ \E k \in 1 .. n : p = 3 * k /\ c = Reading("block", Append(SubSeq(blocks, 1, k - 1), Announced(blocks[k])))
        \/ \E k \in 1 .. n : p = 3 * k + 1 /\ c = Reading("block", SubSeq(blocks, 1, k))
        \/ p = 3 * n + 3 /\ c = [phase |-> "closing", blocks |-> blocks, stop |-> "tool_use"]
        \/ p = 3 * n + 4 /\ c = Whole(blocks, "tool_use")

\* A block is complete after the delta that follows its announcement.
Filled(open, delta) ==
    IF open.type = "text" THEN TextBlock(open.text \o delta.text)
    ELSE ToolUse(open.id, open.name, open.input \cup delta.input)

\* The delta completes what was announced (BlockEvents).
LEMMA FilledBlock ==
    ASSUME NEW index \in Nat, NEW b \in Tellable
    PROVE  /\ BlockEvents(index, b)[2].block.type = Announced(b).type
           /\ Filled(Announced(b), BlockEvents(index, b)[2].block) = b
<1>1. CASE b \in {TextBlock(text) : text \in AnyText}
    <2>1. PICK text \in AnyText : b = TextBlock(text)
        BY <1>1
    <2>2. b.type = "text" /\ b.text = text /\ TextBlock(<<>>).type = "text" /\ TextBlock(<<>>).text = <<>>
        BY <2>1 DEF TextBlock
    <2>3. BlockEvents(index, b)[2].block = b /\ Announced(b) = TextBlock(<<>>)
        BY <2>2 DEF BlockEvents, Announced, Event
    <2>4. <<>> \o text = text
        BY ConcatEmptySeq DEF AnyText
    <2>5. QED
        BY <2>1, <2>2, <2>3, <2>4 DEF Filled
<1>2. CASE b \in {ToolUse(id, name, input) : id \in AnyId, name \in AnyName, input \in SUBSET AnyName}
    <2>1. PICK id \in AnyId, name \in AnyName, input \in SUBSET AnyName : b = ToolUse(id, name, input)
        BY <1>2
    <2>2. b.type = "tool_use" /\ b.id = id /\ b.name = name /\ b.input = input
        BY <2>1 DEF ToolUse
    <2>3. BlockEvents(index, b)[2].block = ToolUse(NoId, "", input) /\ Announced(b) = ToolUse(id, name, {})
        BY <2>2 DEF BlockEvents, Announced, Event
    <2>4. /\ ToolUse(NoId, "", input).type = "tool_use" /\ ToolUse(NoId, "", input).input = input
          /\ ToolUse(id, name, {}).type = "tool_use" /\ ToolUse(id, name, {}).id = id
          /\ ToolUse(id, name, {}).name = name /\ ToolUse(id, name, {}).input = {}
        BY DEF ToolUse
    <2>5. {} \cup input = input
        OBVIOUS
    <2>6. Filled(Announced(b), BlockEvents(index, b)[2].block) = ToolUse(id, name, input)
        BY <2>3, <2>4, <2>5 DEF Filled
    <2>7. QED
        BY <2>1, <2>3, <2>4, <2>6
<1>3. QED
    BY <1>1, <1>2 DEF Tellable

\* Whatever comes next of the stream is what the client expects, and brings it
\* one event further (ClientAfter).
LEMMA ReadStep ==
    ASSUME NEW blocks \in Seq(Tellable), NEW p \in 1 .. Len(StreamOf(blocks)), ReadUpTo(blocks, p, client)
    PROVE  ReadUpTo(blocks, p + 1, ClientAfter(StreamOf(blocks)[p]))
<1> DEFINE n == Len(blocks)
           stream == StreamOf(blocks)
           e == stream[p]
<1>1. n \in Nat /\ DOMAIN blocks = 1 .. n
    OBVIOUS
<1>2. /\ Len(stream) = 3 * n + 3
      /\ stream[1] = Event("message_start", 0, NoBlock)
      /\ \A k \in 1 .. n : /\ stream[3 * k - 1] = BlockEvents(k - 1, blocks[k])[1]
                           /\ stream[3 * k] = BlockEvents(k - 1, blocks[k])[2]
                           /\ stream[3 * k + 1] = BlockEvents(k - 1, blocks[k])[3]
      /\ stream[3 * n + 2] = Event("message_delta", 0, NoBlock)
      /\ stream[3 * n + 3] = Event("message_stop", 0, NoBlock)
    BY StreamEvents
<1> HIDE DEF stream
<1>3. ASSUME p = 1, client = Waiting
      PROVE  ReadUpTo(blocks, p + 1, ClientAfter(e))
    <2>1. e.type = "message_start" /\ client.phase = "waiting"
        <3>1. e = Event("message_start", 0, NoBlock)
            BY <1>2, <1>3
        <3> HIDE DEF e
        <3>2. QED
            BY <1>3, <3>1 DEF Event, Waiting
    <2>2. ClientAfter(e) = [client EXCEPT !.phase = "message"]
        BY <2>1 DEF ClientAfter
    <2>3. SubSeq(blocks, 1, 1 - 1) = <<>>
        OBVIOUS
    <2>4. ClientAfter(e) = Reading("message", SubSeq(blocks, 1, 1 - 1))
        BY <1>3, <2>2, <2>3 DEF Waiting, Reading
    <2>5. 1 \in 1 .. n + 1 /\ p + 1 = 3 * 1 - 1
        BY <1>1, <1>3
    <2>6. QED
        BY <2>4, <2>5 DEF ReadUpTo
<1>4. ASSUME NEW k \in 1 .. n + 1, p = 3 * k - 1, client = Reading("message", SubSeq(blocks, 1, k - 1))
      PROVE  ReadUpTo(blocks, p + 1, ClientAfter(e))
    <2>1. CASE k = n + 1
        <3>1. e.type = "message_delta" /\ client.phase = "message"
            <4>1. p = 3 * n + 2
                BY <1>1, <1>4, <2>1
            <4>2. e = Event("message_delta", 0, NoBlock)
                BY <1>2, <4>1
            <4> HIDE DEF e
            <4>3. QED
                BY <1>4, <4>2 DEF Event, Reading
        <3>2. ClientAfter(e) = [client EXCEPT !.phase = "closing", !.stop = "tool_use"]
            BY <3>1 DEF ClientAfter
        <3>3. SubSeq(blocks, 1, k - 1) = blocks
            <4>1. k - 1 = Len(blocks)
                BY <2>1
            <4>2. QED
                BY <4>1, SubSeqFull
        <3>4. p + 1 = 3 * n + 3
            BY <1>1, <1>4, <2>1
        <3>5. QED
            BY <1>4, <3>2, <3>3, <3>4 DEF ReadUpTo, Reading
    <2>2. CASE k # n + 1
        <3>1. k \in 1 .. n
            BY <1>1, <2>2
        <3>2. e = BlockEvents(k - 1, blocks[k])[1]
            BY <1>2, <1>4, <3>1
        <3>3. e.type = "content_block_start" /\ e.index = k - 1 /\ e.block = Announced(blocks[k])
            BY <3>2 DEF BlockEvents, Event, Announced
        <3>4. client.phase = "message" /\ Len(client.blocks) = k - 1
            <4>1. Len(SubSeq(blocks, 1, k - 1)) = k - 1
                BY <1>1, <3>1
            <4>2. client.phase = "message" /\ client.blocks = SubSeq(blocks, 1, k - 1)
                BY <1>4 DEF Reading
            <4>3. QED
                BY <4>1, <4>2
        <3>5. ClientAfter(e) = [client EXCEPT !.phase = "block", !.blocks = Append(@, e.block)]
            BY <3>3, <3>4 DEF ClientAfter
        <3>6. p + 1 = 3 * k
            BY <1>4
        <3>7. ClientAfter(e) = Reading("block", Append(SubSeq(blocks, 1, k - 1), Announced(blocks[k])))
            BY <1>4, <3>3, <3>5 DEF Reading
        <3>8. QED
            BY <3>1, <3>6, <3>7 DEF ReadUpTo
    <2>3. QED
        BY <2>1, <2>2
<1>5. ASSUME NEW k \in 1 .. n, p = 3 * k,
             client = Reading("block", Append(SubSeq(blocks, 1, k - 1), Announced(blocks[k])))
      PROVE  ReadUpTo(blocks, p + 1, ClientAfter(e))
    <2> DEFINE before == SubSeq(blocks, 1, k - 1)
               open == Announced(blocks[k])
    <2>1. before \in Seq(Tellable) /\ Len(before) = k - 1 /\ blocks[k] \in Tellable
        BY <1>1
    <2>2. e = BlockEvents(k - 1, blocks[k])[2]
        BY <1>2, <1>5
    <2>3. e.type = "content_block_delta" /\ e.index = k - 1
        <3> HIDE DEF e
        <3>1. QED
            BY <2>2 DEF BlockEvents, Event
    <2>4. open \in Tellable
        <3>1. <<>> \in AnyText
            BY EmptySeq DEF AnyText
        <3>2. CASE blocks[k].type = "text"
            BY <3>1, <3>2, TextBlockType DEF Announced
        <3>3. CASE blocks[k].type # "text"
            <4>1. \A text : TextBlock(text).type = "text"
                BY DEF TextBlock
            <4>2. PICK id \in AnyId, name \in AnyName, input \in SUBSET AnyName :
                        blocks[k] = ToolUse(id, name, input)
                BY <2>1, <3>3, <4>1 DEF Tellable
            <4>3. blocks[k].id = id /\ blocks[k].name = name
                BY <4>2 DEF ToolUse
            <4>4. open = ToolUse(id, name, {})
                BY <3>3, <4>3 DEF Announced
            <4>5. {} \in SUBSET AnyName
                OBVIOUS
            <4>6. QED
                BY <4>4, <4>5, ToolUseType
        <3>4. QED
            BY <3>2, <3>3
    <2>5. /\ e.block.type = open.type
          /\ Filled(open, e.block) = blocks[k]
        <3>1. k - 1 \in Nat
            BY <1>1
        <3> DEFINE delta == BlockEvents(k - 1, blocks[k])[2].block
        <3>2. /\ delta.type = Announced(blocks[k]).type
              /\ Filled(Announced(blocks[k]), delta) = blocks[k]
            BY <2>1, <3>1, FilledBlock
        <3>3. e.block = delta
            BY <2>2
        <3> HIDE DEF delta, e
        <3>4. QED
            BY <3>2, <3>3
    <2>6. client.phase = "block" /\ client.blocks = Append(before, open) /\ client.stop = ""
        BY <1>5 DEF Reading
    <2> HIDE DEF before, open, e
    <2>7. Len(Append(before, open)) = k /\ Last(Append(before, open)) = open
        BY <1>1, <2>1, <2>4, AppendProperties DEF Last
    <2>8. ReplaceAt(Append(before, open), k, blocks[k]) = SubSeq(blocks, 1, k)
        <3>1. /\ Append(before, open) \in Seq(Tellable) /\ k \in 1 .. Len(Append(before, open))
            BY <1>1, <2>1, <2>4, <2>7, AppendProperties
        <3>2. /\ ReplaceAt(Append(before, open), k, blocks[k]) \in Seq(Tellable)
              /\ Len(ReplaceAt(Append(before, open), k, blocks[k])) = k
              /\ \A j \in 1 .. k : ReplaceAt(Append(before, open), k, blocks[k])[j] =
                                    IF j = k THEN blocks[k] ELSE Append(before, open)[j]
            <4> DEFINE s == Append(before, open)
            <4>1. s \in Seq(Tellable) /\ k \in 1 .. Len(s) /\ Len(s) = k /\ blocks[k] \in Tellable
                BY <2>1, <2>7, <3>1
            <4> HIDE DEF s
            <4>2. /\ [s EXCEPT ![k] = blocks[k]] \in Seq(Tellable)
                  /\ Len([s EXCEPT ![k] = blocks[k]]) = Len(s)
                  /\ \A j \in 1 .. Len(s) : [s EXCEPT ![k] = blocks[k]][j] = IF j = k THEN blocks[k] ELSE s[j]
                BY <4>1, ExceptSeq
            <4>3. QED
                BY <4>1, <4>2 DEF ReplaceAt, s
        <3>3. \A j \in 1 .. k : j # k => Append(before, open)[j] = blocks[j]
            <4>1. \A j \in 1 .. k - 1 : Append(before, open)[j] = before[j]
                BY <2>1, <2>4, AppendProperties
            <4>2. \A j \in 1 .. k - 1 : before[j] = blocks[j]
                BY <1>1 DEF before
            <4>3. \A j \in 1 .. k : j # k => j \in 1 .. k - 1
                BY <1>1
            <4>4. QED
                BY <4>1, <4>2, <4>3
        <3>4. /\ SubSeq(blocks, 1, k) \in Seq(Tellable) /\ Len(SubSeq(blocks, 1, k)) = k
              /\ \A j \in 1 .. k : SubSeq(blocks, 1, k)[j] = blocks[j]
            BY <1>1
        <3> DEFINE l == ReplaceAt(Append(before, open), k, blocks[k])
                   r == SubSeq(blocks, 1, k)
        <3>5. \A j \in 1 .. k : l[j] = r[j]
            BY <3>2, <3>3, <3>4
        <3> HIDE DEF l, r
        <3>6. l \in Seq(Tellable) /\ r \in Seq(Tellable) /\ Len(l) = k /\ Len(r) = k
            BY <3>2, <3>4 DEF l, r
        <3>7. l = r
            BY <3>5, <3>6, SeqEqual
        <3>8. QED
            BY <3>7 DEF l, r
    <2>9. Last(client.blocks) = open /\ Len(client.blocks) = k
        BY <2>6, <2>7
    <2>10. ClientAfter(e) = [client EXCEPT !.blocks = ReplaceAt(@, Len(@), blocks[k])]
        <3>1. e.index = Len(client.blocks) - 1 /\ e.block.type = Last(client.blocks).type
            BY <2>3, <2>5, <2>9
        <3>2. Filled(Last(client.blocks), e.block) = blocks[k]
            BY <2>5, <2>9
        <3>3. QED
            BY <2>3, <2>6, <3>1, <3>2 DEF ClientAfter, Filled
    <2>11. ClientAfter(e) = Reading("block", SubSeq(blocks, 1, k))
        BY <1>5, <2>6, <2>7, <2>8, <2>10 DEF Reading
    <2>12. QED
        BY <1>5, <2>11 DEF ReadUpTo
<1>6. ASSUME NEW k \in 1 .. n, p = 3 * k + 1, client = Reading("block", SubSeq(blocks, 1, k))
      PROVE  ReadUpTo(blocks, p + 1, ClientAfter(e))
    <2>1. e = BlockEvents(k - 1, blocks[k])[3]
        BY <1>2, <1>6
    <2>2. e.type = "content_block_stop" /\ e.index = k - 1
        BY <2>1 DEF BlockEvents, Event
    <2>3. client.phase = "block" /\ Len(client.blocks) = k
        <3>1. Len(SubSeq(blocks, 1, k)) = k
            BY <1>1
        <3>2. client.phase = "block" /\ client.blocks = SubSeq(blocks, 1, k)
            BY <1>6 DEF Reading
        <3>3. QED
            BY <3>1, <3>2
    <2>4. ClientAfter(e) = [client EXCEPT !.phase = "message"]
        BY <2>2, <2>3 DEF ClientAfter
    <2>5. k + 1 \in 1 .. n + 1 /\ p + 1 = 3 * (k + 1) - 1 /\ (k + 1) - 1 = k
        BY <1>1, <1>6
    <2>6. ClientAfter(e) = Reading("message", SubSeq(blocks, 1, (k + 1) - 1))
        BY <1>6, <2>4, <2>5 DEF Reading
    <2>7. QED
        BY <2>5, <2>6 DEF ReadUpTo
<1>7. ASSUME p = 3 * n + 3, client = [phase |-> "closing", blocks |-> blocks, stop |-> "tool_use"]
      PROVE  ReadUpTo(blocks, p + 1, ClientAfter(e))
    <2>1. e.type = "message_stop" /\ client.phase = "closing"
        <3>1. e = Event("message_stop", 0, NoBlock)
            BY <1>2, <1>7
        <3> HIDE DEF e
        <3>2. QED
            BY <1>7, <3>1 DEF Event
    <2>2. ClientAfter(e) = [client EXCEPT !.phase = "ended"]
        BY <2>1 DEF ClientAfter
    <2>3. p + 1 = 3 * n + 4
        BY <1>1, <1>7
    <2>4. ClientAfter(e) = Whole(blocks, "tool_use")
        BY <1>7, <2>2 DEF Whole
    <2>5. QED
        BY <2>3, <2>4 DEF ReadUpTo
<1>8. p # 3 * n + 4
    <2>1. p \in 1 .. 3 * n + 3
        BY <1>2 DEF stream
    <2>2. QED
        BY <1>1, <2>1
<1>9. \/ p = 1 /\ client = Waiting
      \/ \E k \in 1 .. n + 1 : p = 3 * k - 1 /\ client = Reading("message", SubSeq(blocks, 1, k - 1))
      \/ \E k \in 1 .. n : p = 3 * k /\ client = Reading("block", Append(SubSeq(blocks, 1, k - 1), Announced(blocks[k])))
      \/ \E k \in 1 .. n : p = 3 * k + 1 /\ client = Reading("block", SubSeq(blocks, 1, k))
      \/ p = 3 * n + 3 /\ client = [phase |-> "closing", blocks |-> blocks, stop |-> "tool_use"]
    <2> HIDE DEF e
    <2>1. QED
        BY <1>8, Zenon DEF ReadUpTo
<1> HIDE DEF e, n
<1>10. ReadUpTo(blocks, p + 1, ClientAfter(e))
    BY <1>3, <1>4, <1>5, <1>6, <1>7, <1>9, Zenon
<1>11. QED
    BY <1>10 DEF e, stream

-----------------------------------------------------------------------------
(* The invariant                                                           *)

\* What the client has read so far of what ServeHTTP made of the answer.
Delivered ==
    LET rewritten == RewriteClaudeStreamDSML(content, form, cut)
        blocks == StreamBlocks(content, form)
        stream == StreamOf(blocks)
    IN  IF ~isStream
        THEN sent = <<>> /\ client = Whole(RewriteClaudeMessageDSML(content), MessageStop(content))
        ELSE IF rewritten.kind # "events"
        THEN sent = <<>> /\ client = Whole(content, UpstreamStop(content))
        ELSE \E p \in 1 .. Len(stream) + 1 :
                sent = SubSeq(stream, p, Len(stream)) /\ ReadUpTo(blocks, p, client)

AnswerInv ==
    /\ content \in Seq(AnyBlock)
    /\ form = "unsent" => sent = <<>> /\ client = Waiting
    /\ form # "unsent" => Delivered

\* Writing a fragment keeps the invariant.
LEMMA SayKeeps ==
    ASSUME NEW fragment \in Fragments, AnswerInv, Say(fragment)
    PROVE  AnswerInv'
<1>1. /\ form = "unsent" /\ content # <<>>
      /\ content' = ReplaceAt(content, Len(content), TextBlock(Last(content).text \o fragment))
      /\ UNCHANGED <<isStream, form, cut, sent, client>>
    BY DEF Say
<1>2. content \in Seq(AnyBlock) /\ Len(content) \in 1 .. Len(content)
    BY <1>1, EmptySeq DEF AnswerInv
<1>3. Last(content).text \in AnyText
    BY <1>2, ElementOfSeq, BlockText DEF Last
<1>4. fragment \in AnyText
    <2>1. fragment \in Seq(Token)
        BY AnswerAssumption
    <2>2. \A t \in Token : t \in AnyToken
        BY DEF Token, AnyToken, AnyName
    <2> QED
        BY <2>1, <2>2 DEF AnyText
<1>5. TextBlock(Last(content).text \o fragment) \in AnyBlock
    <2>1. Last(content).text \o fragment \in AnyText
        BY <1>3, <1>4, ConcatProperties DEF AnyText
    <2>2. QED
        BY <2>1, TextBlockType
<1>6. content' \in Seq(AnyBlock)
    BY <1>1, <1>2, <1>5, ExceptSeq DEF ReplaceAt
<1>7. QED
    BY <1>1, <1>6 DEF AnswerInv

\* Beginning a block keeps the invariant.
LEMMA BeginKeeps ==
    ASSUME AnswerInv, NEW block \in {NoBlock, Thinking, Native(Len(content) + 1)}, BeginBlock(block)
    PROVE  AnswerInv'
<1>1. /\ form = "unsent" /\ content' = Append(content, block)
      /\ UNCHANGED <<isStream, form, cut, sent, client>>
    BY DEF BeginBlock
<1>2. content \in Seq(AnyBlock)
    BY DEF AnswerInv
<1>3. Native(Len(content) + 1) \in AnyBlock
    <2>1. Len(content) + 1 \in Nat
        BY <1>2, LenProperties
    <2>2. Id("toolu", Len(content) + 1) \in AnyId
        BY <2>1 DEF AnyId
    <2>3. Native(Len(content) + 1) = ToolUse(Id("toolu", Len(content) + 1), "Read", {"file_path"})
        BY DEF Native
    <2>4. "Read" \in AnyName /\ {"file_path"} \in SUBSET AnyName
        BY DEF AnyName
    <2>5. QED
        BY <2>2, <2>3, <2>4, ToolUseType
<1>4. block \in AnyBlock
    BY <1>3, NoBlockType DEF AnyBlock
<1>5. content' \in Seq(AnyBlock)
    BY <1>1, <1>2, <1>4, AppendProperties
<1>6. QED
    BY <1>1, <1>5 DEF AnswerInv

\* The end of ServeHTTP: nothing of the stream is read yet.
LEMMA DeliverKeeps ==
    ASSUME AnswerInv, NEW f \in Forms, NEW c \in Cuts, Deliver(f, c)
    PROVE  AnswerInv'
<1>1. /\ form = "unsent" /\ form' = f /\ cut' = c /\ content' = content /\ isStream' = isStream
    BY DEF Deliver
<1>2. content \in Seq(AnyBlock) /\ sent = <<>> /\ client = Waiting
    BY <1>1 DEF AnswerInv
<1>3. f # "unsent"
    BY DEF Forms
<1>4. Raw.kind # "events"
    BY DEF Raw
<1>5. CASE ~isStream
    <2>1. client' = Whole(RewriteClaudeMessageDSML(content), MessageStop(content)) /\ sent' = sent
        BY <1>5 DEF Deliver
    <2>2. Delivered'
        BY <1>1, <1>2, <1>5, <2>1 DEF Delivered, Whole, MessageStop, UpstreamStop
    <2>3. QED
        BY <1>1, <1>2, <1>3, <2>2 DEF AnswerInv
<1>6. CASE isStream /\ RewriteClaudeStreamDSML(content, f, c).kind # "events"
    <2>1. client' = Whole(content, UpstreamStop(content)) /\ sent' = sent
        BY <1>6 DEF Deliver
    <2>2. Delivered'
        BY <1>1, <1>2, <1>6, <2>1 DEF Delivered
    <2>3. QED
        BY <1>1, <1>2, <1>3, <2>2 DEF AnswerInv
<1>7. CASE isStream /\ RewriteClaudeStreamDSML(content, f, c).kind = "events"
    <2> DEFINE blocks == StreamBlocks(content, f)
               stream == StreamOf(blocks)
    <2>1. sent' = RewriteClaudeStreamDSML(content, f, c).events /\ client' = client
        BY <1>7 DEF Deliver
    <2>2. blocks \in Seq(Tellable) /\ RewriteClaudeStreamDSML(content, f, c).events = stream
        BY <1>2, <1>7, RewrittenStream
    <2>3. stream \in Seq(AnyEvent) /\ Len(stream) \in Nat
        BY <2>2, StreamEvents, LenProperties
    <2>4. sent' = SubSeq(stream, 1, Len(stream)) /\ 1 \in 1 .. Len(stream) + 1
        BY <2>1, <2>2, <2>3, SubSeqFull
    <2>5. ReadUpTo(blocks, 1, client')
        BY <1>2, <2>1 DEF ReadUpTo
    <2>6. Delivered'
        <3> HIDE DEF blocks, stream
        <3>1. \E p \in 1 .. Len(stream) + 1 :
                sent' = SubSeq(stream, p, Len(stream)) /\ ReadUpTo(blocks, p, client')
            BY <2>4, <2>5
        <3>2. QED
            BY <1>1, <1>7, <3>1 DEF Delivered, blocks, stream
    <2>7. QED
        BY <1>1, <1>2, <1>3, <2>6 DEF AnswerInv
<1>8. QED
    BY <1>5, <1>6, <1>7 DEF Deliver

\* The client takes one more event of the stream.
LEMMA ReceiveKeeps ==
    ASSUME AnswerInv, Receive
    PROVE  AnswerInv'
<1>1. /\ sent # <<>> /\ client' = ClientAfter(Head(sent)) /\ sent' = Tail(sent)
      /\ UNCHANGED <<isStream, content, form, cut>>
    BY DEF Receive
<1>2. content \in Seq(AnyBlock) /\ form # "unsent" /\ Delivered
    BY <1>1 DEF AnswerInv
<1> DEFINE blocks == StreamBlocks(content, form)
           stream == StreamOf(blocks)
<1>3. isStream /\ RewriteClaudeStreamDSML(content, form, cut).kind = "events"
    BY <1>1, <1>2 DEF Delivered
<1>4. PICK p \in 1 .. Len(stream) + 1 : sent = SubSeq(stream, p, Len(stream)) /\ ReadUpTo(blocks, p, client)
    BY <1>2, <1>3 DEF Delivered
<1>5. blocks \in Seq(Tellable)
    BY <1>2, <1>3, RewrittenStream
<1>6. stream \in Seq(AnyEvent) /\ Len(stream) \in Nat
    BY <1>5, StreamEvents, LenProperties
<1> HIDE DEF blocks, stream
<1>7. p \in 1 .. Len(stream)
    <2>1. CASE p = Len(stream) + 1
        <3>1. SubSeq(stream, p, Len(stream)) = <<>>
            BY <1>6, <2>1, SubSeqEmpty
        <3>2. QED
            BY <1>1, <1>4, <3>1
    <2>2. CASE p # Len(stream) + 1
        BY <1>6, <2>2
    <2>3. QED
        BY <2>1, <2>2
<1>8. Head(sent) = stream[p] /\ sent' = SubSeq(stream, p + 1, Len(stream))
    <2>1. Len(stream) \in p .. Len(stream)
        BY <1>6, <1>7
    <2>2. QED
        BY <1>1, <1>4, <1>6, <1>7, <2>1, HeadTailOfSubSeq
<1>9. ReadUpTo(blocks, p + 1, client')
    <2>1. ReadUpTo(blocks, p + 1, ClientAfter(stream[p]))
        BY <1>4, <1>5, <1>7, ReadStep DEF stream
    <2>2. QED
        BY <1>1, <1>8, <2>1
<1>10. Delivered'
    <2>1. p + 1 \in 1 .. Len(stream) + 1
        BY <1>6, <1>7
    <2>2. \E q \in 1 .. Len(stream) + 1 : sent' = SubSeq(stream, q, Len(stream)) /\ ReadUpTo(blocks, q, client')
        BY <1>8, <1>9, <2>1
    <2>3. QED
        BY <1>1, <1>3, <2>2 DEF Delivered, blocks, stream
<1>11. QED
    BY <1>1, <1>2, <1>10 DEF AnswerInv

\* What the client has of a stream is at every moment what the events that were
\* sent add up to.
THEOREM AnswerAlways == Spec => []AnswerInv
<1>1. Init => AnswerInv
    BY EmptySeq DEF Init, AnswerInv
<1>2. AnswerInv /\ [Next]_vars => AnswerInv'
    <2> SUFFICES ASSUME AnswerInv, [Next]_vars PROVE AnswerInv'
        OBVIOUS
    <2>1. ASSUME NEW fragment \in Fragments, Say(fragment) PROVE AnswerInv'
        BY <2>1, SayKeeps
    <2>2. ASSUME NEW block \in {NoBlock, Thinking, Native(Len(content) + 1)}, BeginBlock(block)
          PROVE  AnswerInv'
        BY <2>2, BeginKeeps
    <2>3. ASSUME NEW f \in Forms, NEW c \in Cuts, Deliver(f, c) PROVE AnswerInv'
        BY <2>3, DeliverKeeps
    <2>4. CASE Receive
        BY <2>4, ReceiveKeeps
    <2>5. CASE UNCHANGED vars
        BY <2>5 DEF vars, AnswerInv, Delivered, MessageStop, UpstreamStop
    <2>6. QED
        BY <2>1, <2>2, <2>3, <2>4, <2>5 DEF Next
<1>3. QED
    BY <1>1, <1>2, PTL DEF Spec

-----------------------------------------------------------------------------
(* The promises                                                            *)

\* Where a client is in a stream shows in its phase.
LEMMA PhaseOfPlace ==
    ASSUME NEW blocks \in Seq(Tellable), NEW p \in Nat, NEW c, ReadUpTo(blocks, p, c)
    PROVE  /\ c.phase # "broken"
           /\ p = Len(StreamOf(blocks)) + 1 => c.phase = "ended"
           /\ c.phase = "ended" => c = Whole(blocks, "tool_use")
<1> DEFINE n == Len(blocks)
<1>1. n \in Nat /\ Len(StreamOf(blocks)) = 3 * n + 3
    BY StreamEvents
<1> HIDE DEF n
<1>2. ASSUME NEW k \in 1 .. n + 1, p = 3 * k - 1, c = Reading("message", SubSeq(blocks, 1, k - 1))
      PROVE  c.phase # "broken" /\ c.phase # "ended" /\ p # 3 * n + 4
    <2>1. c.phase # "broken" /\ c.phase # "ended"
        BY <1>2 DEF Reading
    <2>2. k <= n + 1 /\ k \in Nat
        BY <1>1
    <2>3. p # 3 * n + 4
        BY <1>1, <1>2, <2>2
    <2>4. QED
        BY <2>1, <2>3
<1>3. ASSUME NEW k \in 1 .. n, p = 3 * k,
             c = Reading("block", Append(SubSeq(blocks, 1, k - 1), Announced(blocks[k])))
      PROVE  c.phase # "broken" /\ c.phase # "ended" /\ p # 3 * n + 4
    <2>1. c.phase # "broken" /\ c.phase # "ended"
        BY <1>3 DEF Reading
    <2>2. k <= n /\ k \in Nat
        BY <1>1
    <2>3. p # 3 * n + 4
        BY <1>1, <1>3, <2>2
    <2>4. QED
        BY <2>1, <2>3
<1>4. ASSUME NEW k \in 1 .. n, p = 3 * k + 1, c = Reading("block", SubSeq(blocks, 1, k))
      PROVE  c.phase # "broken" /\ c.phase # "ended" /\ p # 3 * n + 4
    <2>1. c.phase # "broken" /\ c.phase # "ended"
        BY <1>4 DEF Reading
    <2>2. k <= n /\ k \in Nat
        BY <1>1
    <2>3. p # 3 * n + 4
        BY <1>1, <1>4, <2>2
    <2>4. QED
        BY <2>1, <2>3
<1>5. \/ p = 1 /\ c = Waiting
      \/ \E k \in 1 .. n + 1 : p = 3 * k - 1 /\ c = Reading("message", SubSeq(blocks, 1, k - 1))
      \/ \E k \in 1 .. n : p = 3 * k /\ c = Reading("block", Append(SubSeq(blocks, 1, k - 1), Announced(blocks[k])))
      \/ \E k \in 1 .. n : p = 3 * k + 1 /\ c = Reading("block", SubSeq(blocks, 1, k))
      \/ p = 3 * n + 3 /\ c = [phase |-> "closing", blocks |-> blocks, stop |-> "tool_use"]
      \/ p = 3 * n + 4 /\ c = Whole(blocks, "tool_use")
    BY Zenon DEF ReadUpTo, n
<1>6. p = 1 /\ c = Waiting => c.phase # "broken" /\ c.phase # "ended" /\ p # 3 * n + 4
    <2>1. Waiting.phase # "broken" /\ Waiting.phase # "ended"
        BY DEF Waiting
    <2>2. 1 # 3 * n + 4
        BY <1>1
    <2>3. QED
        BY <2>1, <2>2
<1>7. p = 3 * n + 3 /\ c = [phase |-> "closing", blocks |-> blocks, stop |-> "tool_use"]
        => c.phase # "broken" /\ c.phase # "ended" /\ p # 3 * n + 4
    BY <1>1
<1>8. c = Whole(blocks, "tool_use") => c.phase = "ended" /\ c.phase # "broken"
    BY DEF Whole
<1>9. \/ c.phase # "broken" /\ c.phase # "ended" /\ p # 3 * n + 4
      \/ c = Whole(blocks, "tool_use")
    <2>1. CASE \E k \in 1 .. n + 1 : p = 3 * k - 1 /\ c = Reading("message", SubSeq(blocks, 1, k - 1))
        BY <1>2, <2>1, Zenon
    <2>2. CASE \E k \in 1 .. n : p = 3 * k /\ c = Reading("block", Append(SubSeq(blocks, 1, k - 1), Announced(blocks[k])))
        BY <1>3, <2>2, Zenon
    <2>3. CASE \E k \in 1 .. n : p = 3 * k + 1 /\ c = Reading("block", SubSeq(blocks, 1, k))
        BY <1>4, <2>3, Zenon
    <2>4. QED
        BY <1>5, <1>6, <1>7, <2>1, <2>2, <2>3, Zenon
<1>10. QED
    BY <1>1, <1>8, <1>9

\* A stream the gateway writes can be read to its end, whatever blocks it is
\* made of (synthesizeToolUseSSE).
THEOREM StreamsAreWellFormed == Spec => []StreamIsWellFormed
<1>1. AnswerInv => StreamIsWellFormed
    <2> SUFFICES ASSUME AnswerInv PROVE StreamIsWellFormed
        OBVIOUS
    <2>1. Waiting.phase = "waiting" /\ \A blocks, stop : Whole(blocks, stop).phase = "ended"
        BY DEF Waiting, Whole
    <2>2. CASE form = "unsent"
        BY <2>1, <2>2 DEF AnswerInv, StreamIsWellFormed
    <2>3. CASE form # "unsent" /\ (~isStream \/ RewriteClaudeStreamDSML(content, form, cut).kind # "events")
        BY <2>1, <2>3 DEF AnswerInv, Delivered, StreamIsWellFormed
    <2>4. CASE form # "unsent" /\ isStream /\ RewriteClaudeStreamDSML(content, form, cut).kind = "events"
        <3> DEFINE blocks == StreamBlocks(content, form)
                   stream == StreamOf(blocks)
        <3>1. PICK p \in 1 .. Len(stream) + 1 :
                sent = SubSeq(stream, p, Len(stream)) /\ ReadUpTo(blocks, p, client)
            BY <2>4 DEF AnswerInv, Delivered
        <3>2. blocks \in Seq(Tellable)
            BY <2>4, RewrittenStream DEF AnswerInv
        <3>3. stream \in Seq(AnyEvent) /\ Len(stream) \in Nat
            BY <3>2, StreamEvents, LenProperties
        <3>4. /\ client.phase # "broken"
              /\ p = Len(stream) + 1 => client.phase = "ended"
            BY <3>1, <3>2, <3>3, PhaseOfPlace
        <3>5. p # Len(stream) + 1 => sent # <<>>
            <4> HIDE DEF stream, blocks
            <4>1. p # Len(stream) + 1 => p \in 1 .. Len(stream)
                BY <3>3
            <4>2. p \in 1 .. Len(stream) => Len(SubSeq(stream, p, Len(stream))) = Len(stream) - p + 1
                BY <3>3
            <4>3. p \in 1 .. Len(stream) => Len(stream) - p + 1 # 0
                BY <3>3
            <4>4. Len(<<>>) = 0
                OBVIOUS
            <4>5. QED
                BY <3>1, <4>1, <4>2, <4>3, <4>4
        <3>6. QED
            BY <3>4, <3>5 DEF StreamIsWellFormed
    <2>5. QED
        BY <2>2, <2>3, <2>4
<1>2. QED
    BY <1>1, AnswerAlways, PTL

\* A client that has read its answer to the end was told that it stopped for
\* calls exactly when it has some (MessageStop, synthesizeToolUseSSE).
THEOREM StopsAnnounceCalls == Spec => []StopAnnouncesCalls
<1>1. AnswerInv => StopAnnouncesCalls
    <2> SUFFICES ASSUME AnswerInv, HasEnded
                 PROVE  client.stop = "tool_use" <=> \E i \in DOMAIN client.blocks : client.blocks[i].type = "tool_use"
        BY DEF StopAnnouncesCalls
    <2>1. form # "unsent"
        <3>1. Waiting.phase # "ended" /\ client.phase = "ended"
            BY DEF HasEnded, Waiting
        <3>2. QED
            BY <3>1 DEF AnswerInv
    <2>2. content \in Seq(AnyBlock)
        BY DEF AnswerInv
    <2>3. \A blocks, stop : Whole(blocks, stop).blocks = blocks /\ Whole(blocks, stop).stop = stop
        BY DEF Whole
    <2>4. UpstreamStop(content) = "tool_use" <=> \E i \in DOMAIN content : content[i].type = "tool_use"
        BY DEF UpstreamStop
    <2>5. CASE ~isStream
        <3>1. client = Whole(RewriteClaudeMessageDSML(content), MessageStop(content))
            BY <2>1, <2>5 DEF AnswerInv, Delivered
        <3>2. CASE RewriteClaudeMessageDSML(content) = content
            <4>1. MessageStop(content) = UpstreamStop(content)
                BY <3>2 DEF MessageStop
            <4>2. QED
                BY <2>3, <2>4, <3>1, <3>2, <4>1
        <3>3. CASE RewriteClaudeMessageDSML(content) # content
            <4>1. MessageStop(content) = "tool_use"
                BY <3>3 DEF MessageStop
            <4>2. \E i \in DOMAIN RewriteClaudeMessageDSML(content) :
                        RewriteClaudeMessageDSML(content)[i].type = "tool_use"
                BY <2>2, <3>3, RewrittenHasCalls
            <4>3. QED
                BY <2>3, <3>1, <4>1, <4>2
        <3>4. QED
            BY <3>2, <3>3
    <2>6. CASE isStream /\ RewriteClaudeStreamDSML(content, form, cut).kind # "events"
        <3>1. client = Whole(content, UpstreamStop(content))
            BY <2>1, <2>6 DEF AnswerInv, Delivered
        <3>2. QED
            BY <2>3, <2>4, <3>1
    <2>7. CASE isStream /\ RewriteClaudeStreamDSML(content, form, cut).kind = "events"
        <3> DEFINE blocks == StreamBlocks(content, form)
        <3>1. blocks \in Seq(Tellable) /\ \E i \in DOMAIN blocks : blocks[i].type = "tool_use"
            BY <2>2, <2>7, RewrittenStream
        <3>2. Len(StreamOf(blocks)) \in Nat
            BY <3>1, StreamEvents, LenProperties
        <3>3. PICK p \in 1 .. Len(StreamOf(blocks)) + 1 : ReadUpTo(blocks, p, client)
            BY <2>1, <2>7 DEF AnswerInv, Delivered
        <3>4. client = Whole(blocks, "tool_use")
            <4>1. p \in Nat
                BY <3>2
            <4>2. QED
                BY <3>1, <3>3, <4>1, PhaseOfPlace DEF HasEnded
        <3>5. QED
            BY <2>3, <3>1, <3>4
    <2>8. QED
        BY <2>5, <2>6, <2>7
<1>2. QED
    BY <1>1, AnswerAlways, PTL

-----------------------------------------------------------------------------
(* What the client ends up with                                            *)

\* The client of a stream that was rewritten has read the blocks it is made of.
LEMMA StreamRead ==
    ASSUME AnswerInv, HasEnded
    PROVE  /\ form # "unsent" /\ content \in Seq(AnyBlock)
           /\ ~isStream => client = Whole(RewriteClaudeMessageDSML(content), MessageStop(content))
           /\ isStream /\ RewriteClaudeStreamDSML(content, form, cut).kind # "events"
                => client = Whole(content, UpstreamStop(content))
           /\ isStream /\ RewriteClaudeStreamDSML(content, form, cut).kind = "events"
                => client = Whole(StreamBlocks(content, form), "tool_use")
<1>1. form # "unsent"
    <2>1. Waiting.phase # "ended" /\ client.phase = "ended"
        BY DEF HasEnded, Waiting
    <2>2. QED
        BY <2>1 DEF AnswerInv
<1>2. content \in Seq(AnyBlock) /\ Delivered
    BY <1>1 DEF AnswerInv
<1>3. ASSUME isStream, RewriteClaudeStreamDSML(content, form, cut).kind = "events"
      PROVE  client = Whole(StreamBlocks(content, form), "tool_use")
    <2> DEFINE blocks == StreamBlocks(content, form)
    <2>1. blocks \in Seq(Tellable)
        BY <1>2, <1>3, RewrittenStream
    <2>2. Len(StreamOf(blocks)) \in Nat
        BY <2>1, StreamEvents, LenProperties
    <2>3. PICK p \in 1 .. Len(StreamOf(blocks)) + 1 : ReadUpTo(blocks, p, client)
        BY <1>2, <1>3 DEF Delivered
    <2>4. p \in Nat
        BY <2>2
    <2>5. QED
        BY <2>1, <2>3, <2>4, PhaseOfPlace DEF HasEnded
<1>4. QED
    BY <1>1, <1>2, <1>3 DEF Delivered

\* What comes of an answer is in one of the forms.
LEMMA FormAlways == Spec => [](form \in Forms \cup {"unsent"})
<1>1. Init => form \in Forms \cup {"unsent"}
    BY DEF Init
<1>2. form \in Forms \cup {"unsent"} /\ [Next]_vars => (form \in Forms \cup {"unsent"})'
    BY DEF Next, Say, BeginBlock, Deliver, Receive, vars
<1>3. QED
    BY <1>1, <1>2, PTL DEF Spec

\* The two ways in which a text is turned into calls, as a message and as a
\* stream, agree for every text and every form of the answer
\* (RewriteClaudeMessageDSML, RewriteClaudeStreamDSML).
THEOREM StreamsAgreeWithMessages == Spec => []StreamAgreesWithMessage
<1>1. AnswerInv /\ form \in Forms \cup {"unsent"} => StreamAgreesWithMessage
    <2> SUFFICES ASSUME AnswerInv, form \in Forms \cup {"unsent"}, isStream, HasEnded, IsText, cut = {}
                 PROVE  client = Whole(RewriteClaudeMessageDSML(content), MessageStop(content))
        BY DEF StreamAgreesWithMessage
    <2>1. form \in Forms /\ content \in Seq(AnyBlock)
        BY StreamRead
    <2>2. Len(content) = 1 /\ content[1].type = "text"
        BY DEF IsText
    <2>3. /\ RewriteClaudeStreamDSML(content, form, cut).kind = "events"
                <=> RewriteClaudeMessageDSML(content) # content
          /\ RewriteClaudeMessageDSML(content) # content
                => StreamBlocks(content, form) = RewriteClaudeMessageDSML(content)
        BY <2>1, <2>2, OneTextStream
    <2>4. CASE RewriteClaudeMessageDSML(content) = content
        <3>1. client = Whole(content, UpstreamStop(content))
            BY <2>3, <2>4, StreamRead
        <3>2. MessageStop(content) = UpstreamStop(content)
            BY <2>4 DEF MessageStop
        <3>3. QED
            BY <2>4, <3>1, <3>2
    <2>5. CASE RewriteClaudeMessageDSML(content) # content
        <3>1. client = Whole(RewriteClaudeMessageDSML(content), "tool_use")
            BY <2>3, <2>5, StreamRead
        <3>2. MessageStop(content) = "tool_use"
            BY <2>5 DEF MessageStop
        <3>3. QED
            BY <3>1, <3>2
    <2>6. QED
        BY <2>4, <2>5
<1>2. QED
    BY <1>1, AnswerAlways, FormAlways, PTL

\* A second gateway behind this one would find nothing to rewrite in what the
\* first has rewritten (StripAndParseDSML).
THEOREM NothingIsLeft == Spec => []NothingLeftToRewrite
<1>1. AnswerInv /\ form \in Forms \cup {"unsent"} => NothingLeftToRewrite
    <2> SUFFICES ASSUME AnswerInv, form \in Forms \cup {"unsent"}, HasEnded, client.blocks # content,
                        form = "pretty" => ~isStream \/ IsText
                 PROVE  \A i \in DOMAIN client.blocks : ~StripAndParseDSML(client.blocks[i].text).ok
        BY DEF NothingLeftToRewrite
    <2>1. \A blocks, stop : Whole(blocks, stop).blocks = blocks
        BY DEF Whole
    <2>2. form \in Forms /\ content \in Seq(AnyBlock)
        BY StreamRead
    <2>3. CASE ~isStream
        <3>1. client.blocks = RewriteClaudeMessageDSML(content)
            BY <2>1, <2>3, StreamRead
        <3>2. QED
            BY <2>2, <3>1, RewrittenIsClean
    <2>4. CASE isStream /\ RewriteClaudeStreamDSML(content, form, cut).kind # "events"
        <3>1. client.blocks = content
            BY <2>1, <2>4, StreamRead
        <3>2. QED
            BY <3>1
    <2>5. CASE isStream /\ RewriteClaudeStreamDSML(content, form, cut).kind = "events"
        <3>1. client.blocks = StreamBlocks(content, form)
            BY <2>1, <2>5, StreamRead
        <3> DEFINE source == IF form = "bare" THEN Texts(content) ELSE accumulateStreamMeta(content, form)
                   parsed == StripAndParseDSML(source)
                   message == IF form = "pretty" THEN RewriteClaudeMessageDSML(content) ELSE content
        <3>2. CASE message = content
            <4>1. StreamBlocks(content, form) = Told(parsed.clean, parsed.calls)
                BY <3>2 DEF StreamBlocks
            <4>2. source \in AnyText
                BY <2>2, TextsType, EmptySeq DEF accumulateStreamMeta, AnyText
            <4> HIDE DEF source
            <4>3. /\ parsed.clean \in AnyText /\ parsed.calls \in Seq(AnyCall)
                  /\ ~StripAndParseDSML(parsed.clean).ok
                BY <4>2, StripType, StripsCompletely
            <4> HIDE DEF parsed
            <4>4. QED
                BY <3>1, <4>1, <4>3, ToldIsClean
        <3>3. CASE message # content
            <4>1. form = "pretty" /\ IsText /\ RewriteClaudeMessageDSML(content) # content
                BY <2>5, <3>3
            <4>2. StreamBlocks(content, form) = RewriteClaudeMessageDSML(content)
                BY <2>2, <4>1, OneTextStream DEF IsText
            <4>3. QED
                BY <2>2, <3>1, <4>2, RewrittenIsClean
        <3>4. QED
            BY <3>2, <3>3
    <2>6. QED
        BY <2>3, <2>4, <2>5
<1>2. QED
    BY <1>1, AnswerAlways, FormAlways, PTL

-----------------------------------------------------------------------------
(* Ids                                                                     *)

\* The upstream names its calls by their places (Say, BeginBlock).
PlacesAreTold == content \in Seq(AnyBlock) /\ IdsTellPlaces(content)

\* They are in every answer, at every moment.
LEMMA PlacesAlwaysTold == Spec => []PlacesAreTold
<1>1. Init => PlacesAreTold
    BY EmptySeq DEF Init, PlacesAreTold, IdsTellPlaces
<1>2. AnswerInv /\ AnswerInv' /\ PlacesAreTold /\ [Next]_vars => PlacesAreTold'
    <2> SUFFICES ASSUME AnswerInv, AnswerInv', PlacesAreTold, [Next]_vars
                 PROVE  IdsTellPlaces(content)'
        BY DEF PlacesAreTold, AnswerInv
    <2>1. content \in Seq(AnyBlock) /\ Len(content) \in Nat /\ DOMAIN content = 1 .. Len(content)
        BY LenProperties DEF PlacesAreTold
    <2>2. ASSUME NEW fragment \in Fragments, Say(fragment) PROVE IdsTellPlaces(content)'
        <3> DEFINE block == TextBlock(Last(content).text \o fragment)
        <3>1. content' = ReplaceAt(content, Len(content), block)
            BY <2>2 DEF Say
        <3>2. block.id = NoId
            BY DEF TextBlock
        <3> HIDE DEF block
        <3>3. DOMAIN content' = DOMAIN content
              /\ \A i \in DOMAIN content : content'[i] = content[i] \/ content'[i] = block
            BY <2>1, <3>1 DEF ReplaceAt
        <3> QED
            BY <3>2, <3>3 DEF PlacesAreTold, IdsTellPlaces
    <2>3. ASSUME NEW block \in {NoBlock, Thinking, Native(Len(content) + 1)}, BeginBlock(block)
          PROVE  IdsTellPlaces(content)'
        <3>1. content' = Append(content, block)
            BY <2>3 DEF BeginBlock
        <3>2. block.id = NoId \/ block.id = Id("toolu", Len(content) + 1)
            <4>1. \A text : TextBlock(text).id = NoId
                BY DEF TextBlock
            <4>2. \A id, name, input : ToolUse(id, name, input).id = id
                BY DEF ToolUse
            <4>3. Thinking.id = NoId
                BY DEF Thinking
            <4> QED
                BY <4>1, <4>2, <4>3 DEF NoBlock, Native
        <3>3. /\ DOMAIN content' = 1 .. Len(content) + 1 /\ content'[Len(content) + 1] = block
              /\ \A i \in 1 .. Len(content) : content'[i] = content[i]
            BY <2>1, <3>1
        <3>4. \A i \in 1 .. Len(content) + 1 : i \in 1 .. Len(content) \/ i = Len(content) + 1
            BY <2>1
        <3> QED
            BY <2>1, <3>2, <3>3, <3>4 DEF PlacesAreTold, IdsTellPlaces
    <2>4. CASE UNCHANGED content
        BY <2>4 DEF PlacesAreTold, IdsTellPlaces
    <2>5. (\E f \in Forms, c \in Cuts : Deliver(f, c)) \/ Receive \/ UNCHANGED vars => UNCHANGED content
        BY DEF Deliver, Receive, vars
    <2> QED
        BY <2>2, <2>3, <2>4, <2>5 DEF Next
<1> QED
    BY <1>1, <1>2, AnswerAlways, PTL DEF Spec

\* The calls of an answer, the upstream's and the rewritten ones, are told apart
\* by their ids, for answers of any length, in every form and however cut
\* (RewriteClaudeMessageDSML, synthesizeToolUseSSE).
THEOREM CallIdsAlwaysDiffer == Spec => []CallIdsDiffer
<1>1. AnswerInv /\ PlacesAreTold => CallIdsDiffer
    <2> SUFFICES ASSUME AnswerInv, PlacesAreTold, HasEnded
                 PROVE  IdsDiffer(client.blocks)
        BY DEF CallIdsDiffer, IdsDiffer
    <2>1. \A blocks, stop : Whole(blocks, stop).blocks = blocks
        BY DEF Whole
    <2>2. content \in Seq(AnyBlock) /\ IdsTellPlaces(content)
        BY DEF PlacesAreTold
    <2>3. CASE ~isStream
        <3>1. client.blocks = RewriteClaudeMessageDSML(content)
            BY <2>1, <2>3, StreamRead
        <3> QED
            BY <2>2, <3>1, PlacesDiffer, RewrittenIdsDiffer
    <2>4. CASE isStream /\ RewriteClaudeStreamDSML(content, form, cut).kind # "events"
        <3>1. client.blocks = content
            BY <2>1, <2>4, StreamRead
        <3> QED
            BY <2>2, <3>1, PlacesDiffer DEF UpstreamIds
    <2>5. CASE isStream /\ RewriteClaudeStreamDSML(content, form, cut).kind = "events"
        <3> DEFINE source == IF form = "bare" THEN Texts(content) ELSE accumulateStreamMeta(content, form)
                   parsed == StripAndParseDSML(source)
                   message == IF form = "pretty" THEN RewriteClaudeMessageDSML(content) ELSE content
        <3>1. client.blocks = StreamBlocks(content, form)
            BY <2>1, <2>5, StreamRead
        <3>2. CASE message = content
            <4>1. StreamBlocks(content, form) = Told(parsed.clean, parsed.calls)
                BY <3>2 DEF StreamBlocks
            <4>2. source \in AnyText
                BY <2>2, TextsType, EmptySeq DEF accumulateStreamMeta, AnyText
            <4> HIDE DEF source
            <4>3. parsed.clean \in AnyText /\ parsed.calls \in Seq(AnyCall)
                BY <4>2, StripType
            <4> HIDE DEF parsed
            <4> QED
                BY <3>1, <4>1, <4>3, ToldIdsDiffer
        <3>3. CASE message # content
            <4>1. StreamBlocks(content, form) = Told(Texts(message), Unnumbered(UsesOf(message)))
                BY <3>3 DEF StreamBlocks
            <4>2. message \in Seq(AnyBlock)
                BY <2>2, RewriteType
            <4> HIDE DEF message
            <4>3. Texts(message) \in AnyText /\ Unnumbered(UsesOf(message)) \in Seq(AnyCall)
                BY <4>2, TextsType, UsesType
            <4> QED
                BY <3>1, <4>1, <4>3, ToldIdsDiffer
        <3> QED
            BY <3>2, <3>3
    <2> QED
        BY <2>3, <2>4, <2>5
<1> QED
    BY <1>1, AnswerAlways, PlacesAlwaysTold, PTL
-----------------------------------------------------------------------------
(* Tags that match                                                         *)

\* Every tag that opens is closed before the next of its kind opens.
Balanced(text, open, close) ==
    /\ \A n \in 1 .. Len(text) : CountIn(text, n, open) - CountIn(text, n, close) \in {0, 1}
    /\ CountIn(text, Len(text), open) = CountIn(text, Len(text), close)

\* How a count grows.
LEMMA CountStep ==
    ASSUME NEW text, NEW tag
    PROVE  /\ CountIn(text, 0, tag) = 0
           /\ \A n \in Nat : CountIn(text, n, tag) \in Nat
           /\ \A n \in Nat \ {0} : CountIn(text, n, tag)
                = IF text[n].tag = tag THEN CountIn(text, n - 1, tag) + 1 ELSE CountIn(text, n - 1, tag)
<1> DEFINE Tagged(n) == {k \in 1 .. n : text[k].tag = tag}
<1>1. ASSUME NEW n \in Nat PROVE IsFiniteSet(Tagged(n)) /\ Cardinality(Tagged(n)) \in Nat
    <2>1. IsFiniteSet(1 .. n)
        BY FS_Interval
    <2>2. IsFiniteSet(Tagged(n))
        BY <2>1, FS_Subset
    <2> HIDE DEF Tagged
    <2> QED
        BY <2>2, FS_CardinalityType
<1>2. Cardinality(Tagged(0)) = 0
    <2>1. Tagged(0) = {}
        OBVIOUS
    <2> QED
        BY <2>1, FS_EmptySet
<1>3. ASSUME NEW n \in Nat \ {0}
      PROVE  Cardinality(Tagged(n)) = IF text[n].tag = tag THEN Cardinality(Tagged(n - 1)) + 1
                                      ELSE Cardinality(Tagged(n - 1))
    <2>1. 1 .. n = (1 .. n - 1) \cup {n} /\ n \notin 1 .. n - 1 /\ n - 1 \in Nat
        OBVIOUS
    <2>2. text[n].tag = tag => Tagged(n) = Tagged(n - 1) \cup {n}
        BY <2>1
    <2>3. text[n].tag # tag => Tagged(n) = Tagged(n - 1)
        BY <2>1
    <2>4. n \notin Tagged(n - 1) /\ IsFiniteSet(Tagged(n - 1))
        BY <1>1, <2>1
    <2> HIDE DEF Tagged
    <2>5. text[n].tag = tag => Cardinality(Tagged(n)) = Cardinality(Tagged(n - 1)) + 1
        BY <2>2, <2>4, FS_AddElement
    <2> QED
        BY <2>3, <2>5
<1> QED
    BY <1>1, <1>2, <1>3 DEF CountIn

\* A count never falls, and stays where no tag of the kind is.
LEMMA CountBetween ==
    ASSUME NEW text, NEW tag, NEW a \in Nat, NEW b \in Nat, a <= b
    PROVE  /\ CountIn(text, a, tag) <= CountIn(text, b, tag)
           /\ (\A k \in a + 1 .. b : text[k].tag # tag) => CountIn(text, a, tag) = CountIn(text, b, tag)
<1> DEFINE C(n) == CountIn(text, n, tag)
           P == {k \in 0 .. b : a <= k =>
                    /\ C(a) <= C(k)
                    /\ (\A l \in a + 1 .. k : text[l].tag # tag) => C(a) = C(k)}
<1>1. /\ C(0) = 0 /\ \A n \in Nat : C(n) \in Nat
      /\ \A n \in Nat \ {0} : C(n) = IF text[n].tag = tag THEN C(n - 1) + 1 ELSE C(n - 1)
    BY CountStep, ZenonT(60)
<1> HIDE DEF C
<1>2. 0 \in P
    BY <1>1
<1>3. ASSUME NEW k \in 1 .. b, k - 1 \in P PROVE k \in P
    <2>1. k \in Nat \ {0} /\ k - 1 \in Nat /\ k \in 0 .. b
        OBVIOUS
    <2>2. CASE a <= k - 1
        <3>1. C(a) <= C(k - 1) /\ ((\A l \in a + 1 .. k - 1 : text[l].tag # tag) => C(a) = C(k - 1))
            BY <1>3, <2>2
        <3>2. C(k - 1) \in Nat /\ C(a) \in Nat /\ C(k) = IF text[k].tag = tag THEN C(k - 1) + 1 ELSE C(k - 1)
            BY <1>1, <2>1
        <3>3. C(a) <= C(k)
            BY <3>1, <3>2
        <3>4. ASSUME \A l \in a + 1 .. k : text[l].tag # tag PROVE C(a) = C(k)
            <4>1. k \in a + 1 .. k /\ \A l \in a + 1 .. k - 1 : l \in a + 1 .. k
                BY <2>1, <2>2
            <4> QED
                BY <3>1, <3>2, <3>4, <4>1
        <3> QED
            BY <2>1, <3>3, <3>4
    <2>3. CASE ~ (a <= k - 1)
        <3>1. a <= k => k = a
            BY <2>1, <2>3
        <3>2. C(a) \in Nat
            BY <1>1
        <3> QED
            BY <2>1, <3>1, <3>2
    <2> QED
        BY <2>2, <2>3
<1> HIDE DEF P
<1>4. b \in P
    <2>1. 0 .. b \subseteq P
        BY <1>2, <1>3, UpTo
    <2> QED
        BY <2>1
<1> QED
    BY <1>4 DEF P, C

\* The two counts of a kind whose tags match.
LEMMA BalancedCounts ==
    ASSUME NEW text \in AnyText, NEW open, NEW close, open # close, Balanced(text, open, close)
    PROVE  LET O(k) == CountIn(text, k, open)
               C(k) == CountIn(text, k, close)
           IN  /\ \A k \in 0 .. Len(text) : O(k) \in Nat /\ C(k) \in Nat /\ C(k) <= O(k) /\ O(k) <= C(k) + 1
               /\ O(Len(text)) = C(Len(text)) /\ O(0) = C(0)
               /\ \A k \in 1 .. Len(text) : text[k].tag = open => O(k) = O(k - 1) + 1 /\ C(k) = C(k - 1)
               /\ \A k \in 1 .. Len(text) : text[k].tag = close => O(k) = O(k - 1) /\ C(k) = C(k - 1) + 1
               /\ \A k \in 1 .. Len(text) : text[k].tag \notin {open, close} => O(k) = O(k - 1) /\ C(k) = C(k - 1)
               /\ \A a, b \in 0 .. Len(text) : a <= b => O(a) <= O(b)
               /\ \A a, b \in 0 .. Len(text) :
                    a <= b /\ (\A k \in a + 1 .. b : text[k].tag # close) => C(a) = C(b)
<1> DEFINE O(k) == CountIn(text, k, open)
           C(k) == CountIn(text, k, close)
<1>1. Len(text) \in Nat /\ \A k \in 0 .. Len(text) : k \in Nat
    BY DEF AnyText
<1>2. /\ O(0) = 0 /\ \A k \in Nat : O(k) \in Nat
      /\ \A k \in Nat \ {0} : O(k) = IF text[k].tag = open THEN O(k - 1) + 1 ELSE O(k - 1)
    BY CountStep, ZenonT(60)
<1>3. /\ C(0) = 0 /\ \A k \in Nat : C(k) \in Nat
      /\ \A k \in Nat \ {0} : C(k) = IF text[k].tag = close THEN C(k - 1) + 1 ELSE C(k - 1)
    BY CountStep, ZenonT(60)
<1>4. O(Len(text)) = C(Len(text)) /\ \A k \in 1 .. Len(text) : O(k) - C(k) \in {0, 1}
    BY DEF Balanced
<1>5. \A a, b \in Nat : a <= b => O(a) <= O(b)
    BY CountBetween
<1>6. \A a, b \in Nat : a <= b /\ (\A k \in a + 1 .. b : text[k].tag # close) => C(a) = C(b)
    BY CountBetween
<1> HIDE DEF O, C
<1>7. ASSUME NEW k \in 0 .. Len(text) PROVE O(k) \in Nat /\ C(k) \in Nat /\ C(k) <= O(k) /\ O(k) <= C(k) + 1
    <2>1. O(k) \in Nat /\ C(k) \in Nat
        BY <1>1, <1>2, <1>3
    <2>2. CASE k = 0
        BY <1>2, <1>3, <2>2
    <2>3. CASE k # 0
        <3>1. O(k) - C(k) = 0 \/ O(k) - C(k) = 1
            BY <1>1, <1>4, <2>3
        <3> QED
            BY <2>1, <3>1
    <2> QED
        BY <2>2, <2>3
<1>8. ASSUME NEW k \in 1 .. Len(text)
      PROVE  /\ text[k].tag = open => O(k) = O(k - 1) + 1 /\ C(k) = C(k - 1)
             /\ text[k].tag = close => O(k) = O(k - 1) /\ C(k) = C(k - 1) + 1
             /\ text[k].tag \notin {open, close} => O(k) = O(k - 1) /\ C(k) = C(k - 1)
    <2>1. k \in Nat \ {0}
        BY <1>1
    <2>2. /\ text[k].tag = open => O(k) = O(k - 1) + 1
          /\ text[k].tag # open => O(k) = O(k - 1)
        BY <1>2, <2>1
    <2>3. /\ text[k].tag = close => C(k) = C(k - 1) + 1
          /\ text[k].tag # close => C(k) = C(k - 1)
        BY <1>3, <2>1
    <2> QED
        BY <2>2, <2>3
<1>9. O(0) = C(0)
    BY <1>2, <1>3
<1> QED
    BY <1>1, <1>4, <1>5, <1>6, <1>7, <1>8, <1>9 DEF O, C

\* A tag that is open at a place was opened before, and not closed since.
LEMMA OpenSince ==
    ASSUME NEW text \in AnyText, NEW open, NEW close, open # close, Balanced(text, open, close),
           NEW n \in 0 .. Len(text), CountIn(text, n, open) > CountIn(text, n, close)
    PROVE  \E i \in 1 .. n : text[i].tag = open /\ \A k \in i .. n : text[k].tag # close
<1> DEFINE O(k) == CountIn(text, k, open)
           C(k) == CountIn(text, k, close)
           Opened(k) == \E i \in 1 .. k : text[i].tag = open /\ \A l \in i .. k : text[l].tag # close
           P == {k \in 0 .. Len(text) : O(k) > C(k) => Opened(k)}
<1>1. Len(text) \in Nat
    BY DEF AnyText
<1>2. /\ \A k \in 0 .. Len(text) : O(k) \in Nat /\ C(k) \in Nat /\ C(k) <= O(k) /\ O(k) <= C(k) + 1
      /\ O(0) = C(0)
      /\ \A k \in 1 .. Len(text) : text[k].tag = close => O(k) = O(k - 1) /\ C(k) = C(k - 1) + 1
      /\ \A k \in 1 .. Len(text) : text[k].tag \notin {open, close} => O(k) = O(k - 1) /\ C(k) = C(k - 1)
    BY BalancedCounts
<1> HIDE DEF O, C
<1>3. 0 \in P
    BY <1>1, <1>2
<1>4. ASSUME NEW k \in 1 .. Len(text), k - 1 \in P PROVE k \in P
    <2> SUFFICES ASSUME O(k) > C(k) PROVE Opened(k)
        BY <1>1
    <2>1. k \in Nat \ {0} /\ k - 1 \in 0 .. Len(text) /\ k \in 0 .. Len(text)
        BY <1>1
    <2>2. CASE text[k].tag = open
        <3>1. k \in 1 .. k /\ \A l \in k .. k : l = k
            BY <2>1
        <3> QED
            BY <2>2, <3>1
    <2>3. CASE text[k].tag = close
        <3>1. O(k) = O(k - 1) /\ C(k) = C(k - 1) + 1 /\ O(k - 1) <= C(k - 1) + 1
            BY <1>2, <2>1, <2>3
        <3>2. O(k - 1) \in Nat /\ C(k - 1) \in Nat
            BY <1>2, <2>1
        <3> QED
            BY <3>1, <3>2
    <2>4. CASE text[k].tag \notin {open, close}
        <3>1. text[k].tag # close /\ O(k - 1) > C(k - 1)
            BY <1>2, <2>4
        <3>2. PICK i \in 1 .. k - 1 : text[i].tag = open /\ \A l \in i .. k - 1 : text[l].tag # close
            BY <1>4, <3>1
        <3>3. i \in 1 .. k /\ \A l \in i .. k : l \in i .. k - 1 \/ l = k
            BY <2>1
        <3> QED
            BY <3>1, <3>2, <3>3
    <2> QED
        BY <2>2, <2>3, <2>4
<1> HIDE DEF P
<1>5. n \in P
    <2>1. 0 .. Len(text) \subseteq P
        BY <1>1, <1>3, <1>4, UpTo
    <2> QED
        BY <2>1
<1> QED
    BY <1>5 DEF P, O, C

\* Enclosed by tags that match is in a match of the expression.
LEMMA EnclosedIsMatched ==
    ASSUME NEW text \in AnyText, NEW open, NEW close, open # close, Balanced(text, open, close),
           NEW n \in DOMAIN text
    PROVE  Enclosed(text, n, open, close) <=> n \in MatchedAt(text, open, close)
<1> DEFINE O(k) == CountIn(text, k, open)
           C(k) == CountIn(text, k, close)
<1>1. /\ DOMAIN text = 1 .. Len(text) /\ Len(text) \in Nat /\ n \in Nat \ {0} /\ n <= Len(text)
      /\ n \in 0 .. Len(text) /\ n - 1 \in 0 .. Len(text) /\ Len(text) \in 0 .. Len(text)
    BY DEF AnyText
<1>2. /\ \A k \in 0 .. Len(text) : O(k) \in Nat /\ C(k) \in Nat /\ C(k) <= O(k) /\ O(k) <= C(k) + 1
      /\ O(Len(text)) = C(Len(text)) /\ O(0) = C(0)
      /\ \A k \in 1 .. Len(text) : text[k].tag = open => O(k) = O(k - 1) + 1 /\ C(k) = C(k - 1)
      /\ \A k \in 1 .. Len(text) : text[k].tag = close => O(k) = O(k - 1) /\ C(k) = C(k - 1) + 1
      /\ \A k \in 1 .. Len(text) : text[k].tag \notin {open, close} => O(k) = O(k - 1) /\ C(k) = C(k - 1)
    BY BalancedCounts
<1>3. \A a, b \in 0 .. Len(text) : a <= b => O(a) <= O(b)
    BY BalancedCounts
<1>4. \A a, b \in 0 .. Len(text) :
            a <= b /\ (\A k \in a + 1 .. b : text[k].tag # close) => C(a) = C(b)
    BY BalancedCounts
<1>5. \A k \in 0 .. Len(text) : O(k) > C(k) =>
            \E i \in 1 .. k : text[i].tag = open /\ \A l \in i .. k : text[l].tag # close
    BY OpenSince
<1>6. Enclosed(text, n, open, close) <=> O(n) > C(n - 1)
    BY DEF Enclosed
<1> HIDE DEF O, C
<1>7. ASSUME NEW i \in DOMAIN text, NEW j \in DOMAIN text, i <= n, n <= j, i < j,
             text[i].tag = open, text[j].tag = close, \A k \in i .. j - 1 : text[k].tag # close
      PROVE  O(n) > C(n - 1)
    <2>1. i \in 1 .. Len(text) /\ i \in 0 .. Len(text) /\ i - 1 \in 0 .. Len(text) /\ i - 1 <= n - 1
        BY <1>1, <1>7
    <2>2. O(i) <= O(n) /\ O(i) = O(i - 1) + 1
        BY <1>1, <1>2, <1>3, <1>7, <2>1
    <2>3. O(i - 1) >= C(i - 1) /\ O(i - 1) \in Nat /\ C(i - 1) \in Nat
        BY <1>2, <2>1
    <2>4. C(i - 1) = C(n - 1)
        <3>1. \A k \in (i - 1) + 1 .. n - 1 : k \in i .. j - 1
            BY <1>1, <1>7, <2>1
        <3> QED
            BY <1>1, <1>4, <1>7, <2>1, <3>1
    <2>5. O(n) \in Nat
        BY <1>1, <1>2
    <2> QED
        BY <2>2, <2>3, <2>4, <2>5
<1>8. ASSUME O(n) > C(n - 1)
      PROVE  \E i, j \in DOMAIN text :
                /\ i <= n /\ n <= j /\ i < j /\ text[i].tag = open /\ text[j].tag = close
                /\ \A k \in i .. j - 1 : text[k].tag # close
    <2>1. O(n) \in Nat /\ C(n) \in Nat /\ O(n - 1) \in Nat /\ C(n - 1) \in Nat
        BY <1>1, <1>2
    <2>2. CASE text[n].tag = close
        <3>1. O(n - 1) > C(n - 1)
            BY <1>1, <1>2, <1>8, <2>2
        <3>2. PICK i \in 1 .. n - 1 : text[i].tag = open /\ \A l \in i .. n - 1 : text[l].tag # close
            BY <1>1, <1>5, <3>1
        <3>3. i \in DOMAIN text /\ i <= n /\ n <= n /\ i < n
            BY <1>1
        <3> QED
            BY <2>2, <3>2, <3>3
    <2>3. CASE text[n].tag # close
        <3>0. C(n) = C(n - 1)
            BY <1>1, <1>2, <2>3
        <3>1. O(n) > C(n)
            BY <1>8, <3>0
        <3>2. PICK i \in 1 .. n : text[i].tag = open /\ \A l \in i .. n : text[l].tag # close
            BY <1>1, <1>5, <3>1
        <3> DEFINE Closing == {l \in n + 1 .. Len(text) : text[l].tag = close}
        <3>3. Closing # {}
            <4> SUFFICES ASSUME Closing = {} PROVE FALSE
                OBVIOUS
            <4>1. \A k \in n + 1 .. Len(text) : text[k].tag # close
                OBVIOUS
            <4>2. C(n) = C(Len(text)) /\ O(n) <= O(Len(text))
                BY <1>1, <1>3, <1>4, <4>1
            <4> QED
                BY <1>2, <2>1, <3>1, <4>2
        <3>4. PICK j \in Closing : \A l \in Closing : j <= l
            <4>1. Closing \subseteq Nat
                BY <1>1
            <4> HIDE DEF Closing
            <4> QED
                BY <3>3, <4>1, LeastNatural
        <3>5. /\ i \in DOMAIN text /\ j \in DOMAIN text /\ i <= n /\ n <= j /\ i < j
              /\ text[j].tag = close
            BY <1>1
        <3>6. ASSUME NEW k \in i .. j - 1 PROVE text[k].tag # close
            <4>1. k \in i .. n \/ (k \in n + 1 .. Len(text) /\ ~ (j <= k))
                BY <1>1, <3>5
            <4> QED
                BY <3>2, <3>4, <4>1
        <3> QED
            BY <3>2, <3>5, <3>6
    <2> QED
        BY <2>2, <2>3
<1> QED
    BY <1>6, <1>7, <1>8, MatchedPlaces

\* Where tags match, every one that opens begins a match of its own.
LEMMA OpenBegins ==
    ASSUME NEW text \in AnyText, NEW open, NEW close, open # close, Balanced(text, open, close),
           NEW n \in DOMAIN text, text[n].tag = open
    PROVE  \E m \in Matches(text, open, close) : m[1] = n
<1> DEFINE O(k) == CountIn(text, k, open)
           C(k) == CountIn(text, k, close)
<1>1. /\ DOMAIN text = 1 .. Len(text) /\ Len(text) \in Nat /\ n \in Nat \ {0} /\ n <= Len(text)
      /\ n \in 0 .. Len(text) /\ n - 1 \in 0 .. Len(text)
    BY DEF AnyText
<1>2. /\ \A k \in 0 .. Len(text) : O(k) \in Nat /\ C(k) \in Nat /\ C(k) <= O(k) /\ O(k) <= C(k) + 1
      /\ \A k \in 1 .. Len(text) : text[k].tag = open => O(k) = O(k - 1) + 1 /\ C(k) = C(k - 1)
    BY BalancedCounts
<1>3. \A a, b \in 0 .. Len(text) : a <= b => O(a) <= O(b)
    BY BalancedCounts
<1>4. \A a, b \in 0 .. Len(text) :
            a <= b /\ (\A k \in a + 1 .. b : text[k].tag # close) => C(a) = C(b)
    BY BalancedCounts
<1>5. Enclosed(text, n, open, close) <=> O(n) > C(n - 1)
    BY DEF Enclosed
<1> HIDE DEF O, C
<1>6. O(n) = O(n - 1) + 1 /\ C(n) = C(n - 1)
    BY <1>1, <1>2
<1>7. /\ O(n - 1) >= C(n - 1) /\ O(n - 1) \in Nat /\ C(n - 1) \in Nat
      /\ O(n) <= C(n) + 1 /\ O(n) \in Nat /\ C(n) \in Nat
    BY <1>1, <1>2
<1>8. Enclosed(text, n, open, close)
    BY <1>5, <1>6, <1>7
<1>9. PICK m \in Matches(text, open, close) : n \in m[1] .. m[2]
    BY <1>8, EnclosedIsMatched DEF MatchedAt
<1>10. /\ m[1] \in DOMAIN text /\ m[2] \in DOMAIN text /\ text[m[1]].tag = open /\ text[m[2]].tag = close
       /\ \A k \in m[1] .. m[2] - 1 : text[k].tag # close
    BY DEF Matches
<1>11. ASSUME m[1] # n PROVE FALSE
    <2>1. /\ m[1] \in 0 .. Len(text) /\ m[1] - 1 \in 0 .. Len(text)
          /\ m[1] <= n - 1 /\ m[1] - 1 <= n /\ n < m[2]
        <3>1. n # m[2]
            BY <1>10
        <3> QED
            BY <1>1, <1>9, <1>10, <1>11, <3>1
    <2>2. O(m[1]) = O(m[1] - 1) + 1 /\ O(m[1]) <= O(n - 1) /\ O(m[1]) \in Nat
        BY <1>1, <1>2, <1>3, <1>10, <2>1
    <2>3. C(m[1] - 1) = C(n)
        <3>1. \A k \in (m[1] - 1) + 1 .. n : k \in m[1] .. m[2] - 1
            BY <1>1, <1>10, <2>1
        <3> QED
            BY <1>1, <1>4, <1>10, <2>1, <3>1
    <2>4. O(m[1] - 1) >= C(m[1] - 1) /\ O(m[1] - 1) \in Nat /\ C(m[1] - 1) \in Nat
        BY <1>2, <2>1
    <2> QED
        BY <1>6, <1>7, <2>2, <2>3, <2>4
<1> QED
    BY <1>11

-----------------------------------------------------------------------------
(* The prose and the calls of a text whose tags match                      *)

RegionAt(text) == MatchedAt(text, "regionOpen", "regionClose")
InvokeAt(text) == MatchedAt(text, "invokeOpen", "invokeClose")

\* In a text whose tags match, what tags enclose is what the expressions match,
\* and no tag of a region is inside a call.
LEMMA WellFormedParts ==
    ASSUME NEW text \in AnyText, WellFormed(text)
    PROVE  /\ Balanced(text, "regionOpen", "regionClose") /\ Balanced(text, "invokeOpen", "invokeClose")
           /\ \A n \in DOMAIN text : Enclosed(text, n, "regionOpen", "regionClose") <=> n \in RegionAt(text)
           /\ \A n \in DOMAIN text : Enclosed(text, n, "invokeOpen", "invokeClose") <=> n \in InvokeAt(text)
           /\ \A n \in DOMAIN text : text[n].tag \in {"regionOpen", "regionClose"} => n \notin InvokeAt(text)
<1>1. Balanced(text, "regionOpen", "regionClose") /\ Balanced(text, "invokeOpen", "invokeClose")
    BY DEF WellFormed, Balanced
<1>2. \A n \in DOMAIN text : Enclosed(text, n, "regionOpen", "regionClose") <=> n \in RegionAt(text)
    BY <1>1, EnclosedIsMatched DEF RegionAt
<1>3. \A n \in DOMAIN text : Enclosed(text, n, "invokeOpen", "invokeClose") <=> n \in InvokeAt(text)
    BY <1>1, EnclosedIsMatched DEF InvokeAt
<1>4. DOMAIN text = 1 .. Len(text)
    BY DEF AnyText
<1>5. \A n \in 1 .. Len(text) : text[n].tag \in {"regionOpen", "regionClose"}
                => ~Enclosed(text, n, "invokeOpen", "invokeClose")
    BY DEF WellFormed
<1> QED
    BY <1>1, <1>2, <1>3, <1>4, <1>5

\* A stretch within invokes is in a region as a whole, or not at all.
LEMMA InvokesAreWhole ==
    ASSUME NEW text \in AnyText, WellFormed(text), NEW i \in DOMAIN text, NEW j \in DOMAIN text,
           \A k \in i .. j : k \in InvokeAt(text), NEW n \in i .. j, n \notin RegionAt(text),
           NEW k \in i .. j
    PROVE  k \notin RegionAt(text)
<1> SUFFICES ASSUME k \in RegionAt(text) PROVE FALSE
    OBVIOUS
<1>1. DOMAIN text = 1 .. Len(text) /\ Len(text) \in Nat
    BY DEF AnyText
<1>2. PICK m \in Matches(text, "regionOpen", "regionClose") : k \in m[1] .. m[2]
    BY DEF RegionAt, MatchedAt
<1>3. n \notin m[1] .. m[2]
    BY DEF RegionAt, MatchedAt
<1>4. /\ m[1] \in DOMAIN text /\ m[2] \in DOMAIN text
      /\ text[m[1]].tag = "regionOpen" /\ text[m[2]].tag = "regionClose"
    BY DEF Matches
<1>5. m[1] \notin InvokeAt(text) /\ m[2] \notin InvokeAt(text)
    BY <1>4, WellFormedParts
<1>6. m[1] \in i .. j \/ m[2] \in i .. j
    BY <1>1, <1>2, <1>3, <1>4
<1> QED
    BY <1>5, <1>6

\* What stays outside the regions has its matches where the text has them.
LEMMA InvokesKeepTheirPlaces ==
    ASSUME NEW text \in AnyText, WellFormed(text), NEW n \in DOMAIN text \ RegionAt(text)
    PROVE  PlaceOf(text, RegionAt(text), n) \in InvokeAt(FlattenSeq(Left(text, RegionAt(text))))
                <=> n \in InvokeAt(text)
<1> DEFINE A == RegionAt(text)
           rest == FlattenSeq(Left(text, A))
           Place(k) == PlaceOf(text, A, k)
<1>1. DOMAIN text = 1 .. Len(text) /\ Len(text) \in Nat /\ rest \in AnyText
    BY LeftType DEF AnyText
<1>2. /\ \A k \in 0 .. Len(text) : Place(k) \in Nat
      /\ \A k, l \in 0 .. Len(text) : k <= l => Place(k) <= Place(l)
      /\ \A k \in DOMAIN text \ A : /\ Place(k) = Place(k - 1) + 1
                                    /\ Place(k) \in DOMAIN rest /\ rest[Place(k)] = text[k]
    BY PlaceSteps
<1>3. \A p \in DOMAIN rest : \E k \in DOMAIN text \ A : Place(k) = p
    BY PlacesAreTaken
<1>4. n \in DOMAIN text /\ n \notin A
    OBVIOUS
<1>5. Balanced(text, "invokeOpen", "invokeClose")
    BY WellFormedParts
<1>6. \A i, j, k \in DOMAIN text :
            (\A l \in i .. j : l \in InvokeAt(text)) /\ (\E l \in i .. j : l \notin A) /\ k \in i .. j => k \notin A
    BY InvokesAreWhole
<1>7. InvokeAt(rest) = MatchedAt(rest, "invokeOpen", "invokeClose")
    BY DEF InvokeAt
<1> HIDE DEF A, rest, Place
<1>8. ASSUME NEW k \in DOMAIN text \ A, NEW l \in 0 .. Len(text), l < k PROVE Place(l) < Place(k)
    <2>1. l <= k - 1 /\ k - 1 \in 0 .. Len(text) /\ k \in 0 .. Len(text)
        BY <1>1, <1>8
    <2>2. Place(l) <= Place(k - 1) /\ Place(k) = Place(k - 1) + 1
        BY <1>2, <2>1
    <2>3. Place(l) \in Nat /\ Place(k - 1) \in Nat
        BY <1>2, <2>1
    <2> QED
        BY <2>2, <2>3
<1>9. DOMAIN rest = 1 .. Len(rest) /\ Len(rest) \in Nat
    BY <1>1 DEF AnyText
<1>10. \A k \in DOMAIN text : k \in 0 .. Len(text) /\ k \in Nat
    BY <1>1
<1>11. ASSUME n \in InvokeAt(text) PROVE Place(n) \in InvokeAt(rest)
    <2>1. PICK i, j \in DOMAIN text :
                    /\ i <= n /\ n <= j /\ i < j /\ text[i].tag = "invokeOpen" /\ text[j].tag = "invokeClose"
                    /\ \A k \in i .. j - 1 : text[k].tag # "invokeClose"
        BY <1>4, <1>11, MatchedPlaces DEF InvokeAt
    <2>2. \A k \in i .. j : k \in InvokeAt(text)
        <3> SUFFICES ASSUME NEW k \in i .. j PROVE k \in InvokeAt(text)
            OBVIOUS
        <3>1. k \in DOMAIN text /\ i <= k /\ k <= j
            BY <1>1
        <3> QED
            BY <2>1, <3>1, MatchedPlaces DEF InvokeAt
    <2>3. n \in i .. j /\ i \in i .. j /\ j \in i .. j
        BY <1>1, <2>1
    <2>4. i \in DOMAIN text \ A /\ j \in DOMAIN text \ A
        BY <1>4, <1>6, <2>2, <2>3
    <2>5. /\ Place(i) \in DOMAIN rest /\ Place(j) \in DOMAIN rest /\ Place(n) \in DOMAIN rest
          /\ rest[Place(i)].tag = "invokeOpen" /\ rest[Place(j)].tag = "invokeClose"
        BY <1>2, <1>4, <2>1, <2>4
    <2>6. Place(i) <= Place(n) /\ Place(n) <= Place(j) /\ Place(i) < Place(j)
        <3>1. Place(i) <= Place(n) /\ Place(n) <= Place(j)
            BY <1>2, <1>4, <1>10, <2>1
        <3>2. Place(i) < Place(j)
            BY <1>8, <1>10, <2>1, <2>4
        <3> QED
            BY <3>1, <3>2
    <2>7. ASSUME NEW p \in Place(i) .. Place(j) - 1 PROVE rest[p].tag # "invokeClose"
        <3>1. p \in DOMAIN rest /\ p >= Place(i) /\ p < Place(j)
            BY <1>9, <2>5
        <3>2. PICK k \in DOMAIN text \ A : Place(k) = p
            BY <1>3, <3>1
        <3>3. ~ (k < i)
            <4> SUFFICES ASSUME k < i PROVE FALSE
                OBVIOUS
            <4>1. Place(k) < Place(i)
                BY <1>8, <1>10, <2>4
            <4> QED
                BY <1>2, <1>10, <3>1, <3>2, <4>1
        <3>4. ~ (j <= k)
            <4> SUFFICES ASSUME j <= k PROVE FALSE
                OBVIOUS
            <4>1. Place(j) <= Place(k)
                BY <1>2, <1>10
            <4> QED
                BY <1>2, <1>10, <3>1, <3>2, <4>1
        <3>5. k \in i .. j - 1
            BY <1>1, <3>3, <3>4
        <3> QED
            BY <1>2, <2>1, <3>2, <3>5
    <2>8. Place(n) \in MatchedAt(rest, "invokeOpen", "invokeClose")
        BY <1>1, <2>5, <2>6, <2>7, MatchedPlaces
    <2> QED
        BY <1>7, <2>8
<1>12. ASSUME Place(n) \in InvokeAt(rest) PROVE n \in InvokeAt(text)
    <2>0. Place(n) \in DOMAIN rest
        BY <1>2, <1>4
    <2>1. PICK p, q \in DOMAIN rest :
                    /\ p <= Place(n) /\ Place(n) <= q /\ p < q
                    /\ rest[p].tag = "invokeOpen" /\ rest[q].tag = "invokeClose"
                    /\ \A k \in p .. q - 1 : rest[k].tag # "invokeClose"
        BY <1>1, <1>7, <1>12, <2>0, MatchedPlaces
    <2>2. PICK i \in DOMAIN text \ A : Place(i) = p
        BY <1>3
    <2>3. i <= n
        <3> SUFFICES ASSUME n < i PROVE FALSE
            BY <1>1
        <3>1. Place(n) < Place(i)
            BY <1>8, <1>10
        <3> QED
            BY <1>9, <2>0, <2>1, <2>2, <3>1
    <2>4. text[i].tag = "invokeOpen"
        BY <1>2, <2>1, <2>2
    <2>5. PICK m \in Matches(text, "invokeOpen", "invokeClose") : m[1] = i
        BY <1>5, <2>4, OpenBegins
    <2>6. /\ m[2] \in DOMAIN text /\ i < m[2] /\ text[m[2]].tag = "invokeClose"
          /\ \A k \in i .. m[2] : k \in InvokeAt(text)
        BY <2>5 DEF Matches, InvokeAt, MatchedAt
    <2>7. i \in i .. m[2] /\ m[2] \in i .. m[2]
        BY <1>1, <2>6
    <2>8. m[2] \in DOMAIN text \ A
        BY <1>6, <2>2, <2>6, <2>7
    <2>9. /\ Place(m[2]) \in DOMAIN rest /\ rest[Place(m[2])].tag = "invokeClose"
          /\ p < Place(m[2])
        <3>1. Place(i) < Place(m[2])
            BY <1>8, <1>10, <2>6, <2>8
        <3> QED
            BY <1>2, <2>2, <2>6, <2>8, <3>1
    <2>10. Place(m[2]) \notin p .. q - 1
        BY <2>1, <2>9
    <2>11. Place(n) <= Place(m[2])
        BY <1>9, <2>0, <2>1, <2>9, <2>10
    <2>12. n <= m[2]
        <3> SUFFICES ASSUME m[2] < n PROVE FALSE
            BY <1>1, <2>6
        <3>1. Place(m[2]) < Place(n)
            BY <1>4, <1>8, <1>10, <2>6
        <3> QED
            BY <1>9, <2>0, <2>9, <2>11, <3>1
    <2>13. n \in i .. m[2]
        BY <1>1, <1>4, <2>3, <2>6, <2>12
    <2> QED
        BY <2>6, <2>13
<1> QED
    BY <1>11, <1>12 DEF A, rest, Place

\* All that removing the markup leaves is the prose around it.
LEMMA ProseStays ==
    ASSUME NEW text \in AnyText, WellFormed(text)
    PROVE  Without(Without(text, "regionOpen", "regionClose"), "invokeOpen", "invokeClose")
            = FlattenSeq([n \in DOMAIN text |->
                    IF \/ Enclosed(text, n, "regionOpen", "regionClose")
                       \/ Enclosed(text, n, "invokeOpen", "invokeClose") THEN <<>> ELSE <<text[n]>>])
<1> DEFINE A == RegionAt(text)
           B == InvokeAt(text)
           rest == FlattenSeq(Left(text, A))
<1>1. Without(text, "regionOpen", "regionClose") = rest
    BY WithoutIsLeft DEF RegionAt
<1>2. Without(rest, "invokeOpen", "invokeClose") = FlattenSeq(Left(rest, InvokeAt(rest)))
    BY WithoutIsLeft DEF InvokeAt
<1> DEFINE C == InvokeAt(rest)
           stays == [n \in DOMAIN text |->
                        IF \/ Enclosed(text, n, "regionOpen", "regionClose")
                           \/ Enclosed(text, n, "invokeOpen", "invokeClose") THEN <<>> ELSE <<text[n]>>]
<1>3. \A n \in DOMAIN text \ A : PlaceOf(text, A, n) \in C <=> n \in B
    BY InvokesKeepTheirPlaces
<1>4. \A n \in DOMAIN text : (\/ Enclosed(text, n, "regionOpen", "regionClose")
                              \/ Enclosed(text, n, "invokeOpen", "invokeClose")) <=> n \in A \cup B
    BY WellFormedParts
<1> HIDE DEF A, B, C
<1>5. FlattenSeq(Left(rest, C)) = FlattenSeq(Left(text, A \cup B))
    <2>1. \A X, Y, Z : (\A n \in DOMAIN text \ X : PlaceOf(text, X, n) \in Z <=> n \in Y)
                => FlattenSeq(Left(FlattenSeq(Left(text, X)), Z)) = FlattenSeq(Left(text, X \cup Y))
        BY LeftTwice
    <2> QED
        BY <1>3, <2>1, Zenon
<1>6. Left(text, A \cup B) = stays
    BY <1>4 DEF Left
<1> QED
    BY <1>1, <1>2, <1>5, <1>6 DEF C

\* The calls of a text, each at the place of its invoke.
CallsAt(text) == [n \in DOMAIN text |-> IF n \in Named(text) THEN <<CallAt(text, n)>> ELSE <<>>]

\* Only an invoke with a name has a call there.
LEMMA CallsAtType ==
    ASSUME NEW text \in AnyText
    PROVE  /\ CallsAt(text) \in Seq(Seq(AnyCall)) /\ Len(CallsAt(text)) = Len(text)
           /\ DOMAIN CallsAt(text) = 1 .. Len(text) /\ DOMAIN text = 1 .. Len(text) /\ Len(text) \in Nat
           /\ \A n \in DOMAIN text : CallsAt(text)[n] = IF n \in Named(text) THEN <<CallAt(text, n)>> ELSE <<>>
<1> DEFINE one(n) == IF n \in Named(text) THEN <<CallAt(text, n)>> ELSE <<>>
<1>1. DOMAIN text = 1 .. Len(text) /\ Len(text) \in Nat
    BY DEF AnyText
<1>2. \A k \in DOMAIN text : text[k].name \in AnyName
    <2>1. \A k \in DOMAIN text : text[k] \in AnyToken
        BY ElementOfSeq DEF AnyText
    <2>2. \A t \in AnyToken : t.name \in AnyName
        BY DEF AnyToken, AnyName
    <2> QED
        BY <2>1, <2>2
<1>3. ASSUME NEW n \in DOMAIN text PROVE CallAt(text, n) \in AnyCall
    <2> DEFINE tool == mapToolName(text[n].name)
               params == {text[k].name : k \in {l \in n .. Len(text) :
                            text[l].tag = "param" /\ \A m \in n .. l : text[m].tag # "invokeClose"}}
               input == {mapParamName(tool, p) : p \in params}
    <2>1. CallAt(text, n) = [name |-> tool, input |-> input]
        BY DEF CallAt
    <2>2. tool \in AnyName
        BY <1>2, MappedNames
    <2>3. params \subseteq AnyName
        <3>1. n .. Len(text) \subseteq DOMAIN text
            BY <1>1
        <3> QED
            BY <1>2, <3>1
    <2> HIDE DEF tool, params
    <2>4. input \subseteq AnyName
        BY <2>2, <2>3, MappedNames
    <2> QED
        BY <2>1, <2>2, <2>4 DEF AnyCall
<1>4. ASSUME NEW n \in DOMAIN text PROVE one(n) \in Seq(AnyCall)
    BY <1>3
<1>5. CallsAt(text) = [n \in 1 .. Len(text) |-> one(n)]
    BY <1>1 DEF CallsAt
<1> HIDE DEF one
<1>6. CallsAt(text) \in Seq(Seq(AnyCall)) /\ Len(CallsAt(text)) = Len(text)
    BY <1>1, <1>4, <1>5, IsASeq
<1> QED
    BY <1>1, <1>5, <1>6 DEF one

\* What parseInvokes finds at an opening tag that begins a match.
LEMMA InvokeAtMatch ==
    ASSUME NEW body \in AnyText, NEW k \in DOMAIN body
    PROVE  LET e == Ends(body, "invokeOpen", "invokeClose", k)
               l == End(body, "invokeOpen", "invokeClose", k)
           IN  /\ \A m \in Matches(body, "invokeOpen", "invokeClose") : m[1] = k => e = {m[2]} /\ l = m[2]
               /\ (\A m \in Matches(body, "invokeOpen", "invokeClose") : m[1] # k) => e = {}
<1> DEFINE M == Matches(body, "invokeOpen", "invokeClose")
           e == Ends(body, "invokeOpen", "invokeClose", k)
<1>1. (\A m \in M : m[1] # k) => e = {}
    BY DEF Ends
<1>2. ASSUME NEW m \in M, m[1] = k PROVE e = {m[2]}
    <2>1. ASSUME NEW x \in M, x[1] = k PROVE x = m
        <3>1. DOMAIN body = 1 .. Len(body) /\ Len(body) \in Nat
            BY DEF AnyText
        <3>2. m[2] \in DOMAIN body /\ x[2] \in DOMAIN body /\ k < m[2] /\ k < x[2]
            BY <1>2, <2>1, MatchesWithin
        <3>3. k \in m[1] .. m[2] /\ k \in x[1] .. x[2]
            BY <1>2, <2>1, <3>1, <3>2
        <3> HIDE DEF M
        <3> QED
            BY <1>2, <2>1, <3>3, MatchesAreApart DEF M
    <2> QED
        BY <1>2, <2>1 DEF Ends
<1>3. ASSUME NEW m \in M, m[1] = k PROVE End(body, "invokeOpen", "invokeClose", k) = m[2]
    <2>1. Ends(body, "invokeOpen", "invokeClose", k) = {m[2]}
        BY <1>2, <1>3
    <2> QED
        BY <2>1 DEF End
<1> QED
    BY <1>1, <1>2, <1>3

\* parseInvokes of a part of a text that cuts no invoke finds its calls.
LEMMA InvokesOfPart ==
    ASSUME NEW text \in AnyText, Balanced(text, "invokeOpen", "invokeClose"),
           NEW a \in 0 .. Len(text), NEW b \in a .. Len(text),
           \A m \in Matches(text, "invokeOpen", "invokeClose") : m[1] \in a + 1 .. b => m[2] <= b
    PROVE  parseInvokes(SubSeq(text, a + 1, b)) = FlattenSeq(SubSeq(CallsAt(text), a + 1, b))
<1> DEFINE body == SubSeq(text, a + 1, b)
           at == SubSeq(CallsAt(text), a + 1, b)
           ends(k) == Ends(body, "invokeOpen", "invokeClose", k)
           last(k) == End(body, "invokeOpen", "invokeClose", k)
           name(k) == mapToolName(body[k].name)
           params(k) == {body[x].name : x \in {l \in k .. last(k) : body[l].tag = "param"}}
           one(k) == IF ends(k) = {} THEN <<>> ELSE IF name(k) = "" THEN <<>>
                     ELSE <<[name |-> name(k), input |-> {mapParamName(name(k), p) : p \in params(k)}]>>
<1>1. /\ DOMAIN text = 1 .. Len(text) /\ Len(text) \in Nat /\ a \in Nat /\ b \in Nat /\ b - a \in Nat
      /\ b <= Len(text)
    BY DEF AnyText
<1>2. parseInvokes(body) = FlattenSeq([k \in DOMAIN body |-> one(k)])
    BY DEF parseInvokes, JoinMatches, Ends, End
<1>3. /\ body \in AnyText /\ Len(body) = b - a /\ DOMAIN body = 1 .. b - a
      /\ \A k \in 1 .. b - a : body[k] = text[a + k]
    BY <1>1 DEF AnyText
<1>4. /\ DOMAIN at = 1 .. b - a /\ \A k \in 1 .. b - a : at[k] = CallsAt(text)[a + k]
      /\ at = [k \in 1 .. b - a |-> at[k]]
    BY <1>1, CallsAtType
<1> HIDE DEF body, at
<1>5. ASSUME NEW k \in 1 .. b - a, NEW n, n = a + k PROVE one(k) = at[k]
    <2>1. n \in DOMAIN text /\ n \in a + 1 .. b /\ body[k] = text[n] /\ k \in DOMAIN body
        BY <1>1, <1>3, <1>5
    <2>2. at[k] = IF n \in Named(text) THEN <<CallAt(text, n)>> ELSE <<>>
        BY <1>4, <1>5, <2>1, CallsAtType
    <2>3. CASE text[n].tag # "invokeOpen"
        <3>1. \A m \in Matches(body, "invokeOpen", "invokeClose") : m[1] # k
            BY <2>1, <2>3 DEF Matches
        <3>2. ends(k) = {}
            BY <1>3, <2>1, <3>1, InvokeAtMatch
        <3> QED
            BY <2>2, <2>3, <3>2 DEF Named
    <2>4. CASE text[n].tag = "invokeOpen"
        <3>1. PICK m \in Matches(text, "invokeOpen", "invokeClose") : m[1] = n
            BY <2>1, <2>4, OpenBegins
        <3> DEFINE e == m[2]
                   l == e - a
        <3>2. /\ e \in DOMAIN text /\ n < e /\ text[e].tag = "invokeClose"
              /\ \A x \in n .. e - 1 : text[x].tag # "invokeClose"
              /\ \A x \in 1 .. n - 1 : text[x].tag = "invokeOpen" => \E y \in x .. n : text[y].tag = "invokeClose"
            BY <3>1 DEF Matches
        <3>3. e <= b
            BY <2>1, <3>1
        <3> HIDE DEF e
        <3>4. l \in 1 .. b - a /\ k < l /\ a + l = e /\ e \in Nat /\ k \in Nat
            BY <1>1, <1>5, <3>2, <3>3
        <3> HIDE DEF l
        <3>5. <<k, l>> \in Matches(body, "invokeOpen", "invokeClose")
            <4>1. body[k].tag = "invokeOpen" /\ body[l].tag = "invokeClose"
                BY <1>3, <2>1, <2>4, <3>2, <3>4
            <4>2. \A x \in k .. l - 1 : body[x].tag # "invokeClose"
                <5> SUFFICES ASSUME NEW x \in k .. l - 1 PROVE body[x].tag # "invokeClose"
                    OBVIOUS
                <5>1. x \in 1 .. b - a /\ a + x \in n .. e - 1
                    BY <1>1, <1>5, <3>4
                <5> QED
                    BY <1>3, <3>2, <5>1
            <4>3. ASSUME NEW x \in 1 .. k - 1, body[x].tag = "invokeOpen"
                  PROVE  \E y \in x .. k : body[y].tag = "invokeClose"
                <5>1. x \in 1 .. b - a /\ a + x \in 1 .. n - 1
                    BY <1>1, <1>5, <3>4
                <5>2. PICK y \in a + x .. n : text[y].tag = "invokeClose"
                    BY <1>3, <3>2, <4>3, <5>1
                <5>3. y - a \in x .. k /\ y - a \in 1 .. b - a /\ a + (y - a) = y
                    BY <1>1, <1>5, <2>1, <5>1
                <5> QED
                    BY <1>3, <5>2, <5>3
            <4>4. <<k, l>> \in (DOMAIN body) \X (DOMAIN body) /\ <<k, l>>[1] = k /\ <<k, l>>[2] = l
                BY <1>3, <3>4
            <4> QED
                BY <3>4, <4>1, <4>2, <4>3, <4>4 DEF Matches
        <3>6. ends(k) = {l} /\ last(k) = l
            <4>1. <<k, l>>[1] = k /\ <<k, l>>[2] = l
                OBVIOUS
            <4>2. \A x \in Matches(body, "invokeOpen", "invokeClose") :
                        x[1] = k => ends(k) = {x[2]} /\ last(k) = x[2]
                BY <1>3, <2>1, InvokeAtMatch
            <4> QED
                BY <3>5, <4>1, <4>2
        <3> DEFINE own == {text[x].name : x \in {y \in n .. Len(text) :
                            text[y].tag = "param" /\ \A z \in n .. y : text[z].tag # "invokeClose"}}
        <3>7. params(k) = own
            <4>1. ASSUME NEW x \in k .. l, body[x].tag = "param"
                  PROVE  /\ a + x \in n .. Len(text) /\ text[a + x] = body[x]
                         /\ \A z \in n .. a + x : text[z].tag # "invokeClose"
                <5>1. x \in 1 .. b - a /\ a + x \in n .. e
                    BY <1>1, <1>5, <3>4
                <5>2. text[a + x] = body[x]
                    BY <1>3, <5>1
                <5>3. a + x # e
                    BY <3>2, <4>1, <5>2
                <5>4. \A z \in n .. a + x : z \in n .. e - 1
                    BY <1>1, <2>1, <3>4, <5>1, <5>3
                <5>5. a + x \in n .. Len(text)
                    BY <1>1, <3>3, <3>4, <5>1
                <5> QED
                    BY <3>2, <5>2, <5>4, <5>5
            <4>2. ASSUME NEW y \in n .. Len(text), text[y].tag = "param",
                         \A z \in n .. y : text[z].tag # "invokeClose"
                  PROVE  y - a \in k .. l /\ body[y - a] = text[y]
                <5>1. e \notin n .. y
                    BY <3>2, <4>2
                <5>2. y - a \in k .. l /\ y - a \in 1 .. b - a /\ a + (y - a) = y
                    BY <1>1, <1>5, <2>1, <3>2, <3>4, <5>1
                <5> QED
                    BY <1>3, <5>2
            <4>3. params(k) = {body[x].name : x \in {y \in k .. l : body[y].tag = "param"}}
                BY <3>6
            <4> HIDE DEF params
            <4>4. params(k) \subseteq own
                BY <4>1, <4>3
            <4>5. own \subseteq params(k)
                <5> SUFFICES ASSUME NEW y \in n .. Len(text), text[y].tag = "param",
                                    \A z \in n .. y : text[z].tag # "invokeClose"
                             PROVE  text[y].name \in params(k)
                    OBVIOUS
                <5>1. y - a \in k .. l /\ body[y - a] = text[y]
                    BY <4>2
                <5>2. body[y - a].name \in params(k)
                    BY <4>3, <5>1
                <5> QED
                    BY <5>1, <5>2
            <4> QED
                BY <4>4, <4>5
        <3>8. name(k) = mapToolName(text[n].name)
            BY <2>1
        <3>9. name(k) = "" <=> text[n].name = ""
            BY <3>8 DEF mapToolName
        <3>10. CallAt(text, n) = [name |-> name(k), input |-> {mapParamName(name(k), p) : p \in params(k)}]
            BY <3>7, <3>8 DEF CallAt
        <3>11. ends(k) # {}
            BY <3>6
        <3>12. n \in Named(text) <=> name(k) # ""
            BY <2>1, <2>4, <3>9 DEF Named
        <3> HIDE DEF ends, name, params
        <3> QED
            BY <2>2, <3>10, <3>11, <3>12
    <2> QED
        BY <2>3, <2>4
<1> HIDE DEF one
<1>6. [k \in DOMAIN body |-> one(k)] = at
    <2>1. \A k \in 1 .. b - a : one(k) = at[k]
        BY <1>5
    <2> QED
        BY <1>3, <1>4, <2>1
<1> QED
    BY <1>2, <1>6 DEF at, body

\* The regions have the calls that are written in them, and cut none.
LEMMA RegionCalls ==
    ASSUME NEW text \in AnyText, WellFormed(text), Unmixed(text)
    PROVE  parseDSMLRegions(text) \in {<<>>, FlattenSeq(CallsAt(text))}
<1> DEFINE M == Matches(text, "regionOpen", "regionClose")
           at == CallsAt(text)
           ends(i) == Ends(text, "regionOpen", "regionClose", i)
           last(i) == End(text, "regionOpen", "regionClose", i)
           one(i) == IF ends(i) = {} THEN <<>> ELSE parseInvokes(SubSeq(text, i + 1, last(i) - 1))
           parts == [i \in DOMAIN text |-> one(i)]
           inside == {n \in Named(text) : n \in RegionAt(text)}
<1>1. /\ at \in Seq(Seq(AnyCall)) /\ Len(at) = Len(text) /\ DOMAIN at = 1 .. Len(text)
      /\ DOMAIN text = 1 .. Len(text) /\ Len(text) \in Nat
      /\ \A n \in DOMAIN text : at[n] = IF n \in Named(text) THEN <<CallAt(text, n)>> ELSE <<>>
    BY CallsAtType
<1>2. parseDSMLRegions(text) = FlattenSeq(parts)
    BY DEF parseDSMLRegions, JoinMatches, Ends, End
<1>3. ASSUME NEW m \in M
      PROVE  /\ m[1] \in 1 .. Len(text) /\ m[2] \in 1 .. Len(text) /\ m[1] < m[2]
             /\ text[m[1]].tag = "regionOpen" /\ text[m[2]].tag = "regionClose"
             /\ \A n \in m[1] .. m[2] : n \in RegionAt(text)
    BY <1>1 DEF Matches, RegionAt, MatchedAt
<1>4. ASSUME NEW i \in DOMAIN text, \A m \in M : m[1] # i PROVE ends(i) = {}
    BY <1>4 DEF Ends
<1>5. ASSUME NEW m \in M PROVE ends(m[1]) = {m[2]} /\ last(m[1]) = m[2]
    <2>1. ASSUME NEW x \in M, x[1] = m[1] PROVE x = m
        <3>1. /\ m[1] \in DOMAIN text /\ m[1] \in m[1] .. m[2] /\ m[1] \in x[1] .. x[2]
            BY <1>1, <1>3, <2>1
        <3> QED
            BY <3>1, MatchesAreApart
    <2>2. ends(m[1]) = {m[2]}
        BY <2>1 DEF Ends
    <2> QED
        BY <2>2 DEF End
<1>6. ASSUME NEW m \in M
      PROVE  parts[m[1]] = FlattenSeq(SubSeq(at, m[1] + 1, m[2] - 1))
    <2> DEFINE a == m[1]
               b == m[2] - 1
    <2>1. /\ a \in 0 .. Len(text) /\ b \in a .. Len(text) /\ a \in DOMAIN text
        BY <1>1, <1>3
    <2>2. ASSUME NEW x \in Matches(text, "invokeOpen", "invokeClose"), x[1] \in a + 1 .. b PROVE x[2] <= b
        <3>1. m[2] \notin InvokeAt(text) /\ m[2] \in DOMAIN text
            BY <1>1, <1>3, WellFormedParts
        <3>2. m[2] \notin x[1] .. x[2]
            BY <3>1 DEF InvokeAt, MatchedAt
        <3>3. x[2] \in DOMAIN text /\ x[1] \in DOMAIN text
            BY DEF Matches
        <3> QED
            BY <1>1, <1>3, <2>2, <3>2, <3>3
    <2>3. Balanced(text, "invokeOpen", "invokeClose")
        BY WellFormedParts
    <2>4. parts[a] = parseInvokes(SubSeq(text, a + 1, b))
        BY <1>5, <2>1
    <2> HIDE DEF a, b, parts, at
    <2>5. parseInvokes(SubSeq(text, a + 1, b)) = FlattenSeq(SubSeq(at, a + 1, b))
        BY <2>1, <2>2, <2>3, InvokesOfPart DEF at
    <2> QED
        BY <2>4, <2>5 DEF a, b
<1>7. \A n \in DOMAIN text : (\A m \in M : m[1] # n) => parts[n] = <<>>
    BY <1>4
<1>8. DOMAIN parts = 1 .. Len(text) /\ parts = [n \in 1 .. Len(text) |-> parts[n]]
    BY <1>1
<1> HIDE DEF parts, at, M
<1>9. ASSUME NEW n \in 1 .. Len(text) PROVE parts[n] \in Seq(AnyCall)
    <2>1. CASE \A m \in M : m[1] # n
        <3>1. parts[n] = <<>>
            BY <1>1, <1>7, <2>1
        <3> QED
            BY <3>1, EmptySeq
    <2>2. CASE \E m \in M : m[1] = n
        <3>1. PICK m \in M : m[1] = n
            BY <2>2
        <3>2. SubSeq(at, n + 1, m[2] - 1) \in Seq(Seq(AnyCall))
            BY <1>1, <1>3, <3>1
        <3>3. FlattenSeq(SubSeq(at, n + 1, m[2] - 1)) \in Seq(AnyCall)
            BY <3>2, FlattenType
        <3> QED
            BY <1>6, <3>1, <3>3
    <2> QED
        BY <2>1, <2>2
<1>10. parts \in Seq(Seq(AnyCall)) /\ Len(parts) = Len(text)
    BY <1>1, <1>8, <1>9, IsASeq
<1>11. inside \in {{}, Named(text)}
    <2>1. \A n \in Named(text) : n \in DOMAIN text
        BY DEF Named
    <2>2. inside = {n \in Named(text) : Enclosed(text, n, "regionOpen", "regionClose")}
        BY <2>1, WellFormedParts
    <2> QED
        BY <2>2 DEF Unmixed
<1>12. CASE inside = {}
    <2>1. ASSUME NEW n \in DOMAIN parts PROVE parts[n] = <<>>
        <3>1. CASE \A m \in M : m[1] # n
            BY <1>1, <1>7, <1>8, <3>1
        <3>2. CASE \E m \in M : m[1] = n
            <4>1. PICK m \in M : m[1] = n
                BY <3>2
            <4> DEFINE a == m[1]
                       b == m[2] - 1
                       own == SubSeq(at, a + 1, b)
            <4>2. a \in Nat /\ b \in Nat /\ b - a \in Nat /\ b <= Len(text)
                BY <1>1, <1>3, SMTT(30)
            <4>3. ASSUME NEW k \in a + 1 .. b PROVE at[k] = <<>>
                <5>1. k \in m[1] .. m[2] /\ k \in DOMAIN text
                    BY <1>1, <1>3, SMTT(30)
                <5> QED
                    BY <1>1, <1>3, <1>12, <5>1
            <4> HIDE DEF a, b
            <4>4. /\ own \in Seq(Seq(AnyCall)) /\ DOMAIN own = 1 .. b - a
                  /\ \A k \in 1 .. b - a : own[k] = at[a + k] /\ a + k \in a + 1 .. b
                BY <1>1, <4>2
            <4> HIDE DEF own
            <4>5. FlattenSeq(own) = <<>>
                BY <4>3, <4>4, FlattenEmpties
            <4> QED
                BY <1>6, <4>1, <4>5 DEF own, a, b
        <3> QED
            BY <3>1, <3>2
    <2>2. FlattenSeq(parts) = <<>>
        BY <1>10, <2>1, FlattenEmpties
    <2> QED
        BY <1>2, <2>2
<1>13. CASE inside = Named(text)
    <2>1. ASSUME NEW n \in DOMAIN text, \A m \in M : ~ (m[1] < n /\ n < m[2]) PROVE at[n] = <<>>
        <3> SUFFICES ASSUME n \in Named(text) PROVE FALSE
            BY <1>1
        <3>1. n \in RegionAt(text) /\ text[n].tag = "invokeOpen"
            BY <1>13 DEF Named
        <3>2. PICK m \in M : n \in m[1] .. m[2]
            BY <3>1 DEF RegionAt, MatchedAt, M
        <3>3. n # m[1] /\ n # m[2]
            BY <1>3, <3>1
        <3>4. m[1] < n /\ n < m[2]
            BY <1>1, <1>3, <3>2, <3>3
        <3> QED
            BY <2>1, <3>4
    <2>2. FlattenSeq(parts) = FlattenSeq(at)
        <3>1. InMatches(text, "regionOpen", "regionClose", parts, at)
            BY <1>6, <1>7, <2>1 DEF M, InMatches
        <3>2. "regionOpen" # "regionClose" /\ Len(parts) = Len(text) /\ Len(at) = Len(text)
            BY <1>1, <1>10
        <3> QED
            BY <1>1, <1>10, <3>1, <3>2, PartsOfMatches
    <2> QED
        BY <1>2, <2>2 DEF at
<1> QED
    BY <1>11, <1>12, <1>13

\* A text whose tags match gives each of its calls, and keeps its prose
\* (StripAndParseDSML).
LEMMA CallsOfText ==
    ASSUME NEW text \in AnyText, WellFormed(text), Unmixed(text), Named(text) # {}
    PROVE  /\ StripAndParseDSML(text).ok
           /\ StripAndParseDSML(text).calls = FlattenSeq(CallsAt(text))
           /\ StripAndParseDSML(text).clean
                = Without(Without(text, "regionOpen", "regionClose"), "invokeOpen", "invokeClose")
<1>1. /\ CallsAt(text) \in Seq(Seq(AnyCall)) /\ DOMAIN CallsAt(text) = 1 .. Len(text)
      /\ DOMAIN text = 1 .. Len(text) /\ Len(text) \in Nat
      /\ \A n \in DOMAIN text : CallsAt(text)[n] = IF n \in Named(text) THEN <<CallAt(text, n)>> ELSE <<>>
      /\ Len(CallsAt(text)) = Len(text)
    BY CallsAtType
<1>2. parseInvokes(text) = FlattenSeq(CallsAt(text))
    <2>1. 0 \in 0 .. Len(text) /\ Len(text) \in 0 .. Len(text)
        BY <1>1
    <2>2. \A m \in Matches(text, "invokeOpen", "invokeClose") : m[2] <= Len(text)
        BY <1>1, MatchesWithin
    <2>3. parseInvokes(SubSeq(text, 0 + 1, Len(text))) = FlattenSeq(SubSeq(CallsAt(text), 0 + 1, Len(text)))
        BY <2>1, <2>2, WellFormedParts, InvokesOfPart
    <2>4. SubSeq(text, 1, Len(text)) = text
        BY SubSeqFull DEF AnyText
    <2>5. SubSeq(CallsAt(text), 1, Len(text)) = CallsAt(text)
        BY <1>1, SubSeqFull
    <2>6. 0 + 1 = 1
        OBVIOUS
    <2> QED
        BY <2>3, <2>4, <2>5, <2>6
<1>3. FlattenSeq(CallsAt(text)) # <<>>
    <2>1. PICK n \in Named(text) : TRUE
        OBVIOUS
    <2>2. n \in DOMAIN CallsAt(text) /\ 1 \in DOMAIN CallsAt(text)[n]
        <3>1. n \in DOMAIN text
            BY DEF Named
        <3>2. CallsAt(text)[n] = <<CallAt(text, n)>> /\ n \in DOMAIN CallsAt(text)
            BY <1>1, <3>1
        <3> QED
            BY <3>2
    <2>3. \E i \in DOMAIN FlattenSeq(CallsAt(text)) : TRUE
        BY <1>1, <2>2, FlattenElements
    <2> QED
        BY <2>3
<1>4. ContainsDSML(text)
    <2>1. PICK n \in DOMAIN text : text[n].tag = "invokeOpen"
        BY DEF Named
    <2>2. "invokeOpen" \in Tags(text)
        BY <2>1 DEF Tags
    <2> QED
        BY <2>2 DEF ContainsDSML, Marked, Keyed
<1>5. parseDSMLRegions(text) \in {<<>>, FlattenSeq(CallsAt(text))}
    BY RegionCalls
<1> DEFINE calls == IF parseDSMLRegions(text) # <<>> THEN parseDSMLRegions(text) ELSE parseInvokes(text)
<1>6. calls = FlattenSeq(CallsAt(text))
    BY <1>2, <1>5
<1>7. StripAndParseDSML(text) = [ok |-> TRUE, calls |-> calls,
          clean |-> Without(Without(text, "regionOpen", "regionClose"), "invokeOpen", "invokeClose")]
    BY <1>3, <1>4, <1>6 DEF StripAndParseDSML
<1> HIDE DEF calls
<1> QED
    BY <1>6, <1>7

\* What is told has the text and the calls it is made of.
LEMMA ToldHas ==
    ASSUME NEW clean \in AnyText, NEW calls \in Seq(AnyCall)
    PROVE  LET message == Told(clean, calls)
           IN  /\ Texts(message) = clean
               /\ FlattenSeq([b \in DOMAIN message |->
                        IF message[b].type # "tool_use" THEN <<>>
                        ELSE <<[name |-> message[b].name, input |-> message[b].input]>>]) = calls
<1> DEFINE prose == IF clean = <<>> THEN <<>> ELSE <<TextBlock(clean)>>
           uses == ToolUses(calls)
           message == Told(clean, calls)
           n == Len(prose)
           texts == [b \in DOMAIN message |-> message[b].text]
           used(x) == IF x.type # "tool_use" THEN <<>> ELSE <<[name |-> x.name, input |-> x.input]>>
           found == [b \in DOMAIN message |-> used(message[b])]
           ptexts == IF clean = <<>> THEN <<>> ELSE <<clean>>
           utexts == [i \in 1 .. Len(calls) |-> <<>>]
           pfound == [i \in 1 .. n |-> <<>>]
           ufound == [i \in 1 .. Len(calls) |-> <<calls[i]>>]
<1>1. /\ uses \in Seq(Tellable) /\ Len(uses) = Len(calls) /\ Len(calls) \in Nat
      /\ \A i \in 1 .. Len(calls) : uses[i] = ToolUse(DsmlId(i), calls[i].name, calls[i].input)
    BY ToolUsesType
<1>2. \A id, name, input : LET t == ToolUse(id, name, input)
                           IN  t.type = "tool_use" /\ t.text = <<>> /\ t.name = name /\ t.input = input
    BY DEF ToolUse
<1>3. TextBlock(clean).type = "text" /\ TextBlock(clean).text = clean
    BY DEF TextBlock
<1>4. prose \in Seq(Tellable) /\ n \in 0 .. 1 /\ n = Len(ptexts)
      /\ \A i \in 1 .. n : prose[i] = TextBlock(clean) /\ ptexts[i] = clean
    <2>1. CASE clean = <<>>
        BY <2>1, EmptySeq
    <2>2. CASE clean # <<>>
        <3>1. prose = <<TextBlock(clean)>> /\ ptexts = <<clean>> /\ TextBlock(clean) \in Tellable
            BY <2>2, TextBlockType DEF Tellable
        <3> QED
            BY <3>1
    <2> QED
        BY <2>1, <2>2
<1>5. message = prose \o uses
    BY DEF Told
<1> HIDE DEF prose, uses, message, ptexts
<1>6. /\ DOMAIN message = 1 .. n + Len(calls) /\ n \in Nat
      /\ \A i \in 1 .. n : message[i] = prose[i]
      /\ \A i \in 1 .. Len(calls) : message[n + i] = uses[i]
    BY <1>1, <1>4, <1>5
<1> HIDE DEF n
<1>7. \A i \in 1 .. Len(calls) : calls[i] \in AnyCall /\ calls[i] = [name |-> calls[i].name, input |-> calls[i].input]
    <2>1. \A i \in 1 .. Len(calls) : calls[i] \in AnyCall
        BY ElementOfSeq
    <2>2. \A c \in AnyCall : c = [name |-> c.name, input |-> c.input]
        BY DEF AnyCall
    <2> QED
        BY <2>1, <2>2
<1>8. utexts \in Seq(Seq(AnyToken)) /\ Len(utexts) = Len(calls) /\ FlattenSeq(utexts) = <<>>
    <2>1. utexts \in Seq(Seq(AnyToken)) /\ Len(utexts) = Len(calls) /\ \A k \in DOMAIN utexts : utexts[k] = <<>>
        BY <1>1, EmptySeq, IsASeq
    <2> HIDE DEF utexts
    <2> QED
        BY <2>1, FlattenEmpties
<1>9. pfound \in Seq(Seq(AnyCall)) /\ Len(pfound) = n /\ FlattenSeq(pfound) = <<>>
    <2>1. pfound \in Seq(Seq(AnyCall)) /\ Len(pfound) = n /\ \A k \in DOMAIN pfound : pfound[k] = <<>>
        BY <1>6, EmptySeq, IsASeq
    <2> HIDE DEF pfound
    <2> QED
        BY <2>1, FlattenEmpties
<1>10. ufound \in Seq(Seq(AnyCall)) /\ Len(ufound) = Len(calls) /\ FlattenSeq(ufound) = calls
    <2>1. \A i \in 1 .. Len(calls) : <<calls[i]>> \in Seq(AnyCall)
        BY <1>7
    <2>2. ufound \in Seq(Seq(AnyCall)) /\ Len(ufound) = Len(calls) /\ \A k \in DOMAIN calls : ufound[k] = <<calls[k]>>
        BY <1>1, <2>1, IsASeq
    <2> HIDE DEF ufound
    <2> QED
        BY <2>2, FlattenSingles
<1>11. ptexts \in Seq(Seq(AnyToken)) /\ FlattenSeq(ptexts) = clean
    <2>1. CASE clean = <<>>
        <3>1. ptexts = <<>> /\ FlattenSeq(<<>>) = <<>>
            BY <2>1 DEF ptexts, FlattenSeq
        <3> QED
            BY <2>1, <3>1, EmptySeq
    <2>2. CASE clean # <<>>
        <3>1. ptexts = <<clean>> /\ clean \in Seq(AnyToken)
            BY <2>2 DEF ptexts, AnyText
        <3>2. ptexts \in Seq(Seq(AnyToken)) /\ Len(ptexts) = 1 /\ ptexts # <<>> /\ ptexts[1] = clean
            BY <3>1
        <3>3. FlattenSeq(ptexts) = ptexts[1]
            BY <3>2, FlattenFirst, SMTT(30)
        <3> QED
            BY <3>2, <3>3
    <2> QED
        BY <2>1, <2>2
<1>12. texts = ptexts \o utexts
    <2>1. \A i \in 1 .. n : texts[i] = ptexts[i]
        BY <1>3, <1>4, <1>6
    <2>2. \A i \in 1 .. Len(calls) : texts[n + i] = utexts[i]
        BY <1>1, <1>2, <1>6
    <2>3. DOMAIN texts = 1 .. n + Len(calls) /\ texts = [b \in DOMAIN texts |-> texts[b]]
        BY <1>6
    <2> HIDE DEF texts, utexts
    <2>4. n = Len(ptexts) /\ Len(calls) = Len(utexts) /\ ptexts \in Seq(Seq(AnyToken)) /\ utexts \in Seq(Seq(AnyToken))
        BY <1>4, <1>8, <1>9, <1>10, <1>11
    <2> QED
        BY <2>1, <2>2, <2>3, <2>4, IsConcat, ZenonT(60)
<1>13. found = pfound \o ufound
    <2>1. \A i \in 1 .. n : found[i] = pfound[i]
        BY <1>3, <1>4, <1>6
    <2>2. \A i \in 1 .. Len(calls) : found[n + i] = ufound[i]
        BY <1>1, <1>2, <1>6, <1>7
    <2>3. DOMAIN found = 1 .. n + Len(calls) /\ found = [b \in DOMAIN found |-> found[b]]
        BY <1>6
    <2> HIDE DEF found, ufound, pfound
    <2>4. n = Len(pfound) /\ Len(calls) = Len(ufound) /\ pfound \in Seq(Seq(AnyCall)) /\ ufound \in Seq(Seq(AnyCall))
        BY <1>4, <1>8, <1>9, <1>10, <1>11
    <2> QED
        BY <2>1, <2>2, <2>3, <2>4, IsConcat, ZenonT(60)
<1>14. FlattenSeq(texts) = clean
    <2>1. FlattenSeq(ptexts \o utexts) = clean \o <<>>
        BY <1>8, <1>11, FlattenConcat
    <2> QED
        BY <1>12, <2>1, ConcatEmptySeq DEF AnyText
<1>15. FlattenSeq(found) = calls
    <2>1. FlattenSeq(pfound \o ufound) = <<>> \o calls
        BY <1>9, <1>10, FlattenConcat, ZenonT(60)
    <2> QED
        BY <1>13, <2>1, ConcatEmptySeq
<1> QED
    BY <1>14, <1>15 DEF Texts, message

\* In a text of any length whose tags match, each named invoke becomes one call
\* with its own parameters, and all of the prose stays: in every form an answer
\* may have (StripAndParseDSML).
THEOREM CallsOnceAndAllProse == Spec => []EveryCallOnceAndAllProse
<1>1. AnswerInv /\ (form \in Forms \cup {"unsent"}) /\ StreamAgreesWithMessage => EveryCallOnceAndAllProse
    <2> SUFFICES ASSUME AnswerInv, form \in Forms \cup {"unsent"}, StreamAgreesWithMessage,
                        HasEnded, IsText, cut = {},
                        WellFormed(content[1].text), Unmixed(content[1].text), Named(content[1].text) # {}
                 PROVE  LET text == content[1].text
                            calls == FlattenSeq([n \in DOMAIN text |->
                                        IF n \in Named(text) THEN <<CallAt(text, n)>> ELSE <<>>])
                            prose == FlattenSeq([n \in DOMAIN text |->
                                        IF \/ Enclosed(text, n, "regionOpen", "regionClose")
                                           \/ Enclosed(text, n, "invokeOpen", "invokeClose")
                                        THEN <<>> ELSE <<text[n]>>])
                            uses == FlattenSeq([b \in DOMAIN client.blocks |->
                                        IF client.blocks[b].type # "tool_use" THEN <<>>
                                        ELSE <<[name |-> client.blocks[b].name, input |-> client.blocks[b].input]>>])
                        IN  uses = calls /\ Texts(client.blocks) = prose
        BY DEF EveryCallOnceAndAllProse
    <2> DEFINE text == content[1].text
               parsed == StripAndParseDSML(text)
    <2>1. \A blocks, stop : Whole(blocks, stop).blocks = blocks
        BY DEF Whole
    <2>2. content \in Seq(AnyBlock) /\ Len(content) = 1 /\ content[1].type = "text"
        BY DEF AnswerInv, IsText
    <2>3. client.blocks = RewriteClaudeMessageDSML(content)
        <3>1. CASE ~isStream
            BY <2>1, <3>1, StreamRead
        <3>2. CASE isStream
            BY <2>1, <3>2 DEF StreamAgreesWithMessage
        <3> QED
            BY <3>1, <3>2
    <2>4. text \in AnyText /\ (parsed.ok => RewriteClaudeMessageDSML(content) = Told(parsed.clean, parsed.calls))
        BY <2>2, OneText
    <2>5. /\ parsed.ok /\ parsed.calls = FlattenSeq(CallsAt(text))
          /\ parsed.clean
                = Without(Without(text, "regionOpen", "regionClose"), "invokeOpen", "invokeClose")
        BY <2>4, CallsOfText
    <2>6. parsed.clean \in AnyText /\ parsed.calls \in Seq(AnyCall)
        BY <2>4, StripType
    <2> HIDE DEF text, parsed
    <2>7. client.blocks = Told(parsed.clean, parsed.calls)
        BY <2>3, <2>4, <2>5
    <2>8. /\ Texts(client.blocks) = parsed.clean
          /\ FlattenSeq([b \in DOMAIN client.blocks |->
                IF client.blocks[b].type # "tool_use" THEN <<>>
                ELSE <<[name |-> client.blocks[b].name, input |-> client.blocks[b].input]>>]) = parsed.calls
        BY <2>6, <2>7, ToldHas
    <2>9. parsed.clean = FlattenSeq([n \in DOMAIN text |->
                            IF \/ Enclosed(text, n, "regionOpen", "regionClose")
                               \/ Enclosed(text, n, "invokeOpen", "invokeClose") THEN <<>> ELSE <<text[n]>>])
        BY <2>4, <2>5, ProseStays DEF text
    <2>10. parsed.calls = FlattenSeq([n \in DOMAIN text |->
                            IF n \in Named(text) THEN <<CallAt(text, n)>> ELSE <<>>])
        BY <2>5 DEF CallsAt
    <2> QED
        BY <2>8, <2>9, <2>10 DEF text
<1> QED
    BY <1>1, AnswerAlways, FormAlways, StreamsAgreeWithMessages, PTL

=============================================================================
