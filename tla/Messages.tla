------------------------------ MODULE Messages ------------------------------
(***************************************************************************)
(* The messages of a conversation, in the shapes clients and the upstream  *)
(* give them: Claude messages carry calls and results as content blocks,   *)
(* chat messages in tool_calls and tool_call_id.                           *)
(*                                                                         *)
(* A block is its type and what it refers to: the text (or image) itself,  *)
(* or the id of a call.  What a call asks and what a result says travels   *)
(* with the id and is left out.                                            *)
(***************************************************************************)
EXTENDS Ids, SequencesExt

Block(type, ref) == [type |-> type, ref |-> ref]

\* The places of blocks of some types, and the blocks at some places.
Places(m, types) == {n \in DOMAIN m.blocks : m.blocks[n].type \in types}
BlocksAt(m, places) == FlattenSeq([n \in DOMAIN m.blocks |-> IF n \in places THEN <<m.blocks[n]>> ELSE <<>>])
BlocksOf(m, types) == BlocksAt(m, Places(m, types))

\* role and content; isString tells a content that is one string from one that
\* is an array of blocks.
Message(role, isString, blocks) ==
    [role |-> role, isString |-> isString, blocks |-> blocks,
     calls |-> <<>>, id |-> NoId, reasoning |-> "none"]

\* role "tool", tool_call_id
ToolMessage(id) == [Message("tool", TRUE, <<>>) EXCEPT !.id = id]

=============================================================================
