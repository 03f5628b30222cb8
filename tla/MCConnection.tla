---------------------------- MODULE MCConnection ----------------------------
(* Connection for TLC, with bodies that look like chunk framing.           *)
EXTENDS Connection, SequencesExt

Blocks == {<<"a">>, <<"cr", "lf">>, <<"1", "cr", "lf">>}
EndOf(blocks, n) == Len(FlattenSeq(SubSeq(blocks, 1, n)))
Reply(blocks) ==
  [body |-> FlattenSeq(blocks),
   cuts |-> [i \in 1 .. Len(blocks) + 1 |-> EndOf(blocks, i - 1)] \o <<EndOf(blocks, Len(blocks))>>]
MCReplies == {Reply(blocks) : blocks \in BoundedSeq(Blocks, 2)}
=============================================================================
