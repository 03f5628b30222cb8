----------------------------- MODULE ByteStream -----------------------------
(***************************************************************************)
(* What every reader of a byte stream promises, whatever pieces its input  *)
(* comes in: what it passes on is the beginning of what was sent, and it   *)
(* says "complete" only when everything has been passed on.                *)
(***************************************************************************)
EXTENDS SequencesExt

VARIABLES sent,    \* the bytes that the other side means
          out,     \* the bytes passed on so far
          ended    \* whether the reader has said that this is all

Init == /\ out = <<>>
        /\ ended = FALSE

Deliver == /\ ~ended
           /\ out' \in Prefixes(sent)
           /\ IsStrictPrefix(out, out')
           /\ UNCHANGED <<sent, ended>>

Finish == /\ out = sent
          /\ ended' = TRUE
          /\ UNCHANGED <<sent, out>>

Spec == Init /\ [][Deliver \/ Finish]_<<sent, out, ended>>
=============================================================================
