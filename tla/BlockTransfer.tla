--------------------------- MODULE BlockTransfer ----------------------------
(***************************************************************************)
(* What svshm_xfr_writer and svshm_xfr_reader promise together: a stream   *)
(* of blocks goes from the writer's stdin to the reader's stdout, in       *)
(* order, once each, with at most one block under way at a time.           *)
(***************************************************************************)
EXTENDS Naturals, Sequences

CONSTANT NBlocks    \* number of blocks on the writer's stdin

VARIABLES
  sent,   \* blocks the writer has taken from its stdin; block k is numbered k
  out     \* what the reader has written to its stdout

Init == sent = 0 /\ out = <<>>

\* the writer takes the next block, the previous one having arrived
Send ==
  /\ sent < NBlocks /\ Len(out) = sent
  /\ sent' = sent + 1
  /\ UNCHANGED out

\* the block under way arrives
Deliver ==
  /\ Len(out) < sent
  /\ out' = Append(out, sent)
  /\ UNCHANGED sent

Next == Send \/ Deliver

Spec == Init /\ [][Next]_<<sent, out>>
=============================================================================
