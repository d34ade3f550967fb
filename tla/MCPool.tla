------------------------------- MODULE MCPool -------------------------------
(***************************************************************************)
(* The resource pool under names that leave room for the other programs of *)
(* Go: its run and, beside theirs, its proofs are about these definitions. *)
(***************************************************************************)
EXTENDS Integers

CONSTANTS Clients, Closers, Size, MaxRes, NoOne  \* see Pool

ASSUME PoolAssumption ==
  /\ Size \in Nat \ {0}          \* New rejects size <= 0
  /\ MaxRes \in Nat
  /\ NoOne \notin Clients \cup Closers
  /\ Clients \cap Closers = {}

VARIABLES resources, chanClosed, poolClosed, m, idCounter, pc, conn, closeCnt

PL == INSTANCE Pool WITH closed <- poolClosed

PoolSpec     == PL!Spec
PoolFairSpec == PL!FairSpec

\* A resource is never handed to two goroutines, nor to one while it is queued (Acquire, Release)
Exclusive == PL!Exclusive

\* No resource is closed twice or closed while it is held or queued (Release, Close)
ClosedOnce == PL!ClosedOnce

\* Each resource the factory created is held, queued or has been closed (Release, Close)
NoneLost == PL!NoneLost

\* Release never sends on the channel that Close has closed
NoSendOnClosed == PL!NoSendOnClosed

\* After Close every resource is eventually closed for good
CloseReclaims == PL!CloseReclaims
=============================================================================
