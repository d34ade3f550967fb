----------------------------- MODULE MCSvshmXfr -----------------------------
(***************************************************************************)
(* The shared memory transfer under names that leave room for the other    *)
(* System V IPC programs: its run and, beside theirs, its proofs are about *)
(* these definitions.                                                      *)
(***************************************************************************)
EXTENDS Integers

CONSTANTS NBlocks, Errors  \* see SvshmXfr

ASSUME XfrAssumption == NBlocks \in Nat /\ Errors \in BOOLEAN

VARIABLES semExists, shmExists, sem, cnt, buf, blocksRead, wpc, copy, out, rpc

XF == INSTANCE SvshmXfr WITH sent <- blocksRead

XfrSpec     == XF!Spec
XfrFairSpec == XF!FairSpec

\* Writer and reader never use the buffer at the same time (svshm_xfr_writer.c:18-22)
Alternating == XF!Alternating

\* The semaphores and the segment are removed only after the reader's last use of them
RemovedAfterUse == XF!RemovedAfterUse

\* The two programs implement the abstract transfer
Transfers == XF!Transfers

\* Unless reading or writing fails, both processes end, and all blocks have arrived
BothEnd == XF!BothEnd
=============================================================================
