--------------------------- MODULE MCReaderWriter ---------------------------
(***************************************************************************)
(* The reader/writer semaphore under names that leave room for the other   *)
(* programs of Go, for its run and, beside theirs, its proofs.             *)
(***************************************************************************)
EXTENDS Integers, FiniteSets

CONSTANTS Readers, MaxReads  \* see ReaderWriter

ASSUME RWAssumption == IsFiniteSet(Readers) /\ MaxReads \in Nat \ {0}

VARIABLES write, readerControl, shutdown, reportShutdown, currentReads, rpc, writerPc, buffer, stopPc, panicked

RW == INSTANCE ReaderWriter WITH wpc <- writerPc, mpc <- stopPc

SemaphoreSpec     == RW!Spec
SemaphoreFairSpec == RW!FairSpec

\* WriteLock excludes every reader for the whole write, also one that has
\* passed rw.write.Wait() before the Add
WriteExcludesReads == RW!WriteExcludesReads

\* stop returns only after every goroutine has left, with no buffer of the
\* semaphore still taken and no writer announced
StoppedMeansIdle == RW!StoppedMeansIdle

\* A writer that has announced itself writes, although readers keep coming
WriterNotStarved == RW!WriterNotStarved

\* Closing rw.shutdown ends the program, whoever is blocked (stop)
ShutdownEnds == RW!ShutdownEnds
=============================================================================
