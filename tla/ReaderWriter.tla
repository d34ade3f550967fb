---------------------------- MODULE ReaderWriter ----------------------------
(***************************************************************************)
(* One readerWriter of semaphore.go: maxReaders reader goroutines and one  *)
(* writer share the WaitGroup rw.write and the channel semaphore           *)
(* rw.readerControl of maxReads buffers; main stops them by closing        *)
(* rw.shutdown and waits for rw.reportShutdown.  The two readerWriters of  *)
(* main share no state.                                                    *)
(*                                                                         *)
(* sync.WaitGroup is the library's: Wait returns at once when the counter  *)
(* is 0, otherwise it parks; the Done that brings the counter to 0 wakes   *)
(* the parked callers, and one that wakes to find the WaitGroup in use     *)
(* again panics ("WaitGroup is reused before previous Wait has returned"). *)
(***************************************************************************)
EXTENDS Integers, FiniteSets

CONSTANTS Readers,   \* the reader goroutines (maxReaders of them)
          MaxReads   \* rw.maxReads, the capacity of rw.readerControl

VARIABLES
  write,           \* counter of rw.write
  readerControl,   \* values buffered in rw.readerControl
  shutdown,        \* rw.shutdown is closed
  reportShutdown,  \* counter of rw.reportShutdown
  currentReads,    \* rw.currentReads
  rpc,             \* where each reader is
  wpc,             \* where the writer is
  buffer,          \* buffers the writer has secured: the loop variable of
                   \* Acquire(maxReads), and what Release still has to return
  mpc,             \* where main (stop) is
  panicked         \* a goroutine has panicked: the program is dead

vars == <<write, readerControl, shutdown, reportShutdown, currentReads,
          rpc, wpc, buffer, mpc, panicked>>

\* what start leaves: all goroutines launched, the Adds done before
Init ==
  /\ write = 0 /\ readerControl = 0 /\ shutdown = FALSE
  /\ reportShutdown = Cardinality(Readers) + 1
  /\ currentReads = 0 /\ buffer = 0 /\ panicked = FALSE
  /\ rpc = [r \in Readers |-> "loop"] /\ wpc = "loop" /\ mpc = "sleep"

\* the goroutines live until main returns or somebody panics
Alive == ~panicked /\ mpc # "ended"

ReaderGoTo(r, from, to) == Alive /\ rpc[r] = from /\ rpc' = [rpc EXCEPT ![r] = to]
WriterGoTo(from, to)    == Alive /\ wpc = from /\ wpc' = to

\* one turn of the loops in semaphore.Acquire and semaphore.Release: a send
\* blocks while the channel is full, a receive while it is empty
Acquire1 == readerControl < MaxReads /\ readerControl' = readerControl + 1
Release1 == readerControl > 0 /\ readerControl' = readerControl - 1

-----------------------------------------------------------------------------
(* reader *)

\* Mutant: the return of the shutdown case is missing
ReaderShutdownNoReturn(r) ==
  /\ ReaderGoTo(r, "loop", "wait")
  /\ UNCHANGED <<write, readerControl, shutdown, reportShutdown, currentReads,
                 wpc, buffer, mpc, panicked>>

\* select: case <-rw.shutdown, and the deferred reportShutdown.Done()
ReaderShutdown(r) ==
  /\ shutdown
  /\ ReaderGoTo(r, "loop", "done")
  /\ reportShutdown' = reportShutdown - 1
  /\ UNCHANGED <<write, readerControl, shutdown, currentReads, wpc, buffer, mpc, panicked>>

\* select: default, performRead calls ReadLock
PerformRead(r) ==
  /\ ~shutdown
  /\ ReaderGoTo(r, "loop", "wait")
  /\ UNCHANGED <<write, readerControl, shutdown, reportShutdown, currentReads,
                 wpc, buffer, mpc, panicked>>

\* Mutant: ReadLock does not wait for a pending write
ReadLockNoWait(r) ==
  /\ ReaderGoTo(r, "wait", "acquire")
  /\ UNCHANGED <<write, readerControl, shutdown, reportShutdown, currentReads,
                 wpc, buffer, mpc, panicked>>

\* rw.write.Wait(): pass, or park among the waiters
ReadLockWait(r) ==
  /\ ReaderGoTo(r, "wait", IF write = 0 THEN "acquire" ELSE "parked")
  /\ UNCHANGED <<write, readerControl, shutdown, reportShutdown, currentReads,
                 wpc, buffer, mpc, panicked>>

\* Wait returns after the wake-up, unless the WaitGroup is in use again
ReadLockWoken(r) ==
  /\ ReaderGoTo(r, "woken", "acquire")
  /\ panicked' = (write # 0)
  /\ UNCHANGED <<write, readerControl, shutdown, reportShutdown, currentReads,
                 wpc, buffer, mpc>>

\* rw.readerControl.Acquire(1)
ReadLockAcquire(r) ==
  /\ Acquire1
  /\ ReaderGoTo(r, "acquire", "locked")
  /\ UNCHANGED <<write, shutdown, reportShutdown, currentReads, wpc, buffer, mpc, panicked>>

ReadStart(r) ==
  /\ ReaderGoTo(r, "locked", "reading")
  /\ currentReads' = currentReads + 1
  /\ UNCHANGED <<write, readerControl, shutdown, reportShutdown, wpc, buffer, mpc, panicked>>

ReadFinish(r) ==
  /\ ReaderGoTo(r, "reading", "unlock")
  /\ currentReads' = currentReads - 1
  /\ UNCHANGED <<write, readerControl, shutdown, reportShutdown, wpc, buffer, mpc, panicked>>

\* rw.readerControl.Release(1)
ReadUnlock(r) ==
  /\ Release1
  /\ ReaderGoTo(r, "unlock", "loop")
  /\ UNCHANGED <<write, shutdown, reportShutdown, currentReads, wpc, buffer, mpc, panicked>>

-----------------------------------------------------------------------------
(* writer *)

WriterShutdown ==
  /\ shutdown
  /\ WriterGoTo("loop", "done")
  /\ reportShutdown' = reportShutdown - 1
  /\ UNCHANGED <<write, readerControl, shutdown, currentReads, rpc, buffer, mpc, panicked>>

\* default: performWrite sleeps, then WriteLock does rw.write.Add(1)
WriteLockAdd ==
  /\ ~shutdown
  /\ WriterGoTo("loop", "acquiring")
  /\ write' = write + 1
  /\ UNCHANGED <<readerControl, shutdown, reportShutdown, currentReads, rpc, buffer, mpc, panicked>>

\* one turn of rw.readerControl.Acquire(rw.maxReads)
WriteLockAcquire ==
  /\ buffer < MaxReads /\ Acquire1
  /\ WriterGoTo("acquiring", "acquiring")
  /\ buffer' = buffer + 1
  /\ UNCHANGED <<write, shutdown, reportShutdown, currentReads, rpc, mpc, panicked>>

\* Mutant: one buffer too few
WriteStartOneShort ==
  /\ buffer >= MaxReads - 1
  /\ WriterGoTo("acquiring", "writing")
  /\ UNCHANGED <<write, readerControl, shutdown, reportShutdown, currentReads, rpc, buffer, mpc, panicked>>

\* all buffers are secured: the write starts
WriteStart ==
  /\ buffer = MaxReads
  /\ WriterGoTo("acquiring", "writing")
  /\ UNCHANGED <<write, readerControl, shutdown, reportShutdown, currentReads, rpc, buffer, mpc, panicked>>

WriteFinish ==
  /\ WriterGoTo("writing", "releasing")
  /\ UNCHANGED <<write, readerControl, shutdown, reportShutdown, currentReads, rpc, buffer, mpc, panicked>>

\* one turn of rw.readerControl.Release(rw.maxReads)
WriteUnlockRelease ==
  /\ buffer > 0 /\ Release1
  /\ WriterGoTo("releasing", "releasing")
  /\ buffer' = buffer - 1
  /\ UNCHANGED <<write, shutdown, reportShutdown, currentReads, rpc, mpc, panicked>>

\* rw.write.Done(): the counter drops to 0 and the waiters are woken
WriteUnlockDone ==
  /\ buffer = 0
  /\ WriterGoTo("releasing", "loop")
  /\ write' = write - 1
  /\ rpc' = [r \in Readers |-> IF rpc[r] = "parked" /\ write' = 0 THEN "woken" ELSE rpc[r]]
  /\ UNCHANGED <<readerControl, shutdown, reportShutdown, currentReads, buffer, mpc, panicked>>

-----------------------------------------------------------------------------
(* main: shutdown and stop *)

\* close(rw.shutdown)
StopClose ==
  /\ Alive /\ mpc = "sleep"
  /\ mpc' = "stopping" /\ shutdown' = TRUE
  /\ UNCHANGED <<write, readerControl, reportShutdown, currentReads, rpc, wpc, buffer, panicked>>

\* Mutant: stop does not wait
StopReturnNoWait ==
  /\ Alive /\ mpc = "stopping"
  /\ mpc' = "ended"
  /\ UNCHANGED <<write, readerControl, shutdown, reportShutdown, currentReads, rpc, wpc, buffer, panicked>>

\* rw.reportShutdown.Wait() returns, "Process Ended"
StopReturn ==
  /\ Alive /\ mpc = "stopping" /\ reportShutdown = 0
  /\ mpc' = "ended"
  /\ UNCHANGED <<write, readerControl, shutdown, reportShutdown, currentReads, rpc, wpc, buffer, panicked>>

-----------------------------------------------------------------------------
Reader(r) ==
  \/ ReaderShutdown(r) \/ PerformRead(r) \/ ReadLockWait(r) \/ ReadLockWoken(r)
  \/ ReadLockAcquire(r) \/ ReadStart(r) \/ ReadFinish(r) \/ ReadUnlock(r)

Writer ==
  \/ WriterShutdown \/ WriteLockAdd \/ WriteLockAcquire \/ WriteStart
  \/ WriteFinish \/ WriteUnlockRelease \/ WriteUnlockDone

Stop == StopClose \/ StopReturn

\* The process has ended: by returning from main or by a panic
Ended == ~Alive /\ UNCHANGED vars

Next == (\E r \in Readers : Reader(r)) \/ Writer \/ Stop \/ Ended

Spec == Init /\ [][Next]_vars

\* Go runs every runnable goroutine; a goroutine blocked in a channel send is
\* served in FIFO order, hence strong fairness of the readers' Acquire.  The
\* writer needs only weak fairness.  How long main sleeps before StopClose is
\* left open: nothing may depend on the shutdown coming.
Fairness ==
  /\ \A r \in Readers : WF_vars(Reader(r)) /\ SF_vars(ReadLockAcquire(r))
  /\ WF_vars(Writer) /\ WF_vars(StopReturn)

FairSpec == Spec /\ Fairness

-----------------------------------------------------------------------------
\* Readers that own a buffer of the semaphore.
Locked == {r \in Readers : rpc[r] \in {"locked", "reading", "unlock"}}

\* Type correctness; rw.write is 0 or 1 and the channel is within capacity.
TypeOK ==
  /\ write \in 0..1 /\ readerControl \in 0..MaxReads
  /\ shutdown \in BOOLEAN /\ panicked \in BOOLEAN
  /\ reportShutdown \in 0..(Cardinality(Readers) + 1)
  /\ currentReads \in Int /\ buffer \in 0..MaxReads
  /\ rpc \in [Readers -> {"loop", "wait", "parked", "woken", "acquire",
                          "locked", "reading", "unlock", "done"}]
  /\ wpc \in {"loop", "acquiring", "writing", "releasing", "done"}
  /\ mpc \in {"sleep", "stopping", "ended"}

\* WriteLock excludes every reader for the whole write, although a reader
\* that has passed rw.write.Wait() before the Add can still be on its way to
\* the semaphore.
WriteExcludesReads == wpc = "writing" => Locked = {}

\* At most maxReads reads at a time, and currentReads counts exactly them.
ReadsBounded ==
  /\ Cardinality(Locked) <= MaxReads
  /\ currentReads = Cardinality({r \in Readers : rpc[r] = "reading"})

\* stop returns only after every goroutine has left, with no buffer of the
\* semaphore still taken and no writer announced.
StoppedMeansIdle ==
  mpc = "ended" => /\ wpc = "done" /\ \A r \in Readers : rpc[r] = "done"
                   /\ readerControl = 0 /\ write = 0

\* The writer is not starved: the Add holds new readers back, so a writer
\* that has announced itself writes (the WaitGroup panic aside).
WriterNotStarved == (wpc = "acquiring") ~> (wpc = "writing" \/ panicked)

\* Closing rw.shutdown ends the program, even with goroutines blocked in
\* Wait, in the semaphore or in mid-read (the WaitGroup panic aside).
ShutdownEnds == shutdown ~> (mpc = "ended" \/ panicked)

\* "Then after a timeout period, the program shutdowns cleanly": no goroutine
\* panics before that.
NoPanic == ~panicked
=============================================================================
