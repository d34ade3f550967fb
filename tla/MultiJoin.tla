------------------------------ MODULE MultiJoin ------------------------------
(***************************************************************************)
(* thread_multijoin.c: the main thread creates a number of threads and     *)
(* joins them in the order in which they happen to end.  A thread that     *)
(* ends counts itself in numUnjoined under threadMutex and then, with the  *)
(* mutex released, signals the condition variable threadDied.              *)
(***************************************************************************)
EXTENDS Integers, FiniteSets

CONSTANT N   \* threads asked for on the command line

ASSUME MultiJoinAssumption == N \in Nat \ {0}

Main    == 0
Threads == 1..N
Free    == -1

VARIABLES
  mutex,        \* who holds threadMutex: Free, Main or a thread
  numLive, numUnjoined,
  state,        \* the state field of each thread's record
  tpc,          \* where each thread is
  mpc,          \* where the main thread is
  idx           \* the index of the main thread's loops

vars == <<mutex, numLive, numUnjoined, state, tpc, mpc, idx>>

\* the records come from calloc: their state is 0, which is TS_ALIVE
Init ==
  /\ mutex = Free /\ numLive = 0 /\ numUnjoined = 0 /\ state = [t \in Threads |-> "ALIVE"]
  /\ tpc = [t \in Threads |-> "unborn"] /\ mpc = "create" /\ idx = 1

Thread(t, from, to) == tpc[t] = from /\ tpc' = [tpc EXCEPT ![t] = to]
MainGoTo(from, to)  == mpc = from /\ mpc' = to
Lock(p)             == mutex = Free /\ mutex' = p
Unlock              == mutex' = Free

-----------------------------------------------------------------------------
(* threadFunc *)

ThreadLock(t) ==
  /\ Thread(t, "sleep", "count") /\ Lock(t)
  /\ UNCHANGED <<numLive, numUnjoined, state, mpc, idx>>

ThreadCount(t) ==
  /\ Thread(t, "count", "mark") /\ numUnjoined' = numUnjoined + 1
  /\ UNCHANGED <<mutex, numLive, state, mpc, idx>>

\* Mutant: the thread counts itself but leaves its state alone
ThreadMarkForgotten(t) ==
  /\ Thread(t, "mark", "unlock")
  /\ UNCHANGED <<mutex, numLive, numUnjoined, state, mpc, idx>>

ThreadMark(t) ==
  /\ Thread(t, "mark", "unlock") /\ state' = [state EXCEPT ![t] = "TERMINATED"]
  /\ UNCHANGED <<mutex, numLive, numUnjoined, mpc, idx>>

ThreadUnlock(t) ==
  /\ Thread(t, "unlock", "signal") /\ Unlock
  /\ UNCHANGED <<numLive, numUnjoined, state, mpc, idx>>

\* Mutant: only the last thread to end signals the condition
ThreadSignalLast(t) ==
  /\ Thread(t, "signal", "ended")
  /\ mpc' = IF mpc = "waiting" /\ numLive = 1 THEN "relock" ELSE mpc
  /\ UNCHANGED <<mutex, numLive, numUnjoined, state, idx>>

\* wakes the main thread if it is waiting; otherwise the signal is lost
ThreadSignal(t) ==
  /\ Thread(t, "signal", "ended") /\ mpc' = IF mpc = "waiting" THEN "relock" ELSE mpc
  /\ UNCHANGED <<mutex, numLive, numUnjoined, state, idx>>

-----------------------------------------------------------------------------
(* main *)

Create ==
  /\ mpc = "create" /\ idx \in Threads
  /\ tpc' = [tpc EXCEPT ![idx] = "sleep"] /\ state' = [state EXCEPT ![idx] = "ALIVE"]
  /\ idx' = idx + 1
  /\ UNCHANGED <<mutex, numLive, numUnjoined, mpc>>

Created ==
  /\ MainGoTo("create", "loop") /\ idx = N + 1 /\ numLive' = N
  /\ UNCHANGED <<mutex, numUnjoined, state, tpc, idx>>

MainLock ==
  /\ MainGoTo("loop", "check") /\ numLive > 0 /\ Lock(Main)
  /\ UNCHANGED <<numLive, numUnjoined, state, tpc, idx>>

MainExit ==
  /\ MainGoTo("loop", "exit") /\ numLive = 0
  /\ UNCHANGED <<mutex, numLive, numUnjoined, state, tpc, idx>>

\* pthread_cond_wait releases the mutex and waits, in one step
Wait ==
  /\ MainGoTo("check", "waiting") /\ numUnjoined = 0 /\ Unlock
  /\ UNCHANGED <<numLive, numUnjoined, state, tpc, idx>>

\* pthread_cond_wait may return without a signal
SpuriousWakeup ==
  /\ MainGoTo("waiting", "relock")
  /\ UNCHANGED <<mutex, numLive, numUnjoined, state, tpc, idx>>

Relock ==
  /\ MainGoTo("relock", "check") /\ Lock(Main)
  /\ UNCHANGED <<numLive, numUnjoined, state, tpc, idx>>

\* Mutant: the mutex is released before the scan
StartScanUnlocked ==
  /\ MainGoTo("check", "scan") /\ numUnjoined > 0 /\ idx' = 1 /\ Unlock
  /\ UNCHANGED <<numLive, numUnjoined, state, tpc>>

StartScan ==
  /\ MainGoTo("check", "scan") /\ numUnjoined > 0 /\ idx' = 1
  /\ UNCHANGED <<mutex, numLive, numUnjoined, state, tpc>>

\* pthread_join waits, with threadMutex held, until the thread has ended
Join ==
  /\ mpc = "scan" /\ idx \in Threads /\ state[idx] = "TERMINATED" /\ tpc[idx] = "ended"
  /\ state' = [state EXCEPT ![idx] = "JOINED"]
  /\ numLive' = numLive - 1 /\ numUnjoined' = numUnjoined - 1 /\ idx' = idx + 1
  /\ UNCHANGED <<mutex, tpc, mpc>>

PassOver ==
  /\ mpc = "scan" /\ idx \in Threads /\ state[idx] # "TERMINATED" /\ idx' = idx + 1
  /\ UNCHANGED <<mutex, numLive, numUnjoined, state, tpc, mpc>>

EndScan ==
  /\ MainGoTo("scan", "loop") /\ idx = N + 1 /\ Unlock
  /\ UNCHANGED <<numLive, numUnjoined, state, tpc, idx>>

-----------------------------------------------------------------------------
MainStep ==
  \/ Create \/ Created \/ MainLock \/ MainExit \/ Wait \/ Relock \/ StartScan
  \/ Join \/ PassOver \/ EndScan
ThreadStep(t) ==
  ThreadLock(t) \/ ThreadCount(t) \/ ThreadMark(t) \/ ThreadUnlock(t) \/ ThreadSignal(t)

Exited == mpc = "exit" /\ UNCHANGED vars

Next == MainStep \/ (\E t \in Threads : ThreadStep(t)) \/ SpuriousWakeup \/ Exited

Spec == Init /\ [][Next]_vars

\* The threads are scheduled fairly; a spurious wakeup may never come.  Spurious
\* wakeups let the main thread take the mutex over and over: a thread that waits
\* for it gets it in the end.
FairSpec ==
  /\ Spec /\ WF_vars(MainStep)
  /\ \A t \in Threads : WF_vars(ThreadStep(t)) /\ SF_vars(ThreadLock(t))

-----------------------------------------------------------------------------
(* Properties *)

TypeOK ==
  /\ mutex \in {Free, Main} \cup Threads
  /\ numLive \in 0..N /\ numUnjoined \in 0..N
  /\ state \in [Threads -> {"ALIVE", "TERMINATED", "JOINED"}]
  /\ tpc \in [Threads -> {"unborn", "sleep", "count", "mark", "unlock", "signal", "ended"}]
  /\ mpc \in {"create", "loop", "check", "waiting", "relock", "scan", "exit"}
  /\ idx \in 1..(N + 1)

Terminated == {t \in Threads : state[t] = "TERMINATED"}
Unjoined   == {t \in Threads : state[t] # "JOINED"}

\* "Number of terminated threads that have not yet been joined" and "Total
\* number of threads still alive or terminated but not yet joined" (lines
\* 35-42) are what the two counters hold whenever the mutex is free.
CountsExact ==
  mutex = Free => /\ numUnjoined = Cardinality(Terminated)
                  /\ mpc # "create" => numLive = Cardinality(Unjoined)

\* Main holds the mutex while it waits in pthread_join, so the thread it waits
\* for must never need the mutex again.
JoinNeverBlocks ==
  mpc = "scan" => \A t \in Threads : state[t] = "TERMINATED" => tpc[t] \in {"signal", "ended"}

\* The main thread terminates only when every thread has been joined (line
\* 28-29: "When 'numLive' ... falls to 0, the main thread terminates").
AllJoined == mpc = "exit" => \A t \in Threads : state[t] = "JOINED" /\ tpc[t] = "ended"

\* No wakeup is lost: the main thread gets there, and every thread has then been joined.
MainEnds == <>(mpc = "exit" /\ AllJoined)
=============================================================================
