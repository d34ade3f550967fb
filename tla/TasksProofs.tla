---------------------------- MODULE TasksProofs -----------------------------
(***************************************************************************)
(* Proofs about the programs of threads/, for any numbers of loops, units  *)
(* and barriers, and of procexec/, for any set of children, any number of  *)
(* arguments and any number of signals from the user.  A run is one of one *)
(* program, so that each program has an invariant of its own; ThreadsInv   *)
(* and ProcsInv are their conjunctions.                                    *)
(***************************************************************************)
EXTENDS UnixTasks, FiniteSetTheorems, SequenceTheorems, TLAPS

-----------------------------------------------------------------------------
(* threads/ *)

\* the step of a program is the one of its name
LEMMA StepOfProgram ==
  ASSUME NEW a, Threading!Step(a)
  PROVE  /\ prog = "thread_incr" => Threading!thread_incr(a)
         /\ prog = "thread_incr_mutex" => Threading!thread_incr_mutex(a)
         /\ prog = "thread_incr_spinlock" => Threading!thread_incr_spinlock(a)
         /\ prog = "thread_incr_rwlock" => Threading!thread_incr_rwlock(a)
         /\ prog = "thread_incr_psem" => Threading!thread_incr_psem(a)
         /\ prog = "thread_lock_speed" => Threading!thread_lock_speed(a)
         /\ prog = "prod_condvar" => Threading!prod_condvar(a)
         /\ prog = "prod_no_condvar" => Threading!prod_no_condvar(a)
         /\ prog = "one_time_init" => Threading!one_time_init(a)
         /\ prog = "thread_cleanup" => Threading!thread_cleanup(a)
         /\ prog = "thread_cancel" => Threading!thread_cancel(a)
         /\ prog = "pthread_barrier_demo" => Threading!pthread_barrier_demo(a)
         /\ prog = "strerror_test" => Threading!strerror_test(a)
  BY DEF Threading!Step, Threading!thread_incr, Threading!thread_incr_mutex,
     Threading!thread_incr_spinlock, Threading!thread_incr_rwlock, Threading!thread_incr_psem,
     Threading!thread_lock_speed, Threading!prod_condvar, Threading!prod_no_condvar,
     Threading!one_time_init, Threading!thread_cleanup, Threading!thread_cancel,
     Threading!pthread_barrier_demo, Threading!strerror_test

\* Threads has its own copy of FiniteSets
LEMMA SameCardinality ==
  \A S : Threading!Cardinality(S) = Cardinality(S)
  BY DEF Threading!Cardinality, Cardinality

-----------------------------------------------------------------------------
(* The counters *)

\* t is between the acquisition of the lock and its release
InCs(t) == pc[t] \in {"read", "write", "release"}

T2 == {"t1", "t2"}

\* the increments of glob by thread t so far
Writes(t) == s.j[t] + (IF pc[t] = "release" THEN 1 ELSE 0)

IncrState == [glob : Nat, loc : [T2 -> Nat], j : [T2 -> Nat], k : [T2 -> Nat], useMutex : BOOLEAN,
              mtx : {Free, "t1", "t2"}, splock : {0, 1},
              rwlock : {<<Free, 0>>, <<"t1", 0>>, <<"t2", 0>>}, sem : {0, 1}]

IncrType ==
  /\ pc \in [{"main", "t1", "t2"} ->
               {"create", "join", "exit", "absent", "loop", "read", "write", "release"}]
  /\ s \in IncrState

\* where main and the threads are, and how many rounds they have made
IncrPlaces ==
  /\ pc["main"] \in {"create", "join", "exit"}
  /\ \A t \in T2 : /\ pc[t] \notin {"create", "join"} /\ s.j[t] <= Loops
                   /\ pc["main"] = "create" <=> pc[t] = "absent"
                   /\ pc["main"] = "exit" => pc[t] = "exit"
                   /\ pc[t] = "absent" => s.j[t] = 0 /\ s.glob = 0 /\ s.loc[t] = 0
                   /\ InCs(t) => s.j[t] < Loops
                   /\ pc[t] = "exit" => s.j[t] = Loops

\* the program's lock is taken in state st
HeldIn(st) ==
  CASE prog = "thread_incr_mutex"    -> st.mtx # Free
    [] prog = "thread_incr_spinlock" -> st.splock = 1
    [] prog = "thread_incr_rwlock"   -> st.rwlock # <<Free, 0>>
    [] prog = "thread_incr_psem"     -> st.sem = 0
    [] prog = "thread_lock_speed"    -> IF st.useMutex THEN st.mtx # Free ELSE st.splock = 1

\* With a lock: whoever is between acquire and release holds it, alone
Exclusive ==
  /\ \A t \in T2 : InCs(t) => HeldIn(s)
  /\ ~(InCs("t1") /\ InCs("t2"))

\* so that no increment is lost
LockedSum ==
  prog \notin {"thread_incr", "thread_lock_speed"} =>
    /\ s.glob = Writes("t1") + Writes("t2")
    /\ \A t \in T2 : pc[t] = "write" => s.loc[t] = s.glob

\* the same with Loops increments in each critical section, k of them done
SpeedSum ==
  prog = "thread_lock_speed" =>
    /\ s.glob = s.j["t1"] * Loops + s.k["t1"] + s.j["t2"] * Loops + s.k["t2"]
    /\ \A t \in T2 : /\ pc[t] = "write" => s.loc[t] = s.glob /\ s.k[t] < Loops
                     /\ pc[t] \in {"absent", "loop", "exit"} => s.k[t] = 0
                     /\ pc[t] # "release" /\ s.k[t] <= Loops

\* Without a lock: from the first write on glob is never 0 again, so that the last
\* write of all, which is at least the second of its thread, makes it 2 or more.
RacySum ==
  prog = "thread_incr" =>
    /\ s.glob <= Writes("t1") + Writes("t2")
    /\ \A t \in T2 : s.loc[t] <= Writes("t1") + Writes("t2")
    /\ Writes("t1") + Writes("t2") > 0 => s.glob > 0
    /\ \A t \in T2 : pc[t] = "write" /\ s.j[t] > 0 => s.loc[t] > 0
    /\ Writes("t1") + Writes("t2") = 2 * Loops => s.glob > 1

IncrInv ==
  prog \in Threading!IncrProgs =>
    IncrType /\ IncrPlaces /\ (prog = "thread_incr" \/ Exclusive) /\ LockedSum /\ SpeedSum /\ RacySum

\* A step of thread_incr, without a lock: the sum of the increments bounds glob, and glob does not fall back to 0
LEMMA RacyStep ==
  ASSUME prog = "thread_incr", prog' = prog, IncrInv, NEW t \in T2, Threading!Increment(t, {s}, s)
  PROVE  IncrType' /\ IncrPlaces' /\ RacySum'
<1> USE ThreadsAssumption DEF Threading!Go, Threading!Walk
<1>0. IncrType /\ IncrPlaces /\ RacySum
  BY DEF IncrInv, Threading!IncrProgs
<1>1. CASE Threading!Go(t, "loop", "read") /\ s' = s /\ s.j[t] < Loops
  BY <1>0, <1>1 DEF IncrType, IncrState, IncrPlaces, RacySum, T2, InCs, Writes
<1>2. CASE Threading!Go(t, "read", "write") /\ s' = [s EXCEPT !.loc[t] = s.glob]
  <2>1. IncrType'
    BY <1>0, <1>2 DEF IncrType, IncrState, T2
  <2>2. IncrPlaces'
    BY <1>0, <1>2 DEF IncrType, IncrState, IncrPlaces, T2, InCs
  <2>3. RacySum'
    BY <1>0, <1>2 DEF IncrType, IncrState, IncrPlaces, RacySum, T2, InCs, Writes
  <2> QED
    BY <2>1, <2>2, <2>3
<1>3. CASE Threading!Go(t, "write", "release") /\ s' = [s EXCEPT !.glob = s.loc[t] + 1]
  <2>1. IncrType'
    BY <1>0, <1>3 DEF IncrType, IncrState, T2
  <2>2. IncrPlaces'
    BY <1>0, <1>3 DEF IncrType, IncrState, IncrPlaces, T2, InCs
  <2>3. RacySum'
    BY <1>0, <1>3 DEF IncrType, IncrState, IncrPlaces, RacySum, T2, InCs, Writes
  <2> QED
    BY <2>1, <2>2, <2>3
<1>4. CASE Threading!Go(t, "release", "loop") /\ s' = [s EXCEPT !.j[t] = @ + 1]
  <2>1. IncrType'
    BY <1>0, <1>4 DEF IncrType, IncrState, T2
  <2>2. IncrPlaces'
    BY <1>0, <1>4 DEF IncrType, IncrState, IncrPlaces, T2, InCs
  <2>3. RacySum'
    BY <1>0, <1>4 DEF IncrType, IncrState, IncrPlaces, RacySum, T2, InCs, Writes
  <2> QED
    BY <2>1, <2>2, <2>3
<1>5. CASE Threading!Walk(t, "loop", "exit") /\ s.j[t] = Loops
  BY <1>0, <1>5 DEF IncrType, IncrState, IncrPlaces, RacySum, T2, InCs, Writes
<1> QED
  BY <1>1, <1>2, <1>3, <1>4, <1>5 DEF Threading!Increment

Locked == Threading!IncrProgs \ {"thread_incr", "thread_lock_speed"}

\* st is s with the lock taken or released
SameCounts(st) ==
  st \in IncrState /\ st.glob = s.glob /\ st.loc = s.loc /\ st.j = s.j /\ st.k = s.k

\* A step of a thread that increments under a lock, whatever the lock: one that is free when it is taken
LEMMA LockedStep ==
  ASSUME prog \in Locked, prog' = prog, IncrInv, NEW t \in T2, NEW acquired, NEW released,
         Threading!Increment(t, acquired, released),
         \A st \in acquired : SameCounts(st) /\ ~HeldIn(s) /\ HeldIn(st),
         InCs(t) => SameCounts(released)
  PROVE  IncrType' /\ IncrPlaces' /\ Exclusive' /\ LockedSum'
<1> USE ThreadsAssumption DEF Threading!Go, Threading!Walk
<1>0. IncrType /\ IncrPlaces /\ Exclusive /\ LockedSum
  BY DEF IncrInv, Locked
<1>1. CASE Threading!Go(t, "loop", "read") /\ s.j[t] < Loops /\ s' \in acquired
  <2>1. SameCounts(s') /\ ~HeldIn(s) /\ HeldIn(s)'
    BY <1>1 DEF HeldIn
  <2>2. IncrType'
    BY <1>0, <1>1, <2>1 DEF IncrType, T2, SameCounts
  <2>3. IncrPlaces'
    BY <1>0, <1>1, <2>1 DEF IncrType, IncrState, IncrPlaces, T2, InCs, SameCounts
  <2>4. LockedSum'
    BY <1>0, <1>1, <2>1 DEF IncrType, IncrState, LockedSum, T2, Writes, SameCounts
  <2>5. ~InCs("t1") /\ ~InCs("t2")
    BY <1>0, <2>1 DEF Exclusive, T2
  <2>6. Exclusive'
    BY <1>0, <1>1, <2>1, <2>5 DEF Exclusive, IncrType, T2, InCs
  <2> QED
    BY <2>2, <2>3, <2>4, <2>6
<1>2. CASE Threading!Go(t, "read", "write") /\ s' = [s EXCEPT !.loc[t] = s.glob]
  <2>1. IncrType'
    BY <1>0, <1>2 DEF IncrType, IncrState, T2
  <2>2. IncrPlaces'
    BY <1>0, <1>2 DEF IncrType, IncrState, IncrPlaces, T2, InCs
  <2>3. LockedSum'
    BY <1>0, <1>2 DEF IncrType, IncrState, LockedSum, T2, Writes
  <2>4. HeldIn(s)' <=> HeldIn(s)
    BY <1>0, <1>2 DEF HeldIn, IncrType, IncrState
  <2>5. Exclusive'
    BY <1>0, <1>2, <2>4 DEF IncrType, Exclusive, T2, InCs
  <2> QED
    BY <2>1, <2>2, <2>3, <2>5
<1>3. CASE Threading!Go(t, "write", "release") /\ s' = [s EXCEPT !.glob = s.loc[t] + 1]
  <2>1. IncrType'
    BY <1>0, <1>3 DEF IncrType, IncrState, T2
  <2>2. IncrPlaces'
    BY <1>0, <1>3 DEF IncrType, IncrState, IncrPlaces, T2, InCs
  <2>3. LockedSum'
    BY <1>0, <1>3 DEF IncrType, IncrState, LockedSum, T2, Writes, Exclusive, InCs
  <2>4. HeldIn(s)' <=> HeldIn(s)
    BY <1>0, <1>3 DEF HeldIn, IncrType, IncrState
  <2>5. Exclusive'
    BY <1>0, <1>3, <2>4 DEF IncrType, Exclusive, T2, InCs
  <2> QED
    BY <2>1, <2>2, <2>3, <2>5
<1>4. CASE Threading!Go(t, "release", "loop") /\ s' = [released EXCEPT !.j[t] = @ + 1]
  <2>0. SameCounts(released)
    BY <1>4 DEF InCs
  <2>1. IncrType'
    BY <1>0, <1>4, <2>0 DEF IncrType, IncrState, T2, SameCounts
  <2>2. IncrPlaces'
    BY <1>0, <1>4, <2>0 DEF IncrType, IncrState, IncrPlaces, T2, InCs, SameCounts
  <2>3. LockedSum'
    BY <1>0, <1>4, <2>0 DEF IncrType, IncrState, LockedSum, T2, Writes, SameCounts
  <2>4. Exclusive'
    BY <1>0, <1>4, <2>0 DEF IncrType, Exclusive, T2, InCs
  <2> QED
    BY <2>1, <2>2, <2>3, <2>4
<1>5. CASE Threading!Walk(t, "loop", "exit") /\ s.j[t] = Loops
  <2>1. IncrType' /\ IncrPlaces' /\ LockedSum'
    BY <1>0, <1>5 DEF IncrType, IncrState, IncrPlaces, LockedSum, T2, InCs, Writes
  <2>2. HeldIn(s)' <=> HeldIn(s)
    BY <1>5 DEF HeldIn
  <2>3. Exclusive'
    BY <1>0, <1>5, <2>2 DEF IncrType, Exclusive, T2, InCs
  <2> QED
    BY <2>1, <2>3
<1> QED
  BY <1>1, <1>2, <1>3, <1>4, <1>5 DEF Threading!Increment

\* each of the four kinds of lock is one: it is taken only when nobody holds it
LEMMA LocksStep ==
  ASSUME prog \in Locked, prog' = prog, IncrInv, NEW t \in T2, Threading!Step(t)
  PROVE  IncrType' /\ IncrPlaces' /\ Exclusive' /\ LockedSum'
<1>0. IncrType /\ Exclusive /\ t # "main"
  BY DEF IncrInv, Locked, T2
<1> USE DEF IncrType, IncrState, SameCounts, HeldIn, T2, Free, Threading!Free
<1>1. CASE prog = "thread_incr_mutex"
  <2> DEFINE acquired == Threading!MutexLock(t, s)
             released == [s EXCEPT !.mtx = Free]
  <2>1. Threading!Increment(t, acquired, released)
    BY <1>0, <1>1, StepOfProgram DEF Threading!thread_incr_mutex
  <2>2. \A st \in acquired : SameCounts(st) /\ ~HeldIn(s) /\ HeldIn(st)
    BY <1>0, <1>1 DEF Threading!MutexLock
  <2>3. InCs(t) => SameCounts(released)
    BY <1>0
  <2> HIDE DEF acquired, released
  <2> QED
    BY <2>1, <2>2, <2>3, LockedStep
<1>2. CASE prog = "thread_incr_spinlock"
  <2> DEFINE acquired == Threading!SpinLock(t, s)
             released == [s EXCEPT !.splock = 0]
  <2>1. Threading!Increment(t, acquired, released)
    BY <1>0, <1>2, StepOfProgram DEF Threading!thread_incr_spinlock
  <2>2. \A st \in acquired : SameCounts(st) /\ ~HeldIn(s) /\ HeldIn(st)
    BY <1>0, <1>2 DEF Threading!SpinLock
  <2>3. InCs(t) => SameCounts(released)
    BY <1>0
  <2> HIDE DEF acquired, released
  <2> QED
    BY <2>1, <2>2, <2>3, LockedStep
<1>3. CASE prog = "thread_incr_rwlock"
  <2> DEFINE acquired == Threading!WrLock(t, s)
             released == [s EXCEPT !.rwlock = <<Free, 0>>]
  <2>1. Threading!Increment(t, acquired, released)
    BY <1>0, <1>3, StepOfProgram DEF Threading!thread_incr_rwlock
  <2>2. \A st \in acquired : SameCounts(st) /\ ~HeldIn(s) /\ HeldIn(st)
    BY <1>0, <1>3 DEF Threading!WrLock
  <2>3. InCs(t) => SameCounts(released)
    BY <1>0
  <2> HIDE DEF acquired, released
  <2> QED
    BY <2>1, <2>2, <2>3, LockedStep
<1>4. CASE prog = "thread_incr_psem"
  <2> DEFINE acquired == Threading!SemWait(t, s)
             released == [s EXCEPT !.sem = @ + 1]
  <2>1. Threading!Increment(t, acquired, released)
    BY <1>0, <1>4, StepOfProgram DEF Threading!thread_incr_psem
  <2>2. \A st \in acquired : SameCounts(st) /\ ~HeldIn(s) /\ HeldIn(st)
    BY <1>0, <1>4 DEF Threading!SemWait
  <2>3. InCs(t) => SameCounts(released)
    BY <1>0, <1>4 DEF Exclusive
  <2> HIDE DEF acquired, released
  <2> QED
    BY <2>1, <2>2, <2>3, LockedStep
<1> QED
  BY <1>1, <1>2, <1>3, <1>4 DEF Locked, Threading!IncrProgs

\* A step of thread_lock_speed
LEMMA SpeedStep ==
  ASSUME prog = "thread_lock_speed", prog' = prog, IncrInv, NEW t \in T2, Threading!LockSpeedFunc(t)
  PROVE  IncrType' /\ IncrPlaces' /\ Exclusive' /\ SpeedSum'
<1> USE ThreadsAssumption DEF Threading!Go, Threading!Walk
<1>0. IncrType /\ IncrPlaces /\ Exclusive /\ SpeedSum
  BY DEF IncrInv, Threading!IncrProgs
<1>1. CASE /\ Threading!Go(t, "loop", "read") /\ s.j[t] < Loops
           /\ s' \in IF s.useMutex THEN Threading!MutexLock(t, s) ELSE Threading!SpinLock(t, s)
  <2>1. SameCounts(s') /\ ~HeldIn(s) /\ HeldIn(s)'
    BY <1>0, <1>1 DEF HeldIn, SameCounts, IncrType, IncrState, T2, Free, Threading!Free,
       Threading!MutexLock, Threading!SpinLock
  <2>2. IncrType'
    BY <1>0, <1>1, <2>1 DEF IncrType, T2, SameCounts
  <2>3. IncrPlaces'
    BY <1>0, <1>1, <2>1 DEF IncrType, IncrState, IncrPlaces, T2, InCs, SameCounts
  <2>4. SpeedSum'
    BY <1>0, <1>1, <2>1 DEF IncrType, IncrState, SpeedSum, T2, SameCounts
  <2>5. ~InCs("t1") /\ ~InCs("t2")
    BY <1>0, <2>1 DEF Exclusive, T2
  <2>6. Exclusive'
    BY <1>0, <1>1, <2>1, <2>5 DEF Exclusive, IncrType, T2, InCs
  <2> QED
    BY <2>2, <2>3, <2>4, <2>6
<1>2. CASE Threading!Go(t, "read", "write") /\ s.k[t] < Loops /\ s' = [s EXCEPT !.loc[t] = s.glob]
  <2>1. IncrType'
    BY <1>0, <1>2 DEF IncrType, IncrState, T2
  <2>2. IncrPlaces'
    BY <1>0, <1>2 DEF IncrType, IncrState, IncrPlaces, T2, InCs
  <2>3. SpeedSum'
    BY <1>0, <1>2 DEF IncrType, IncrState, SpeedSum, T2
  <2>4. HeldIn(s)' <=> HeldIn(s)
    BY <1>0, <1>2 DEF HeldIn, IncrType, IncrState
  <2>5. Exclusive'
    BY <1>0, <1>2, <2>4 DEF IncrType, Exclusive, T2, InCs
  <2> QED
    BY <2>1, <2>2, <2>3, <2>5
<1>3. CASE Threading!Go(t, "write", "read") /\ s' = [s EXCEPT !.glob = s.loc[t] + 1, !.k[t] = @ + 1]
  <2>0. s.loc[t] + 1 \in Nat /\ [s.k EXCEPT ![t] = @ + 1] \in [T2 -> Nat]
    BY <1>0 DEF IncrType, IncrState
  <2>1. IncrType'
    <3>1. s' \in IncrState
      BY <1>0, <1>3, <2>0 DEF IncrType, IncrState
    <3> QED
      BY <1>0, <1>3, <3>1 DEF IncrType, T2
  <2>2. IncrPlaces'
    BY <1>0, <1>3 DEF IncrType, IncrState, IncrPlaces, T2, InCs
  <2>3. SpeedSum'
    BY <1>0, <1>3 DEF IncrType, IncrState, SpeedSum, T2, Exclusive, InCs
  <2>4. HeldIn(s)' <=> HeldIn(s)
    BY <1>0, <1>3 DEF HeldIn, IncrType, IncrState
  <2>5. Exclusive'
    BY <1>0, <1>3, <2>4 DEF IncrType, Exclusive, T2, InCs
  <2> QED
    BY <2>1, <2>2, <2>3, <2>5
<1>4. CASE /\ Threading!Go(t, "read", "loop") /\ s.k[t] = Loops
           /\ s' = IF s.useMutex THEN [s EXCEPT !.j[t] = @ + 1, !.k[t] = 0, !.mtx = Free]
                                 ELSE [s EXCEPT !.j[t] = @ + 1, !.k[t] = 0, !.splock = 0]
  <2>0. /\ s' \in IncrState /\ s'.glob = s.glob /\ s'.loc = s.loc
        /\ s'.j = [s.j EXCEPT ![t] = @ + 1] /\ s'.k = [s.k EXCEPT ![t] = 0]
    <3>1. [s.k EXCEPT ![t] = 0] \in [T2 -> Nat] /\ [s.j EXCEPT ![t] = @ + 1] \in [T2 -> Nat]
      BY <1>0 DEF IncrType, IncrState
    <3>2. CASE s.useMutex
      BY <1>0, <1>4, <3>1, <3>2 DEF IncrType, IncrState
    <3>3. CASE ~s.useMutex
      BY <1>0, <1>4, <3>1, <3>3 DEF IncrType, IncrState
    <3> QED
      BY <3>2, <3>3
  <2>1. IncrType'
    BY <1>0, <1>4, <2>0 DEF IncrType, T2
  <2>2. IncrPlaces'
    BY <1>0, <1>4, <2>0 DEF IncrType, IncrState, IncrPlaces, T2, InCs
  <2>3. \A j \in Nat : (j + 1) * Loops = j * Loops + Loops
    OBVIOUS
  <2>4. SpeedSum'
    BY <1>0, <1>4, <2>0, <2>3 DEF IncrType, IncrState, SpeedSum, T2
  <2>5. Exclusive'
    BY <1>0, <1>4 DEF IncrType, Exclusive, T2, InCs
  <2> QED
    BY <2>1, <2>2, <2>4, <2>5
<1>5. CASE Threading!Walk(t, "loop", "exit") /\ s.j[t] = Loops
  <2>1. IncrType' /\ IncrPlaces' /\ SpeedSum'
    BY <1>0, <1>5 DEF IncrType, IncrState, IncrPlaces, SpeedSum, T2, InCs
  <2>2. HeldIn(s)' <=> HeldIn(s)
    BY <1>5 DEF HeldIn
  <2>3. Exclusive'
    BY <1>0, <1>5, <2>2 DEF IncrType, Exclusive, T2, InCs
  <2> QED
    BY <2>1, <2>3
<1> QED
  BY <1>1, <1>2, <1>3, <1>4, <1>5 DEF Threading!LockSpeedFunc, Free, Threading!Free

\* main creates and joins the threads
LEMMA CreateJoinStep ==
  ASSUME prog \in Threading!IncrProgs, prog' = prog, IncrInv, Threading!CreateJoin
  PROVE  IncrInv'
<1> USE ThreadsAssumption DEF Threading!Go, Threading!Walk
<1>0. /\ IncrType /\ IncrPlaces /\ (prog = "thread_incr" \/ Exclusive)
      /\ LockedSum /\ SpeedSum /\ RacySum
  BY DEF IncrInv
<1>1. s' = s /\ (HeldIn(s)' <=> HeldIn(s))
  BY DEF Threading!CreateJoin, HeldIn
<1>2. CASE /\ pc["main"] = "create"
           /\ pc' = [a \in DOMAIN pc |-> IF a = "main" THEN "join" ELSE "loop"]
  <2>1. IncrType' /\ IncrPlaces'
    BY <1>0, <1>1, <1>2 DEF IncrType, IncrState, IncrPlaces, T2, InCs
  <2>2. Exclusive'
    BY <1>0, <1>2 DEF IncrType, Exclusive, T2, InCs
  <2>3. LockedSum' /\ SpeedSum' /\ RacySum'
    BY <1>0, <1>1, <1>2 DEF IncrType, IncrState, IncrPlaces, LockedSum, SpeedSum, RacySum, T2, Writes
  <2> QED
    BY <2>1, <2>2, <2>3 DEF IncrInv
<1>3. CASE Threading!Walk("main", "join", "exit") /\ \A t \in Threading!Workers : Threading!Gone(t)
  <2>1. \A t \in T2 : pc[t] = "exit"
    BY <1>0, <1>3 DEF Threading!Gone, Threading!Final, Threading!Workers, IncrType, IncrPlaces, T2
  <2>2. \A t \in T2 : pc'[t] = pc[t]
    BY <1>0, <1>3 DEF IncrType, T2
  <2>3. IncrType'
    BY <1>0, <1>1, <1>3 DEF IncrType, T2
  <2>4. IncrPlaces'
    BY <1>0, <1>1, <1>3, <2>1, <2>2 DEF IncrType, IncrPlaces, T2, InCs
  <2>5. Exclusive \/ prog = "thread_incr" => (Exclusive \/ prog = "thread_incr")'
    BY <1>1, <2>2 DEF Exclusive, T2, InCs
  <2>6. LockedSum' /\ SpeedSum' /\ RacySum'
    BY <1>0, <1>1, <2>2 DEF LockedSum, SpeedSum, RacySum, T2, Writes
  <2> QED
    BY <1>0, <2>3, <2>4, <2>5, <2>6 DEF IncrInv
<1> QED
  BY <1>2, <1>3 DEF Threading!CreateJoin

\* Initially nothing is counted
LEMMA IncrInit ==
  ASSUME Threading!IncrInit
  PROVE  IncrInv
<1> USE ThreadsAssumption
<1>1. IncrType
  <2>1. pc \in [{"main", "t1", "t2"} -> {"create", "absent"}]
    BY DEF Threading!IncrInit
  <2>2. PICK m \in BOOLEAN :
          s = [glob |-> 0, loc |-> [t \in T2 |-> 0], j |-> [t \in T2 |-> 0],
               k |-> [t \in T2 |-> 0], useMutex |-> m,
               mtx |-> Free, splock |-> 0, rwlock |-> <<Free, 0>>, sem |-> 1]
    BY DEF Threading!IncrInit, T2, Free, Threading!Free
  <2>3. s \in IncrState
    BY <2>2 DEF IncrState
  <2> QED
    BY <2>1, <2>3 DEF IncrType
<1>2. /\ pc["main"] = "create" /\ pc["t1"] = "absent" /\ pc["t2"] = "absent"
      /\ s.glob = 0 /\ \A t \in T2 : s.j[t] = 0 /\ s.k[t] = 0 /\ s.loc[t] = 0
  BY DEF Threading!IncrInit, T2
<1>3. IncrPlaces /\ LockedSum /\ SpeedSum /\ RacySum
  BY <1>2 DEF IncrPlaces, LockedSum, SpeedSum, RacySum, T2, Writes, InCs
<1>4. Exclusive
  BY <1>2 DEF Exclusive, T2, InCs
<1> QED
  BY <1>1, <1>3, <1>4 DEF IncrInv

\* Every step of the counting programs keeps the invariant
LEMMA IncrStep ==
  ASSUME prog \in Threading!IncrProgs, prog' = prog, IncrInv,
         NEW a \in DOMAIN pc, Threading!Step(a)
  PROVE  IncrInv'
<1>0. a = "main" \/ a \in T2
  BY DEF IncrInv, IncrType, T2
<1>1. CASE a = "main"
  BY <1>1, StepOfProgram, CreateJoinStep
     DEF Threading!IncrProgs, Threading!thread_incr, Threading!thread_incr_mutex,
         Threading!thread_incr_spinlock, Threading!thread_incr_rwlock, Threading!thread_incr_psem,
         Threading!thread_lock_speed
<1>2. CASE a \in T2 /\ prog \in Locked
  <2>1. IncrType' /\ IncrPlaces' /\ Exclusive' /\ LockedSum'
    BY <1>2, LocksStep
  <2> QED
    BY <1>2, <2>1 DEF IncrInv, RacySum, SpeedSum, Locked
<1>3. CASE a \in T2 /\ prog = "thread_lock_speed"
  <2>1. Threading!LockSpeedFunc(a)
    BY <1>3, StepOfProgram DEF Threading!thread_lock_speed, T2
  <2>2. IncrType' /\ IncrPlaces' /\ Exclusive' /\ SpeedSum'
    BY <1>3, <2>1, SpeedStep
  <2> QED
    BY <1>3, <2>2 DEF IncrInv, RacySum, LockedSum
<1>4. CASE a \in T2 /\ prog = "thread_incr"
  <2>1. Threading!Increment(a, {s}, s)
    BY <1>4, StepOfProgram DEF Threading!thread_incr, T2
  <2>2. IncrType' /\ IncrPlaces' /\ RacySum'
    BY <1>4, <2>1, RacyStep
  <2> QED
    BY <1>4, <2>2 DEF IncrInv, SpeedSum, LockedSum
<1> QED
  BY <1>0, <1>1, <1>2, <1>3, <1>4 DEF Locked

\* When main prints glob both threads have made all of their increments
LEMMA IncrCounted ==
  ASSUME IncrInv
  PROVE  Threading!Counted
<1> SUFFICES ASSUME prog \in Threading!IncrProgs, pc["main"] = "exit"
             PROVE  CASE prog = "thread_incr"       -> s.glob \in 2 .. 2 * Loops
                      [] prog = "thread_lock_speed" -> s.glob = 2 * Loops * Loops
                      [] OTHER                      -> s.glob = 2 * Loops
  BY DEF Threading!Counted, Threading!Ended
<1> USE ThreadsAssumption
<1>1. /\ s.j["t1"] = Loops /\ s.j["t2"] = Loops /\ pc["t1"] = "exit" /\ pc["t2"] = "exit"
      /\ s.glob \in Nat
  BY DEF IncrInv, IncrType, IncrState, IncrPlaces, T2
<1>2. CASE prog = "thread_incr"
  BY <1>1, <1>2 DEF IncrInv, RacySum, Writes
<1>3. CASE prog = "thread_lock_speed"
  <2>1. s.glob = Loops * Loops + Loops * Loops
    BY <1>1, <1>3 DEF IncrInv, SpeedSum, T2
  <2> QED
    BY <1>3, <2>1
<1>4. CASE prog \notin {"thread_incr", "thread_lock_speed"}
  BY <1>1, <1>4 DEF IncrInv, LockedSum, Writes
<1> QED
  BY <1>2, <1>3, <1>4

-----------------------------------------------------------------------------
(* Producers and consumer *)

ProdProgs == {"prod_condvar", "prod_no_condvar"}

ProdState == [mtx : {Free, "main", "t1", "t2"}, avail : Nat, made : [T2 -> Nat], numConsumed : Nat,
              totRequired : Nat, done : BOOLEAN, spurious : Nat]

ProdType ==
  /\ pc \in [{"main", "t1", "t2"} -> {"create", "lock", "test", "wait", "relock", "consume", "more",
                                      "exit", "absent", "loop", "add", "unlock", "signal"}]
  /\ s \in ProdState

\* every unit made is available or consumed, and main leaves when it has consumed them all
ProdUnits ==
  /\ s.numConsumed + s.avail = s.made["t1"] + s.made["t2"]
  /\ \A t \in T2 : s.made[t] <= Units /\ (pc[t] = "add" => s.made[t] < Units)
  /\ pc["main"] # "create" => s.totRequired = 2 * Units
  /\ s.done => pc["main"] # "create" /\ s.numConsumed >= s.totRequired
  /\ pc["main"] = "exit" => s.done

ProdInv == prog \in ProdProgs => ProdType /\ ProdUnits

\* Initially nothing is made
LEMMA ProdInit ==
  ASSUME Threading!ProdInit
  PROVE  ProdInv
<1>1. /\ pc \in [{"main", "t1", "t2"} -> {"create", "absent"}]
      /\ pc["main"] = "create" /\ pc["t1"] = "absent" /\ pc["t2"] = "absent"
  BY DEF Threading!ProdInit
<1>2. s = [mtx |-> Free, avail |-> 0, made |-> [t \in T2 |-> 0], numConsumed |-> 0,
           totRequired |-> 0, done |-> FALSE, spurious |-> 0]
  BY DEF Threading!ProdInit, T2, Free, Threading!Free
<1>3. ProdType
  BY <1>1, <1>2 DEF ProdType, ProdState
<1>4. ProdUnits
  BY <1>1, <1>2, ThreadsAssumption DEF ProdUnits, T2
<1> QED
  BY <1>3, <1>4 DEF ProdInv

\* Main waits for the units of two threads
LEMMA TwoWorkers ==
  ASSUME DOMAIN pc = {"main", "t1", "t2"}
  PROVE  Threading!Cardinality(Threading!Workers) = 2
<1>1. Threading!Workers = {"t1", "t2"}
  BY DEF Threading!Workers
<1>2. Cardinality({}) = 0 /\ IsFiniteSet({})
  BY FS_EmptySet
<1>3. Cardinality({"t1"}) = 1 /\ IsFiniteSet({"t1"})
  BY FS_Singleton
<1>4. {"t1", "t2"} = {"t1"} \cup {"t2"}
  OBVIOUS
<1>5. Cardinality({"t1"} \cup {"t2"}) = 2
  BY <1>3, FS_AddElement
<1> QED
  BY <1>1, <1>4, <1>5, SameCardinality

\* A step of a producer: the unit it counts becomes available
LEMMA ProduceStep ==
  ASSUME prog \in ProdProgs, prog' = prog, ProdInv, NEW t \in T2, NEW after \in {"signal", "loop"},
         Threading!Produce(t, after)
  PROVE  ProdInv'
<1> USE ThreadsAssumption DEF Threading!Go, Threading!Walk
<1>0. ProdType /\ ProdUnits /\ t # "main"
  BY DEF ProdInv, ProdType, T2
<1>1. CASE Threading!Lock(t, "loop", "add") /\ s.made[t] < Units
  <2>1. ProdType'
    BY <1>0, <1>1 DEF Threading!Lock, ProdType, ProdState, T2
  <2>2. ProdUnits'
    BY <1>0, <1>1 DEF Threading!Lock, ProdType, ProdState, ProdUnits, T2
  <2> QED
    BY <2>1, <2>2 DEF ProdInv
<1>2. CASE Threading!Go(t, "add", "unlock") /\ s' = [s EXCEPT !.avail = @ + 1, !.made[t] = @ + 1]
  <2>0. s.avail + 1 \in Nat /\ [s.made EXCEPT ![t] = @ + 1] \in [T2 -> Nat]
    BY <1>0 DEF ProdType, ProdState
  <2>1. ProdType'
    BY <1>0, <1>2, <2>0 DEF ProdType, ProdState, T2
  <2>2. ProdUnits'
    BY <1>0, <1>2 DEF ProdType, ProdState, ProdUnits, T2
  <2> QED
    BY <2>1, <2>2 DEF ProdInv
<1>3. CASE Threading!Unlock(t, "unlock", after)
  <2>1. ProdType'
    BY <1>0, <1>3 DEF Threading!Unlock, ProdType, ProdState, T2, Free, Threading!Free
  <2>2. ProdUnits'
    BY <1>0, <1>3 DEF Threading!Unlock, ProdType, ProdState, ProdUnits, T2
  <2> QED
    BY <2>1, <2>2 DEF ProdInv
<1>4. CASE Threading!Walk(t, "loop", "exit") /\ s.made[t] = Units
  <2>1. ProdType'
    BY <1>0, <1>4 DEF ProdType, ProdState, T2
  <2>2. ProdUnits'
    BY <1>0, <1>4 DEF ProdType, ProdState, ProdUnits, T2
  <2> QED
    BY <2>1, <2>2 DEF ProdInv
<1> QED
  BY <1>1, <1>2, <1>3, <1>4 DEF Threading!Produce

\* main locks, unlocks, or goes from one place to another
LEMMA MainMove ==
  ASSUME prog \in ProdProgs, prog' = prog, ProdInv,
         NEW from \in {"lock", "test", "wait", "relock", "consume", "more"},
         NEW to \in {"lock", "test", "wait", "relock", "consume", "more", "exit"},
         Threading!Go("main", from, to), to = "exit" => s.done,
         \/ \E m \in {"main", Free} : s' = [s EXCEPT !.mtx = m]
         \/ s' = [s EXCEPT !.spurious = @ + 1]
         \/ s' = s
  PROVE  ProdInv'
<1> USE ThreadsAssumption DEF Threading!Go
<1>0. ProdType /\ ProdUnits
  BY DEF ProdInv
<1>1. /\ s' \in ProdState /\ s'.avail = s.avail /\ s'.made = s.made /\ s'.numConsumed = s.numConsumed
      /\ s'.totRequired = s.totRequired /\ s'.done = s.done
  BY <1>0 DEF ProdType, ProdState
<1>2. /\ pc' \in [{"main", "t1", "t2"} -> {"create", "lock", "test", "wait", "relock", "consume", "more",
                                      "exit", "absent", "loop", "add", "unlock", "signal"}]
      /\ pc'["main"] = to /\ \A t \in T2 : pc'[t] = pc[t]
  BY <1>0 DEF ProdType, T2
<1>3. ProdType'
  BY <1>1, <1>2 DEF ProdType
<1>4. ProdUnits'
  BY <1>0, <1>1, <1>2 DEF ProdUnits, T2
<1> QED
  BY <1>3, <1>4 DEF ProdInv

\* A step of the consumer: the unit it takes becomes consumed
LEMMA ConsumeStep ==
  ASSUME prog \in ProdProgs, prog' = prog, ProdInv, Threading!Consume
  PROVE  ProdInv'
<1> USE ThreadsAssumption DEF Threading!Go, Threading!Walk
<1>0. ProdType /\ ProdUnits
  BY DEF ProdInv
<1>1. CASE /\ Threading!Go("main", "consume", "consume") /\ s.avail > 0
           /\ s' = [s EXCEPT !.avail = @ - 1, !.numConsumed = @ + 1,
                             !.done = s.numConsumed + 1 >= s.totRequired]
  <2>0. s.avail - 1 \in Nat /\ s.numConsumed + 1 \in Nat /\ pc' = pc
    BY <1>0, <1>1 DEF ProdType, ProdState
  <2>1. ProdType'
    <3> DEFINE d == s.numConsumed + 1 >= s.totRequired
    <3>1. d \in BOOLEAN
      OBVIOUS
    <3>2. s' = [s EXCEPT !.avail = @ - 1, !.numConsumed = @ + 1, !.done = d]
      BY <1>1
    <3> HIDE DEF d
    <3> QED
      BY <1>0, <2>0, <3>1, <3>2 DEF ProdType, ProdState
  <2>2. ProdUnits'
    BY <1>0, <1>1, <2>0 DEF ProdType, ProdState, ProdUnits, T2
  <2> QED
    BY <2>1, <2>2 DEF ProdInv
<1>2. CASE Threading!Unlock("main", "consume", "more") /\ s.avail = 0
  BY <1>2, MainMove DEF Threading!Unlock, Free, Threading!Free
<1>3. CASE Threading!Walk("main", "more", IF s.done THEN "exit" ELSE "lock")
  BY <1>3, MainMove
<1> QED
  BY <1>1, <1>2, <1>3 DEF Threading!Consume

\* Main sets totRequired before there is a producer
LEMMA CreateProducersStep ==
  ASSUME prog \in ProdProgs, prog' = prog, ProdInv, Threading!CreateProducers
  PROVE  ProdInv'
<1> USE ThreadsAssumption
<1>0. ProdType /\ ProdUnits
  BY DEF ProdInv
<1>1. Threading!Cardinality(Threading!Workers) = 2
  BY <1>0, TwoWorkers DEF ProdType
<1>2. s' = [s EXCEPT !.totRequired = Units * 2] /\ Units * 2 \in Nat
  BY <1>1 DEF Threading!CreateProducers
<1>3. /\ pc' \in [{"main", "t1", "t2"} -> {"lock", "loop"}] /\ pc'["main"] = "lock"
      /\ \A t \in T2 : pc'[t] = "loop"
  BY <1>0 DEF Threading!CreateProducers, ProdType, T2
<1>4. ProdType'
  BY <1>0, <1>2, <1>3 DEF ProdType, ProdState
<1>5. ProdUnits'
  BY <1>0, <1>2, <1>3 DEF Threading!CreateProducers, ProdType, ProdState, ProdUnits, T2
<1> QED
  BY <1>4, <1>5 DEF ProdInv

\* Pthread_cond_signal moves main at most from its wait to the lock
LEMMA SignalStep ==
  ASSUME prog \in ProdProgs, prog' = prog, ProdInv, NEW t \in T2, Threading!Signal(t, "signal", "loop")
  PROVE  ProdInv'
<1>0. ProdType /\ ProdUnits /\ s' = s
  BY DEF ProdInv, Threading!Signal
<1>1. ProdType'
  BY <1>0 DEF ProdType, Threading!Signal, T2
<1>2. /\ pc["main"] = "create" <=> pc'["main"] = "create"
      /\ pc["main"] = "exit" <=> pc'["main"] = "exit"
      /\ \A u \in T2 : pc'[u] = "add" => pc[u] = "add"
  BY <1>0 DEF ProdType, Threading!Signal, T2
<1>3. ProdUnits'
  BY <1>0, <1>2 DEF ProdUnits
<1> QED
  BY <1>1, <1>3 DEF ProdInv

\* Every step of both programs, spurious wakeups included
LEMMA ProdStep ==
  ASSUME prog \in ProdProgs, prog' = prog, ProdInv,
         \/ \E a \in DOMAIN pc : Threading!Step(a)
         \/ Threading!Env
  PROVE  ProdInv'
<1> USE DEF Threading!Free, Free
<1>0. DOMAIN pc = {"main"} \cup T2 /\ "main" \notin T2
  BY DEF ProdInv, ProdType, T2
<1>1. CASE \E a \in T2 : Threading!Step(a)
  <2>1. PICK a \in T2 : Threading!Step(a)
    BY <1>1
  <2>2. \/ \E after \in {"signal", "loop"} : Threading!Produce(a, after)
        \/ Threading!Signal(a, "signal", "loop")
    BY <1>0, <2>1, StepOfProgram DEF ProdProgs, Threading!prod_condvar, Threading!prod_no_condvar
  <2> QED
    BY <2>2, ProduceStep, SignalStep
<1>2. CASE Threading!Step("main") /\ prog = "prod_condvar"
  <2>1. Threading!prod_condvar("main")
    BY <1>2, StepOfProgram
  <2>2. CASE Threading!CreateProducers \/ Threading!Consume
    BY <2>2, CreateProducersStep, ConsumeStep
  <2>3. CASE Threading!Lock("main", "lock", "test") \/ Threading!Lock("main", "relock", "test")
    BY <2>3, MainMove DEF Threading!Lock
  <2>4. CASE Threading!Walk("main", "test", "consume")
    BY <2>4, MainMove DEF Threading!Walk
  <2>5. CASE Threading!Unlock("main", "test", "wait")
    BY <2>5, MainMove DEF Threading!Unlock
  <2> QED
    BY <2>1, <2>2, <2>3, <2>4, <2>5 DEF Threading!prod_condvar
<1>3. CASE Threading!Step("main") /\ prog = "prod_no_condvar"
  <2>1. Threading!prod_no_condvar("main")
    BY <1>3, StepOfProgram
  <2>2. CASE Threading!CreateProducers \/ Threading!Consume
    BY <2>2, CreateProducersStep, ConsumeStep
  <2>3. CASE Threading!Lock("main", "lock", "consume")
    BY <2>3, MainMove DEF Threading!Lock
  <2> QED
    BY <2>1, <2>2, <2>3 DEF Threading!prod_no_condvar
<1>4. CASE Threading!Env
  BY <1>4, MainMove DEF Threading!Env, Threading!SpuriousWakeup, Threading!Do
<1> QED
  BY <1>0, <1>1, <1>2, <1>3, <1>4 DEF ProdProgs

\* Main leaves when numConsumed is totRequired, and no more units than that are made
LEMMA ProdConsumed ==
  ASSUME ProdInv
  PROVE  Threading!Consumed
  BY ThreadsAssumption
     DEF ProdInv, ProdType, ProdState, ProdUnits, ProdProgs, T2, Threading!Consumed, Threading!Ended

-----------------------------------------------------------------------------
(* One-time initialisation *)

OnceState == [mtx : {Free, "t1", "t2"}, called : {0, 1}, started : {0, 1}, finished : {0, 1},
              returned : [T2 -> Nat]]

OnceType ==
  /\ pc \in [{"main", "t1", "t2"} -> {"create", "join", "exit", "absent", "loop", "test", "init", "unlock"}]
  /\ s \in OnceState

\* initFunc runs under the mutex, and once it has returned control says so
OnceDone ==
  /\ pc["main"] \in {"create", "join", "exit"}
  /\ \A t \in T2 : /\ pc["main"] = "create" => pc[t] = "absent"
                   /\ pc[t] \in {"test", "init", "unlock"} => s.mtx = t
                   /\ pc[t] = "init" => s.called = 0 /\ s.started = 1
                   /\ pc[t] = "unlock" \/ s.returned[t] > 0 => s.called = 1
  /\ s.finished = s.called
  /\ s.called = 0 /\ s.started = 1 => \E t \in T2 : pc[t] = "init"

OnceInv == prog = "one_time_init" => OnceType /\ OnceDone

\* Initially control says that initFunc has not been called
LEMMA OnceInit ==
  ASSUME Threading!OnceInit
  PROVE  OnceInv
<1>1. /\ pc \in [{"main", "t1", "t2"} -> {"create", "absent"}]
      /\ pc["main"] = "create" /\ pc["t1"] = "absent" /\ pc["t2"] = "absent"
  BY DEF Threading!OnceInit
<1>2. s = [mtx |-> Free, called |-> 0, started |-> 0, finished |-> 0, returned |-> [t \in T2 |-> 0]]
  BY DEF Threading!OnceInit, T2, Free, Threading!Free
<1> QED
  BY <1>1, <1>2 DEF OnceInv, OnceType, OnceState, OnceDone, T2

\* Every step of one_time_init
LEMMA OnceStep ==
  ASSUME prog = "one_time_init", prog' = prog, OnceInv, NEW a \in DOMAIN pc, Threading!Step(a)
  PROVE  OnceInv'
<1> USE DEF Threading!Go, Threading!Walk, Threading!Do, T2
<1>0. /\ OnceType /\ OnceDone /\ Threading!one_time_init(a)
  BY StepOfProgram DEF OnceInv
<1>1. CASE a = "main"
  <2>1. s' = s /\ pc' \in [{"main", "t1", "t2"} -> {"create", "join", "exit", "absent", "loop", "test", "init", "unlock"}]
    BY <1>0, <1>1 DEF Threading!one_time_init, Threading!CreateJoin, OnceType
  <2>2. /\ pc'["main"] \in {"join", "exit"}
        /\ \A t \in T2 : pc[t] # "absent" => pc'[t] = pc[t]
        /\ \A t \in T2 : pc[t] = "absent" => pc'[t] \in {"absent", "loop"}
    BY <1>0, <1>1 DEF Threading!one_time_init, Threading!CreateJoin, OnceType, OnceDone
  <2>3. OnceType'
    BY <1>0, <2>1 DEF OnceType
  <2>4. OnceDone'
    BY <1>0, <2>1, <2>2 DEF OnceType, OnceState, OnceDone
  <2> QED
    BY <2>3, <2>4 DEF OnceInv
<1>2. CASE a \in T2
  <2>1. CASE Threading!Lock(a, "loop", "test") /\ s.returned[a] < 2
    <3>1. OnceType'
      BY <1>0, <1>2, <2>1 DEF Threading!Lock, OnceType, OnceState
    <3>2. OnceDone'
      BY <1>0, <1>2, <2>1 DEF Threading!Lock, OnceType, OnceState, OnceDone, Free, Threading!Free
    <3> QED
      BY <3>1, <3>2 DEF OnceInv
  <2>2. CASE Threading!Walk(a, "test", "unlock") /\ s.called = 1
    <3>1. OnceType'
      BY <1>0, <1>2, <2>2 DEF OnceType, OnceState
    <3>2. OnceDone'
      BY <1>0, <1>2, <2>2 DEF OnceType, OnceState, OnceDone
    <3> QED
      BY <3>1, <3>2 DEF OnceInv
  <2>3. CASE Threading!Do(a, "test", "init", [s EXCEPT !.started = @ + 1]) /\ s.called = 0
    <3>0. s.started = 0
      BY <1>0, <1>2, <2>3 DEF OnceType, OnceState, OnceDone
    <3>1. OnceType'
      BY <1>0, <1>2, <2>3, <3>0 DEF OnceType, OnceState
    <3>2. OnceDone'
      BY <1>0, <1>2, <2>3, <3>0 DEF OnceType, OnceState, OnceDone
    <3> QED
      BY <3>1, <3>2 DEF OnceInv
  <2>4. CASE Threading!Do(a, "init", "unlock", [s EXCEPT !.finished = @ + 1, !.called = 1])
    <3>0. s.finished = 0
      BY <1>0, <1>2, <2>4 DEF OnceType, OnceState, OnceDone
    <3>1. OnceType'
      <4>1. s' = [s EXCEPT !.finished = 1, !.called = 1]
        BY <2>4, <3>0
      <4>2. s' \in OnceState
        BY <1>0, <4>1 DEF OnceType, OnceState
      <4> QED
        BY <1>0, <1>2, <2>4, <4>2 DEF OnceType
    <3>2. OnceDone'
      BY <1>0, <1>2, <2>4, <3>0 DEF OnceType, OnceState, OnceDone
    <3> QED
      BY <3>1, <3>2 DEF OnceInv
  <2>5. CASE Threading!Do(a, "unlock", "loop", [s EXCEPT !.mtx = Free, !.returned[a] = @ + 1])
    <3>0. [s.returned EXCEPT ![a] = @ + 1] \in [T2 -> Nat]
      BY <1>0, <1>2 DEF OnceType, OnceState
    <3>1. OnceType'
      BY <1>0, <1>2, <2>5, <3>0 DEF OnceType, OnceState
    <3>2. OnceDone'
      BY <1>0, <1>2, <2>5, <3>0 DEF OnceType, OnceState, OnceDone
    <3> QED
      BY <3>1, <3>2 DEF OnceInv
  <2>6. CASE Threading!Walk(a, "loop", "exit")
    <3>1. OnceType'
      BY <1>0, <1>2, <2>6 DEF OnceType, OnceState
    <3>2. OnceDone'
      BY <1>0, <1>2, <2>6 DEF OnceType, OnceState, OnceDone
    <3> QED
      BY <3>1, <3>2 DEF OnceInv
  <2> QED
    BY <1>0, <1>2, <2>1, <2>2, <2>3, <2>4, <2>5, <2>6 DEF Threading!one_time_init, Free, Threading!Free
<1> QED
  BY <1>0, <1>1, <1>2 DEF OnceType

\* The invariant is what one_time_init promises
LEMMA OnceInitialised ==
  ASSUME OnceInv
  PROVE  Threading!InitOnce
  BY DEF OnceInv, OnceType, OnceState, OnceDone, T2, Threading!InitOnce, Threading!Workers

-----------------------------------------------------------------------------
(* Cancellation with a cleanup handler *)

CleanupState == [argc : {1, 2}, mtx : {Free, "main", "t1"}, glob : {0, 1},
                 buf : {"none", "allocated", "freed"}, cancel : BOOLEAN, pushed : BOOLEAN,
                 res : {"none", "NULL", "PTHREAD_CANCELED"}]

CleanupType ==
  /\ pc \in [{"main", "t1"} -> {"create", "argc", "glob", "signal", "join", "exit", "absent", "start",
                                "printf", "lock", "push", "while", "wait", "relock"}]
  /\ s \in CleanupState

\* main sets glob or cancels the thread, never both
CleanupPlaces ==
  /\ pc["main"] \in {"create", "argc", "glob", "signal", "join", "exit"}
  /\ pc["main"] = "create" <=> pc["t1"] = "absent"
  /\ pc["main"] = "exit" => pc["t1"] = "exit"
  /\ s.argc = 1 => s.glob = 0 /\ pc["main"] \notin {"glob", "signal"}
  /\ s.argc = 2 => ~s.cancel

\* the handler is pushed while the mutex is held or waited for with pthread_cond_wait
CleanupHeld ==
  /\ s.mtx = "t1" <=> pc["t1"] \in {"push", "while"}
  /\ s.mtx = "main" <=> pc["main"] = "glob"
  /\ s.pushed <=> pc["t1"] \in {"while", "wait", "relock"}
  /\ pc["t1"] \notin {"absent", "start", "exit"} => s.buf = "allocated"
  /\ pc["t1"] = "exit" => /\ s.res = (IF s.argc = 2 THEN "NULL" ELSE "PTHREAD_CANCELED")
                          /\ s.buf = "freed" \/ (s.argc = 1 /\ s.buf = "allocated")

CleanupInv == prog = "thread_cleanup" => CleanupType /\ CleanupPlaces /\ CleanupHeld

\* Initially the thread does not exist
LEMMA CleanupInit ==
  ASSUME Threading!CancelInit
  PROVE  CleanupInv
<1>1. /\ pc \in [{"main", "t1"} -> {"create", "absent"}]
      /\ pc["main"] = "create" /\ pc["t1"] = "absent"
  BY DEF Threading!CancelInit
<1>2. PICK argc \in {1, 2} :
        s = [argc |-> argc, mtx |-> Free, glob |-> 0, buf |-> "none", cancel |-> FALSE,
             pushed |-> FALSE, res |-> "none"]
  BY DEF Threading!CancelInit, Free, Threading!Free
<1>3. CleanupType
  BY <1>1, <1>2 DEF CleanupType, CleanupState
<1>4. CleanupPlaces
  BY <1>1, <1>2 DEF CleanupPlaces
<1>5. CleanupHeld
  BY <1>1, <1>2 DEF CleanupHeld, Free
<1> QED
  BY <1>3, <1>4, <1>5 DEF CleanupInv

\* A step of the thread, cancellations included
LEMMA CleanupThreadStep ==
  ASSUME prog = "thread_cleanup", prog' = prog, CleanupInv, Threading!CleanupThread
  PROVE  CleanupInv'
<1> USE DEF Threading!Go, Threading!Walk, Threading!Do, Free, Threading!Free
<1>0. CleanupType /\ CleanupPlaces /\ CleanupHeld
  BY DEF CleanupInv
<1>1. CASE Threading!Do("t1", "start", "printf", [s EXCEPT !.buf = "allocated"])
  <2>1. CleanupType'
    BY <1>0, <1>1 DEF CleanupType, CleanupState
  <2>2. CleanupPlaces'
    BY <1>0, <1>1 DEF CleanupType, CleanupState, CleanupPlaces, CleanupHeld
  <2>3. CleanupHeld'
    BY <1>0, <1>1 DEF CleanupType, CleanupState, CleanupPlaces, CleanupHeld
  <2> QED
    BY <2>1, <2>2, <2>3 DEF CleanupInv
<1>2. CASE Threading!Walk("t1", "printf", "lock")
  <2>1. CleanupType'
    BY <1>0, <1>2 DEF CleanupType, CleanupState
  <2>2. CleanupPlaces'
    BY <1>0, <1>2 DEF CleanupType, CleanupState, CleanupPlaces, CleanupHeld
  <2>3. CleanupHeld'
    BY <1>0, <1>2 DEF CleanupType, CleanupState, CleanupPlaces, CleanupHeld
  <2> QED
    BY <2>1, <2>2, <2>3 DEF CleanupInv
<1>3. CASE Threading!Do("t1", "printf", "exit", Threading!Canceled(s)) /\ s.cancel
  <2>1. CleanupType'
    BY <1>0, <1>3 DEF CleanupType, CleanupState, Threading!Canceled, Threading!cleanupHandler
  <2>2. CleanupPlaces'
    BY <1>0, <1>3 DEF CleanupType, CleanupState, CleanupPlaces, CleanupHeld, Threading!Canceled, Threading!cleanupHandler
  <2>3. CleanupHeld'
    BY <1>0, <1>3 DEF CleanupType, CleanupState, CleanupPlaces, CleanupHeld, Threading!Canceled, Threading!cleanupHandler
  <2> QED
    BY <2>1, <2>2, <2>3 DEF CleanupInv
<1>4. CASE Threading!Lock("t1", "lock", "push")
  <2>1. CleanupType'
    BY <1>0, <1>4 DEF CleanupType, CleanupState, Threading!Lock
  <2>2. CleanupPlaces'
    BY <1>0, <1>4 DEF CleanupType, CleanupState, CleanupPlaces, CleanupHeld, Threading!Lock
  <2>3. CleanupHeld'
    BY <1>0, <1>4 DEF CleanupType, CleanupState, CleanupPlaces, CleanupHeld, Threading!Lock
  <2> QED
    BY <2>1, <2>2, <2>3 DEF CleanupInv
<1>5. CASE Threading!Do("t1", "push", "while", [s EXCEPT !.pushed = TRUE])
  <2>1. CleanupType'
    BY <1>0, <1>5 DEF CleanupType, CleanupState
  <2>2. CleanupPlaces'
    BY <1>0, <1>5 DEF CleanupType, CleanupState, CleanupPlaces, CleanupHeld
  <2>3. CleanupHeld'
    BY <1>0, <1>5 DEF CleanupType, CleanupState, CleanupPlaces, CleanupHeld
  <2> QED
    BY <2>1, <2>2, <2>3 DEF CleanupInv
<1>6. CASE Threading!Unlock("t1", "while", "wait") /\ s.glob = 0 /\ ~s.cancel
  <2>1. CleanupType'
    BY <1>0, <1>6 DEF CleanupType, CleanupState, Threading!Unlock
  <2>2. CleanupPlaces'
    BY <1>0, <1>6 DEF CleanupType, CleanupState, CleanupPlaces, CleanupHeld, Threading!Unlock
  <2>3. CleanupHeld'
    BY <1>0, <1>6 DEF CleanupType, CleanupState, CleanupPlaces, CleanupHeld, Threading!Unlock
  <2> QED
    BY <2>1, <2>2, <2>3 DEF CleanupInv
<1>7. CASE Threading!Do("t1", "while", "exit", Threading!Canceled(s)) /\ s.glob = 0 /\ s.cancel
  <2>1. CleanupType'
    BY <1>0, <1>7 DEF CleanupType, CleanupState, Threading!Canceled, Threading!cleanupHandler
  <2>2. CleanupPlaces'
    BY <1>0, <1>7 DEF CleanupType, CleanupState, CleanupPlaces, CleanupHeld, Threading!Canceled, Threading!cleanupHandler
  <2>3. CleanupHeld'
    BY <1>0, <1>7 DEF CleanupType, CleanupState, CleanupPlaces, CleanupHeld, Threading!Canceled, Threading!cleanupHandler
  <2> QED
    BY <2>1, <2>2, <2>3 DEF CleanupInv
<1>8. CASE Threading!Do("t1", "wait", "exit", Threading!Canceled([s EXCEPT !.mtx = "t1"])) /\ s.cancel /\ s.mtx = Free
  <2>1. CleanupType'
    BY <1>0, <1>8 DEF CleanupType, CleanupState, Threading!Canceled, Threading!cleanupHandler
  <2>2. CleanupPlaces'
    BY <1>0, <1>8 DEF CleanupType, CleanupState, CleanupPlaces, CleanupHeld, Threading!Canceled, Threading!cleanupHandler
  <2>3. CleanupHeld'
    BY <1>0, <1>8 DEF CleanupType, CleanupState, CleanupPlaces, CleanupHeld, Threading!Canceled, Threading!cleanupHandler
  <2> QED
    BY <2>1, <2>2, <2>3 DEF CleanupInv
<1>9. CASE Threading!Lock("t1", "relock", "while")
  <2>1. CleanupType'
    BY <1>0, <1>9 DEF CleanupType, CleanupState, Threading!Lock
  <2>2. CleanupPlaces'
    BY <1>0, <1>9 DEF CleanupType, CleanupState, CleanupPlaces, CleanupHeld, Threading!Lock
  <2>3. CleanupHeld'
    BY <1>0, <1>9 DEF CleanupType, CleanupState, CleanupPlaces, CleanupHeld, Threading!Lock
  <2> QED
    BY <2>1, <2>2, <2>3 DEF CleanupInv
<1>10. CASE Threading!Do("t1", "while", "exit", [Threading!cleanupHandler(s) EXCEPT !.res = "NULL"]) /\ s.glob = 1
  <2>1. CleanupType'
    BY <1>0, <1>10 DEF CleanupType, CleanupState, Threading!cleanupHandler
  <2>2. CleanupPlaces'
    BY <1>0, <1>10 DEF CleanupType, CleanupState, CleanupPlaces, CleanupHeld, Threading!cleanupHandler
  <2>3. CleanupHeld'
    BY <1>0, <1>10 DEF CleanupType, CleanupState, CleanupPlaces, CleanupHeld, Threading!cleanupHandler
  <2> QED
    BY <2>1, <2>2, <2>3 DEF CleanupInv
<1> QED
  BY <1>1, <1>2, <1>3, <1>4, <1>5, <1>6, <1>7, <1>8, <1>9, <1>10 DEF Threading!CleanupThread

\* A step of main: the cancellation, or glob and the signal
LEMMA CleanupMainStep ==
  ASSUME prog = "thread_cleanup", prog' = prog, CleanupInv, Threading!CleanupMain
  PROVE  CleanupInv'
<1> USE DEF Threading!Go, Threading!Walk, Threading!Do, Free, Threading!Free
<1>0. CleanupType /\ CleanupPlaces /\ CleanupHeld
  BY DEF CleanupInv
<1>1. CASE /\ pc["main"] = "create" /\ UNCHANGED s
           /\ pc' = [a \in DOMAIN pc |-> IF a = "main" THEN "argc" ELSE "start"]
  <2>1. CleanupType'
    BY <1>0, <1>1 DEF CleanupType, CleanupState
  <2>2. CleanupPlaces'
    BY <1>0, <1>1 DEF CleanupType, CleanupState, CleanupPlaces, CleanupHeld
  <2>3. CleanupHeld'
    BY <1>0, <1>1 DEF CleanupType, CleanupState, CleanupPlaces, CleanupHeld
  <2> QED
    BY <2>1, <2>2, <2>3 DEF CleanupInv
<1>2. CASE Threading!Do("main", "argc", "join", [s EXCEPT !.cancel = TRUE]) /\ s.argc = 1
  <2>1. CleanupType'
    BY <1>0, <1>2 DEF CleanupType, CleanupState
  <2>2. CleanupPlaces'
    BY <1>0, <1>2 DEF CleanupType, CleanupState, CleanupPlaces, CleanupHeld
  <2>3. CleanupHeld'
    BY <1>0, <1>2 DEF CleanupType, CleanupState, CleanupPlaces, CleanupHeld
  <2> QED
    BY <2>1, <2>2, <2>3 DEF CleanupInv
<1>3. CASE Threading!Lock("main", "argc", "glob") /\ s.argc = 2
  <2>1. CleanupType'
    BY <1>0, <1>3 DEF CleanupType, CleanupState, Threading!Lock
  <2>2. CleanupPlaces'
    BY <1>0, <1>3 DEF CleanupType, CleanupState, CleanupPlaces, CleanupHeld, Threading!Lock
  <2>3. CleanupHeld'
    BY <1>0, <1>3 DEF CleanupType, CleanupState, CleanupPlaces, CleanupHeld, Threading!Lock
  <2> QED
    BY <2>1, <2>2, <2>3 DEF CleanupInv
<1>4. CASE Threading!Do("main", "glob", "signal", [s EXCEPT !.glob = 1, !.mtx = Free])
  <2>1. CleanupType'
    BY <1>0, <1>4 DEF CleanupType, CleanupState
  <2>2. CleanupPlaces'
    BY <1>0, <1>4 DEF CleanupType, CleanupState, CleanupPlaces, CleanupHeld
  <2>3. CleanupHeld'
    BY <1>0, <1>4 DEF CleanupType, CleanupState, CleanupPlaces, CleanupHeld
  <2> QED
    BY <2>1, <2>2, <2>3 DEF CleanupInv
<1>5. CASE /\ pc["main"] = "signal" /\ UNCHANGED s
           /\ pc' = [pc EXCEPT !["main"] = "join", !["t1"] = IF @ = "wait" THEN "relock" ELSE @]
  <2>1. CleanupType'
    BY <1>0, <1>5 DEF CleanupType, CleanupState
  <2>2. CleanupPlaces'
    BY <1>0, <1>5 DEF CleanupType, CleanupState, CleanupPlaces, CleanupHeld
  <2>3. CleanupHeld'
    BY <1>0, <1>5 DEF CleanupType, CleanupState, CleanupPlaces, CleanupHeld
  <2> QED
    BY <2>1, <2>2, <2>3 DEF CleanupInv
<1>6. CASE Threading!Walk("main", "join", "exit") /\ Threading!Gone("t1")
  <2>1. CleanupType'
    BY <1>0, <1>6 DEF CleanupType, CleanupState, Threading!Gone, Threading!Final
  <2>2. CleanupPlaces'
    BY <1>0, <1>6 DEF CleanupType, CleanupState, CleanupPlaces, CleanupHeld, Threading!Gone, Threading!Final
  <2>3. CleanupHeld'
    BY <1>0, <1>6 DEF CleanupType, CleanupState, CleanupPlaces, CleanupHeld, Threading!Gone, Threading!Final
  <2> QED
    BY <2>1, <2>2, <2>3 DEF CleanupInv
<1> QED
  BY <1>1, <1>2, <1>3, <1>4, <1>5, <1>6 DEF Threading!CleanupMain

\* Every step of thread_cleanup
LEMMA CleanupStep ==
  ASSUME prog = "thread_cleanup", prog' = prog, CleanupInv, NEW a \in DOMAIN pc, Threading!Step(a)
  PROVE  CleanupInv'
<1>1. CASE a = "main"
  BY <1>1, StepOfProgram, CleanupMainStep DEF Threading!thread_cleanup
<1>2. CASE a # "main"
  BY <1>2, StepOfProgram, CleanupThreadStep DEF Threading!thread_cleanup
<1> QED
  BY <1>1, <1>2

\* After the join nothing is held
LEMMA CleanupDone ==
  ASSUME CleanupInv
  PROVE  Threading!CleanedUp
  BY DEF CleanupInv, CleanupType, CleanupState, CleanupPlaces, CleanupHeld, Free, Threading!Free,
         Threading!CleanedUp, Threading!Ended

-----------------------------------------------------------------------------
(* Barriers *)

T3 == {"t1", "t2", "t3"}

\* the barriers that t has passed
Passed(t) == s.j[t] + (IF pc[t] = "passed" THEN 1 ELSE 0)

BarrierType ==
  /\ pc \in [{"main"} \cup T3 -> {"create", "join", "exit", "absent", "sleep", "wait", "passed"}]
  /\ s \in [j : [T3 -> Nat], waiting : SUBSET T3, serial : Seq(T3 \X Nat), numThreads : {0, 3}]

\* as many barriers are behind every thread as have had their serial thread
BarrierPassed ==
  /\ s.waiting = {t \in T3 : pc[t] = "wait"}
  /\ pc["main"] \in {"create", "join", "exit"}
  /\ pc["main"] # "create" => s.numThreads = 3
  /\ \A t \in T3 : /\ Passed(t) = Len(s.serial) /\ s.j[t] <= Rounds
                   /\ pc["main"] = "create" <=> pc[t] = "absent"
                   /\ pc[t] \notin {"create", "join"}
                   /\ pc["main"] = "exit" => pc[t] = "exit"
                   /\ pc[t] \in {"wait", "passed"} => s.j[t] < Rounds
                   /\ pc[t] = "exit" => s.j[t] = Rounds
  /\ \A i \in 1..Len(s.serial) : s.serial[i][2] = i - 1

BarrierInv == prog = "pthread_barrier_demo" => BarrierType /\ BarrierPassed

\* Initially no barrier has been passed
LEMMA BarrierInit ==
  ASSUME Threading!BarrierInit
  PROVE  BarrierInv
<1>1. /\ pc \in [{"main"} \cup T3 -> {"create", "absent"}]
      /\ pc["main"] = "create" /\ \A t \in T3 : pc[t] = "absent"
  BY DEF Threading!BarrierInit, T3
<1>2. s = [j |-> [t \in T3 |-> 0], waiting |-> {}, serial |-> << >>, numThreads |-> 0]
  BY DEF Threading!BarrierInit, T3
<1>3. << >> \in Seq(T3 \X Nat) /\ Len(<< >>) = 0
  OBVIOUS
<1>4. BarrierType
  BY <1>1, <1>2, <1>3 DEF BarrierType
<1>5. BarrierPassed
  BY <1>1, <1>2, <1>3, ThreadsAssumption DEF BarrierPassed, Passed
<1> QED
  BY <1>4, <1>5 DEF BarrierInv

\* Only all three threads together make the barrier open
LEMMA ThreeThreads ==
  /\ IsFiniteSet(T3) /\ Cardinality(T3) = 3
  /\ \A W \in SUBSET T3 : Cardinality(W) < 3 <=> W # T3
<1>1. Cardinality({"t1"}) = 1 /\ IsFiniteSet({"t1"})
  BY FS_Singleton
<1>2. Cardinality({"t1"} \cup {"t2"}) = 2 /\ IsFiniteSet({"t1"} \cup {"t2"})
  BY <1>1, FS_AddElement
<1>3. /\ Cardinality({"t1"} \cup {"t2"} \cup {"t3"}) = 3
      /\ IsFiniteSet({"t1"} \cup {"t2"} \cup {"t3"})
  BY <1>2, FS_AddElement
<1>4. T3 = {"t1"} \cup {"t2"} \cup {"t3"}
  BY DEF T3
<1>5. IsFiniteSet(T3) /\ Cardinality(T3) = 3
  BY <1>3, <1>4
<1>6. ASSUME NEW W \in SUBSET T3 PROVE Cardinality(W) < 3 <=> W # T3
  BY <1>5, FS_Subset, FS_CardinalityType
<1> QED
  BY <1>5, <1>6

\* What Append does
LEMMA Appended ==
  ASSUME NEW S, NEW q \in Seq(S), NEW e \in S
  PROVE  /\ Append(q, e) \in Seq(S) /\ Len(Append(q, e)) = Len(q) + 1 /\ Len(q) \in Nat
         /\ \A i \in 1..Len(q) : Append(q, e)[i] = q[i]
         /\ Append(q, e)[Len(q) + 1] = e
  OBVIOUS

\* Pthread_barrier_wait: one thread more waits, or all three pass
LEMMA BarrierWaitStep ==
  ASSUME prog = "pthread_barrier_demo", prog' = prog, BarrierInv, NEW t \in T3, Threading!BarrierWait(t)
  PROVE  BarrierInv'
<1> USE ThreadsAssumption
<1>0. BarrierType /\ BarrierPassed /\ pc[t] = "sleep" /\ s.j[t] < Rounds /\ "main" \notin T3
  BY DEF BarrierInv, Threading!BarrierWait, T3
<1>1. s.waiting \cup {t} \in SUBSET T3 /\ s.numThreads = 3 /\ t \notin s.waiting
  BY <1>0 DEF BarrierType, BarrierPassed
<1>2. Threading!Cardinality(s.waiting \cup {t}) < s.numThreads <=> s.waiting \cup {t} # T3
  BY <1>1, ThreeThreads, SameCardinality
<1>3. CASE s.waiting \cup {t} # T3
  <2>1. pc' = [pc EXCEPT ![t] = "wait"] /\ s' = [s EXCEPT !.waiting = @ \cup {t}]
    BY <1>2, <1>3 DEF Threading!BarrierWait
  <2>2. BarrierType'
    BY <1>0, <1>1, <2>1 DEF BarrierType
  <2>3. s'.j = s.j /\ s'.serial = s.serial /\ s'.numThreads = s.numThreads /\ s'.waiting = s.waiting \cup {t}
    BY <1>0, <2>1 DEF BarrierType
  <2>4. BarrierPassed'
    BY <1>0, <2>1, <2>3 DEF BarrierType, BarrierPassed, Passed
  <2> QED
    BY <2>2, <2>4 DEF BarrierInv
<1>4. CASE s.waiting \cup {t} = T3
  <2>1. PICK serial \in T3 :
          /\ pc' = [a \in DOMAIN pc |-> IF a \in T3 THEN "passed" ELSE pc[a]]
          /\ s' = [s EXCEPT !.waiting = {}, !.serial = Append(@, <<serial, s.j[serial]>>)]
    BY <1>2, <1>4 DEF Threading!BarrierWait
  <2>2. s.j[serial] \in Nat /\ <<serial, s.j[serial]>> \in T3 \X Nat /\ s.serial \in Seq(T3 \X Nat)
    BY <1>0 DEF BarrierType
  <2> DEFINE e == <<serial, s.j[serial]>>
  <2>3. /\ Append(s.serial, e) \in Seq(T3 \X Nat) /\ Len(Append(s.serial, e)) = Len(s.serial) + 1
        /\ Len(s.serial) \in Nat
        /\ \A i \in 1..Len(s.serial) : Append(s.serial, e)[i] = s.serial[i]
        /\ Append(s.serial, e)[Len(s.serial) + 1] = e
    <3>1. e \in T3 \X Nat
      BY <2>2
    <3> HIDE DEF e
    <3> QED
      BY <2>2, <3>1, Appended
  <2>4. /\ s'.j = s.j /\ s'.waiting = {} /\ s'.serial = Append(s.serial, e)
        /\ s'.numThreads = s.numThreads
    BY <1>0, <2>1 DEF BarrierType
  <2>5. \A u \in T3 : pc[u] \in {"sleep", "wait"} /\ s.j[u] = Len(s.serial) /\ s.j[u] < Rounds
    BY <1>0, <1>4 DEF BarrierType, BarrierPassed, Passed
  <2>6. e[2] = Len(s.serial)
    BY <2>5
  <2>7. pc'["main"] = pc["main"] /\ \A u \in T3 : pc'[u] = "passed"
    BY <1>0, <2>1 DEF BarrierType
  <2>8. BarrierType'
    <3>1. s' = [s EXCEPT !.waiting = {}, !.serial = Append(s.serial, e)]
      BY <2>1
    <3>2. pc' \in [{"main"} \cup T3 -> {"create", "join", "exit", "absent", "sleep", "wait", "passed"}]
      BY <1>0, <2>1 DEF BarrierType
    <3> HIDE DEF e
    <3> QED
      BY <1>0, <2>3, <3>1, <3>2 DEF BarrierType
  <2>9. BarrierPassed'
    <3>1. \A i \in 1..Len(s'.serial) : s'.serial[i][2] = i - 1
      <4> SUFFICES ASSUME NEW i \in 1..Len(s'.serial) PROVE s'.serial[i][2] = i - 1
        OBVIOUS
      <4>1. Len(s'.serial) = Len(s.serial) + 1 /\ s'.serial[Len(s.serial) + 1][2] = Len(s.serial)
        BY <2>3, <2>4, <2>6
      <4>2. i \in 1..Len(s.serial) => s'.serial[i] = s.serial[i]
        BY <2>3, <2>4
      <4>3. i \in 1..Len(s.serial) => s.serial[i][2] = i - 1
        BY <1>0 DEF BarrierPassed
      <4>4. i \in 1..Len(s.serial) \/ i = Len(s.serial) + 1
        BY <2>3, <4>1
      <4>5. CASE i \in 1..Len(s.serial)
        BY <4>2, <4>3, <4>5
      <4>6. CASE i = Len(s.serial) + 1
        <5>1. Len(s.serial) = i - 1
          BY <2>3, <4>6
        <5> QED
          BY <4>1, <4>6, <5>1
      <4> QED
        BY <4>4, <4>5, <4>6
    <3>2. \A u \in T3 : Passed(u)' = Len(s'.serial)
      <4> HIDE DEF e
      <4> QED
        BY <2>3, <2>4, <2>5, <2>7 DEF Passed
    <3>3. s'.waiting = {u \in T3 : pc'[u] = "wait"}
      BY <2>4, <2>7
    <3>4. pc["main"] \notin {"create", "exit"}
      BY <1>0 DEF BarrierPassed
    <3> QED
      BY <1>0, <2>4, <2>5, <2>7, <3>1, <3>2, <3>3, <3>4 DEF BarrierPassed
  <2> QED
    BY <2>8, <2>9 DEF BarrierInv
<1> QED
  BY <1>3, <1>4

\* Every step of pthread_barrier_demo
LEMMA BarrierStep ==
  ASSUME prog = "pthread_barrier_demo", prog' = prog, BarrierInv, NEW a \in DOMAIN pc, Threading!Step(a)
  PROVE  BarrierInv'
<1> USE ThreadsAssumption DEF Threading!Go, Threading!Walk, Threading!Do
<1>0. BarrierType /\ BarrierPassed /\ "main" \notin T3 /\ Threading!pthread_barrier_demo(a)
  BY StepOfProgram DEF BarrierInv, T3
<1>1. CASE a \in T3 /\ Threading!BarrierWait(a)
  BY <1>1, BarrierWaitStep
<1>2. CASE a \in T3 /\ Threading!Do(a, "passed", "sleep", [s EXCEPT !.j[a] = @ + 1])
  <2>1. /\ s'.j = [s.j EXCEPT ![a] = @ + 1] /\ s'.serial = s.serial /\ s'.waiting = s.waiting
        /\ s'.numThreads = s.numThreads /\ s'.j \in [T3 -> Nat]
    BY <1>0, <1>2 DEF BarrierType
  <2>2. BarrierType'
    BY <1>0, <1>2, <2>1 DEF BarrierType
  <2>3. BarrierPassed'
    BY <1>0, <1>2, <2>1 DEF BarrierType, BarrierPassed, Passed
  <2> QED
    BY <2>2, <2>3 DEF BarrierInv
<1>3. CASE a \in T3 /\ Threading!Walk(a, "sleep", "exit") /\ s.j[a] = Rounds
  <2>1. BarrierType'
    BY <1>0, <1>3 DEF BarrierType
  <2>2. BarrierPassed'
    BY <1>0, <1>3 DEF BarrierType, BarrierPassed, Passed
  <2> QED
    BY <2>1, <2>2 DEF BarrierInv
<1>4. CASE /\ pc["main"] = "create"
           /\ pc' = [b \in DOMAIN pc |-> IF b = "main" THEN "join" ELSE "sleep"]
           /\ s' = [s EXCEPT !.numThreads = Threading!Cardinality(Threading!Workers)]
  <2>1. Threading!Cardinality(Threading!Workers) = 3
    <3>1. Threading!Workers = T3
      BY <1>0 DEF BarrierType, Threading!Workers
    <3> QED
      BY <3>1, ThreeThreads, SameCardinality
  <2>2. /\ s'.j = s.j /\ s'.serial = s.serial /\ s'.waiting = s.waiting /\ s'.numThreads = 3
    BY <1>0, <1>4, <2>1 DEF BarrierType
  <2>3. pc'["main"] = "join" /\ \A t \in T3 : pc'[t] = "sleep" /\ pc[t] = "absent"
    BY <1>0, <1>4 DEF BarrierType, BarrierPassed
  <2>4. BarrierType'
    BY <1>0, <1>4, <2>1 DEF BarrierType
  <2>5. BarrierPassed'
    BY <1>0, <2>2, <2>3 DEF BarrierType, BarrierPassed, Passed
  <2> QED
    BY <2>4, <2>5 DEF BarrierInv
<1>5. CASE Threading!Walk("main", "join", "exit") /\ \A t \in Threading!Workers : Threading!Gone(t)
  <2>1. /\ \A t \in T3 : pc[t] = "exit" /\ pc'[t] = "exit"
        /\ pc'["main"] = "exit"
    BY <1>0, <1>5 DEF BarrierType, BarrierPassed, Threading!Workers, Threading!Gone, Threading!Final
  <2>2. BarrierType'
    BY <1>0, <1>5 DEF BarrierType
  <2>3. BarrierPassed'
    BY <1>0, <1>5, <2>1 DEF BarrierType, BarrierPassed, Passed
  <2> QED
    BY <2>2, <2>3 DEF BarrierInv
<1>6. a = "main" \/ a \in T3
  BY <1>0 DEF BarrierType
<1> QED
  BY <1>0, <1>1, <1>2, <1>3, <1>4, <1>5, <1>6
     DEF Threading!pthread_barrier_demo, Threading!BarrierMain, Threading!BarrierThread

\* Threads that have passed equally many barriers are at most one loop apart
LEMMA BarrierInStep ==
  ASSUME BarrierInv
  PROVE  Threading!InStep
<1> SUFFICES ASSUME prog = "pthread_barrier_demo"
             PROVE  /\ \A t, u \in T3 : s.j[t] <= s.j[u] + 1
                    /\ \A t, u \in T3 : s.j[t] > s.j[u] => pc[u] = "passed"
                    /\ pc["main"] = "exit" =>
                         [i \in DOMAIN s.serial |-> s.serial[i][2]] = [i \in 1 .. Rounds |-> i - 1]
  <2>1. prog = "pthread_barrier_demo" => Threading!Workers = T3
    BY DEF BarrierInv, BarrierType, Threading!Workers, T3
  <2> QED
    BY <2>1 DEF Threading!InStep, Threading!Ended
<1>0. BarrierType /\ BarrierPassed
  BY DEF BarrierInv
<1>1. Len(s.serial) \in Nat /\ DOMAIN s.serial = 1..Len(s.serial) /\ s.j \in [T3 -> Nat]
  BY <1>0 DEF BarrierType
<1>2. /\ \A t, u \in T3 : s.j[t] <= s.j[u] + 1
      /\ \A t, u \in T3 : s.j[t] > s.j[u] => pc[u] = "passed"
  BY <1>0, <1>1 DEF BarrierPassed, Passed
<1>3. pc["main"] = "exit" => Len(s.serial) = Rounds
  BY <1>0, <1>1 DEF BarrierPassed, Passed, T3
<1> QED
  BY <1>0, <1>1, <1>2, <1>3 DEF BarrierPassed

-----------------------------------------------------------------------------
(* strerror with three kinds of buffers *)

\* the buffer that a gets
Addr(a) == CASE s.version = "static" -> <<"static">>
             [] s.version = "tls"    -> <<"tls", a>>
             [] s.version = "tsd"    -> <<"malloc", a>>

StrerrorType ==
  /\ pc \in [{"main", "t1"} -> {"call", "create", "join", "exit", "absent", "print"}]
  /\ s.version \in {"static", "tls", "tsd"}
  /\ s = [version |-> s.version, buf |-> s.buf, str |-> s.str, keys |-> s.keys,
          specific |-> s.specific, live |-> s.live, seen |-> s.seen]
  /\ DOMAIN s.str = {"main", "t1"} /\ DOMAIN s.specific = {"main", "t1"}

\* main joins the thread before it prints
StrerrorPlaces ==
  /\ pc["main"] \in {"call", "create", "join", "exit"} /\ pc["t1"] \in {"absent", "call", "print", "exit"}
  /\ pc["main"] \in {"call", "create"} <=> pc["t1"] = "absent"
  /\ pc["main"] = "exit" => pc["t1"] = "exit"

\* the buffer of a call holds its message as long as no other call has the same one
StrerrorBuffers ==
  /\ pc["main"] # "call" => s.str["main"] = Addr("main") /\ Addr("main") \in DOMAIN s.buf
  /\ pc["main"] # "call" /\ (s.version # "static" \/ pc["t1"] \in {"absent", "call"}) =>
       s.buf[Addr("main")] = "EINVAL"
  /\ pc["t1"] = "print" => s.str["t1"] = Addr("t1")
  /\ pc["t1"] \in {"print", "exit"} => s.buf[Addr("t1")] = "EPERM" /\ Addr("t1") \in DOMAIN s.buf
  /\ pc["t1"] = "exit" => "t1" \in DOMAIN s.seen /\ s.seen["t1"] = "EPERM"
  /\ pc["main"] = "exit" =>
       "main" \in DOMAIN s.seen /\ s.seen["main"] = IF s.version = "static" THEN "EPERM" ELSE "EINVAL"

\* what is allocated for a thread is freed at its end
StrerrorLive ==
  /\ pc["t1"] \in {"absent", "call"} => s.live \subseteq {<<"malloc", "main">>}
  /\ pc["t1"] = "absent" \/ pc["t1"] = "call" => s.specific["t1"] = <<"NULL">>
  /\ pc["t1"] = "print" => s.live \ {s.specific["t1"]} \subseteq {<<"malloc", "main">>}
  /\ pc["t1"] = "exit" => s.live \subseteq {<<"malloc", "main">>}

StrerrorInv == prog = "strerror_test" => StrerrorType /\ StrerrorPlaces /\ StrerrorBuffers /\ StrerrorLive

\* Initially no buffer exists
LEMMA StrerrorInit ==
  ASSUME Threading!StrerrorInit
  PROVE  StrerrorInv
<1>1. pc = [main |-> "call", t1 |-> "absent"]
  BY DEF Threading!StrerrorInit
<1>2. PICK v \in {"static", "tls", "tsd"} :
        s = [version |-> v, buf |-> << >>, str |-> [a \in {"main", "t1"} |-> <<"NULL">>],
             keys |-> 0, specific |-> [a \in {"main", "t1"} |-> <<"NULL">>], live |-> {}, seen |-> << >>]
  BY DEF Threading!StrerrorInit
<1>3. /\ pc \in [{"main", "t1"} -> {"call", "create", "join", "exit", "absent", "print"}]
      /\ pc["main"] = "call" /\ pc["t1"] = "absent"
  BY <1>1
<1>4. StrerrorType
  BY <1>2, <1>3 DEF StrerrorType
<1>5. StrerrorPlaces /\ StrerrorBuffers
  BY <1>3 DEF StrerrorPlaces, StrerrorBuffers
<1>6. StrerrorLive
  BY <1>2, <1>3 DEF StrerrorLive
<1> QED
  BY <1>4, <1>5, <1>6 DEF StrerrorInv

\* What a call of strerror does, whatever the version
LEMMA CallFacts ==
  ASSUME StrerrorType, NEW a \in {"main", "t1"}, NEW err, s' = Threading!Call(a, err)
  PROVE  /\ s'.version = s.version /\ s'.seen = s.seen
         /\ s'.buf = Threading!Put(s.buf, Addr(a), err) /\ s'.str = [s.str EXCEPT ![a] = Addr(a)]
         /\ s' = [version |-> s'.version, buf |-> s'.buf, str |-> s'.str, keys |-> s'.keys,
                  specific |-> s'.specific, live |-> s'.live, seen |-> s'.seen]
         /\ \/ s'.specific = s.specific /\ s'.live = s.live
            \/ /\ s.specific[a] = <<"NULL">> /\ s'.specific = [s.specific EXCEPT ![a] = <<"malloc", a>>]
               /\ s'.live = s.live \cup {<<"malloc", a>>}
<1> USE DEF Threading!Fill
<1>1. CASE s.version = "static"
  BY <1>1 DEF StrerrorType, Threading!Call, Threading!strerror, Addr
<1>2. CASE s.version = "tls"
  BY <1>2 DEF StrerrorType, Threading!Call, Threading!strerror_tls, Addr
<1>3. CASE s.version = "tsd" /\ s.specific[a] = <<"NULL">>
  BY <1>3 DEF StrerrorType, Threading!Call, Threading!strerror_tsd, Addr
<1>4. CASE s.version = "tsd" /\ s.specific[a] # <<"NULL">>
  BY <1>4 DEF StrerrorType, Threading!Call, Threading!strerror_tsd, Addr
<1> QED
  BY <1>1, <1>2, <1>3, <1>4 DEF StrerrorType

\* With a buffer per thread two calls get two buffers
LEMMA AddrsDiffer ==
  ASSUME s.version \in {"tls", "tsd"}
  PROVE  Addr("main") # Addr("t1")
  BY DEF Addr

\* Main calls strerror
LEMMA MainCallStep ==
  ASSUME prog = "strerror_test", prog' = prog, StrerrorInv,
         Threading!Do("main", "call", "create", Threading!Call("main", "EINVAL"))
  PROVE  StrerrorInv'
<1> USE DEF Threading!Do, Threading!Go
<1>0. StrerrorType /\ StrerrorPlaces /\ StrerrorBuffers /\ StrerrorLive
  BY DEF StrerrorInv
<1>1. /\ pc["main"] = "call" /\ pc'["main"] = "create" /\ pc["t1"] = "absent" /\ pc'["t1"] = "absent"
      /\ pc' \in [{"main", "t1"} -> {"call", "create", "join", "exit", "absent", "print"}]
  BY <1>0 DEF StrerrorType, StrerrorPlaces
<1> DEFINE addr == Addr("main")
<1>2. /\ s'.version = s.version /\ s'.seen = s.seen
      /\ s'.buf = Threading!Put(s.buf, addr, "EINVAL") /\ s'.str = [s.str EXCEPT !["main"] = addr]
      /\ s' = [version |-> s'.version, buf |-> s'.buf, str |-> s'.str, keys |-> s'.keys,
               specific |-> s'.specific, live |-> s'.live, seen |-> s'.seen]
      /\ \/ s'.specific = s.specific /\ s'.live = s.live
         \/ /\ s.specific["main"] = <<"NULL">>
            /\ s'.specific = [s.specific EXCEPT !["main"] = <<"malloc", "main">>]
            /\ s'.live = s.live \cup {<<"malloc", "main">>}
  BY <1>0, CallFacts
<1>3. addr \in DOMAIN s'.buf /\ s'.buf[addr] = "EINVAL" /\ s'.str["main"] = addr
  <2> HIDE DEF addr
  <2> QED
    BY <1>0, <1>2 DEF StrerrorType, Threading!Put
<1>4. Addr("main")' = addr
  BY <1>2 DEF Addr
<1>5. StrerrorType'
  <2> HIDE DEF addr
  <2> QED
    BY <1>0, <1>1, <1>2 DEF StrerrorType
<1>6. StrerrorPlaces'
  BY <1>1 DEF StrerrorPlaces
<1>7. StrerrorBuffers'
  BY <1>1, <1>3, <1>4 DEF StrerrorBuffers
<1>8. StrerrorLive'
  <2>1. s'.specific["t1"] = s.specific["t1"] /\ s'.live \subseteq s.live \cup {<<"malloc", "main">>}
    BY <1>0, <1>2 DEF StrerrorType
  <2> QED
    BY <1>0, <1>1, <2>1 DEF StrerrorLive
<1> QED
  BY <1>5, <1>6, <1>7, <1>8 DEF StrerrorInv

\* The thread calls it; main's message is overwritten with the static buffer only
LEMMA ThreadCallStep ==
  ASSUME prog = "strerror_test", prog' = prog, StrerrorInv,
         Threading!Do("t1", "call", "print", Threading!Call("t1", "EPERM"))
  PROVE  StrerrorInv'
<1> USE DEF Threading!Do, Threading!Go
<1>0. StrerrorType /\ StrerrorPlaces /\ StrerrorBuffers /\ StrerrorLive
  BY DEF StrerrorInv
<1>1. /\ pc["t1"] = "call" /\ pc'["t1"] = "print" /\ pc["main"] = "join" /\ pc'["main"] = "join"
      /\ pc' \in [{"main", "t1"} -> {"call", "create", "join", "exit", "absent", "print"}]
  BY <1>0 DEF StrerrorType, StrerrorPlaces
<1> DEFINE addr  == Addr("t1")
           other == Addr("main")
<1>2. /\ s'.version = s.version /\ s'.seen = s.seen
      /\ s'.buf = Threading!Put(s.buf, addr, "EPERM") /\ s'.str = [s.str EXCEPT !["t1"] = addr]
      /\ s' = [version |-> s'.version, buf |-> s'.buf, str |-> s'.str, keys |-> s'.keys,
               specific |-> s'.specific, live |-> s'.live, seen |-> s'.seen]
      /\ \/ s'.specific = s.specific /\ s'.live = s.live
         \/ /\ s.specific["t1"] = <<"NULL">>
            /\ s'.specific = [s.specific EXCEPT !["t1"] = <<"malloc", "t1">>]
            /\ s'.live = s.live \cup {<<"malloc", "t1">>}
  BY <1>0, CallFacts
<1>3. /\ addr \in DOMAIN s'.buf /\ s'.buf[addr] = "EPERM" /\ s'.str["t1"] = addr
      /\ s'.str["main"] = s.str["main"]
      /\ other \in DOMAIN s.buf => other \in DOMAIN s'.buf
      /\ other # addr /\ other \in DOMAIN s.buf => s'.buf[other] = s.buf[other]
  <2> HIDE DEF addr, other
  <2> QED
    BY <1>0, <1>2 DEF StrerrorType, Threading!Put
<1>4. Addr("t1")' = addr /\ Addr("main")' = other
  BY <1>2 DEF Addr
<1>5. s.version # "static" => other # addr
  BY <1>0, AddrsDiffer DEF StrerrorType
<1>6. /\ s.str["main"] = other /\ other \in DOMAIN s.buf
      /\ s.version # "static" => s.buf[other] = "EINVAL"
  BY <1>0, <1>1 DEF StrerrorBuffers
<1>7. StrerrorType'
  <2> HIDE DEF addr, other
  <2> QED
    BY <1>0, <1>1, <1>2 DEF StrerrorType
<1>8. StrerrorPlaces'
  BY <1>1 DEF StrerrorPlaces
<1>9. StrerrorBuffers'
  <2> HIDE DEF addr, other
  <2> QED
    BY <1>1, <1>2, <1>3, <1>4, <1>5, <1>6 DEF StrerrorBuffers
<1>10. StrerrorLive'
  <2>1. s.live \subseteq {<<"malloc", "main">>}
    BY <1>0, <1>1 DEF StrerrorLive
  <2>2. s'.live \ {s'.specific["t1"]} \subseteq {<<"malloc", "main">>}
    BY <1>0, <1>2, <2>1 DEF StrerrorType
  <2> QED
    BY <1>1, <2>2 DEF StrerrorLive
<1> QED
  BY <1>7, <1>8, <1>9, <1>10 DEF StrerrorInv

\* The thread prints its string and ends: its buffer is freed
LEMMA ThreadPrintStep ==
  ASSUME prog = "strerror_test", prog' = prog, StrerrorInv,
         Threading!Do("t1", "print", "exit",
           Threading!destructor("t1", [s EXCEPT !.seen = Threading!Put(@, "t1", s.buf[s.str["t1"]])]))
  PROVE  StrerrorInv'
<1> USE DEF Threading!Do, Threading!Go
<1>0. StrerrorType /\ StrerrorPlaces /\ StrerrorBuffers /\ StrerrorLive
  BY DEF StrerrorInv
<1>1. /\ pc["t1"] = "print" /\ pc'["t1"] = "exit" /\ pc["main"] = "join" /\ pc'["main"] = "join"
      /\ pc' \in [{"main", "t1"} -> {"call", "create", "join", "exit", "absent", "print"}]
  BY <1>0 DEF StrerrorType, StrerrorPlaces
<1>2. s.buf[s.str["t1"]] = "EPERM"
  BY <1>0, <1>1 DEF StrerrorBuffers
<1>3. /\ s'.version = s.version /\ s'.seen = Threading!Put(s.seen, "t1", "EPERM")
      /\ s'.buf = s.buf /\ s'.str = s.str /\ s'.live = s.live \ {s.specific["t1"]}
      /\ s'.specific = [s.specific EXCEPT !["t1"] = <<"NULL">>]
      /\ s' = [version |-> s'.version, buf |-> s'.buf, str |-> s'.str, keys |-> s'.keys,
               specific |-> s'.specific, live |-> s'.live, seen |-> s'.seen]
  BY <1>0, <1>2 DEF StrerrorType, Threading!destructor
<1>4. "t1" \in DOMAIN s'.seen /\ s'.seen["t1"] = "EPERM"
  BY <1>3 DEF Threading!Put
<1>5. Addr("t1")' = Addr("t1") /\ Addr("main")' = Addr("main")
  BY <1>3 DEF Addr
<1>6. StrerrorType'
  BY <1>0, <1>1, <1>3 DEF StrerrorType
<1>7. StrerrorPlaces'
  BY <1>1 DEF StrerrorPlaces
<1>8. StrerrorBuffers'
  BY <1>0, <1>1, <1>3, <1>4, <1>5 DEF StrerrorBuffers
<1>9. StrerrorLive'
  BY <1>0, <1>1, <1>3 DEF StrerrorLive
<1> QED
  BY <1>6, <1>7, <1>8, <1>9 DEF StrerrorInv

\* Main creates the thread
LEMMA MainCreateStep ==
  ASSUME prog = "strerror_test", prog' = prog, StrerrorInv,
         pc["main"] = "create", UNCHANGED s, pc' = [main |-> "join", t1 |-> "call"]
  PROVE  StrerrorInv'
<1>0. StrerrorType /\ StrerrorPlaces /\ StrerrorBuffers /\ StrerrorLive
  BY DEF StrerrorInv
<1>1. /\ pc["t1"] = "absent" /\ pc'["t1"] = "call" /\ pc'["main"] = "join"
      /\ pc' \in [{"main", "t1"} -> {"call", "create", "join", "exit", "absent", "print"}]
  BY <1>0 DEF StrerrorType, StrerrorPlaces
<1>2. Addr("t1")' = Addr("t1") /\ Addr("main")' = Addr("main")
  BY DEF Addr
<1>3. StrerrorType'
  BY <1>0, <1>1 DEF StrerrorType
<1>4. StrerrorPlaces' /\ StrerrorLive'
  BY <1>0, <1>1 DEF StrerrorPlaces, StrerrorLive
<1>5. StrerrorBuffers'
  BY <1>0, <1>1, <1>2 DEF StrerrorBuffers
<1> QED
  BY <1>3, <1>4, <1>5 DEF StrerrorInv

\* Main prints its string after the join
LEMMA MainPrintStep ==
  ASSUME prog = "strerror_test", prog' = prog, StrerrorInv, Threading!Gone("t1"),
         Threading!Do("main", "join", "exit",
           [s EXCEPT !.seen = Threading!Put(@, "main", s.buf[s.str["main"]])])
  PROVE  StrerrorInv'
<1> USE DEF Threading!Do, Threading!Go
<1>0. StrerrorType /\ StrerrorPlaces /\ StrerrorBuffers /\ StrerrorLive
  BY DEF StrerrorInv
<1>1. /\ pc["t1"] = "exit" /\ pc'["t1"] = "exit" /\ pc["main"] = "join" /\ pc'["main"] = "exit"
      /\ pc' \in [{"main", "t1"} -> {"call", "create", "join", "exit", "absent", "print"}]
  BY <1>0 DEF StrerrorType, StrerrorPlaces, Threading!Gone, Threading!Final
<1>2. s.buf[s.str["main"]] = IF s.version = "static" THEN "EPERM" ELSE "EINVAL"
  <2>1. s.version = "static" => Addr("main") = Addr("t1")
    BY DEF Addr
  <2> QED
    BY <1>0, <1>1, <2>1 DEF StrerrorBuffers
<1> DEFINE read == s.buf[s.str["main"]]
<1>3. /\ s'.version = s.version /\ s'.seen = Threading!Put(s.seen, "main", read)
      /\ s'.buf = s.buf /\ s'.str = s.str /\ s'.live = s.live /\ s'.specific = s.specific
      /\ s' = [version |-> s'.version, buf |-> s'.buf, str |-> s'.str, keys |-> s'.keys,
               specific |-> s'.specific, live |-> s'.live, seen |-> s'.seen]
  BY <1>0 DEF StrerrorType
<1>4. /\ "main" \in DOMAIN s'.seen /\ s'.seen["main"] = read
      /\ "t1" \in DOMAIN s'.seen /\ s'.seen["t1"] = "EPERM"
  <2>1. "t1" \in DOMAIN s.seen /\ s.seen["t1"] = "EPERM"
    BY <1>0, <1>1 DEF StrerrorBuffers
  <2> HIDE DEF read
  <2> QED
    BY <1>3, <2>1 DEF Threading!Put
<1>5. Addr("t1")' = Addr("t1") /\ Addr("main")' = Addr("main")
  BY <1>3 DEF Addr
<1>6. StrerrorType'
  BY <1>0, <1>1, <1>3 DEF StrerrorType
<1>7. StrerrorPlaces' /\ StrerrorLive'
  BY <1>0, <1>1, <1>3 DEF StrerrorPlaces, StrerrorLive
<1>8. StrerrorBuffers'
  BY <1>0, <1>1, <1>2, <1>3, <1>4, <1>5 DEF StrerrorBuffers
<1> QED
  BY <1>6, <1>7, <1>8 DEF StrerrorInv

\* Every step of strerror_test
LEMMA StrerrorStep ==
  ASSUME prog = "strerror_test", prog' = prog, StrerrorInv, NEW a \in DOMAIN pc, Threading!Step(a)
  PROVE  StrerrorInv'
<1>1. Threading!strerror_test(a)
  BY StepOfProgram
<1> QED
  BY <1>1, MainCallStep, ThreadCallStep, ThreadPrintStep, MainCreateStep, MainPrintStep
     DEF Threading!strerror_test

\* The strings seen are the ones promised
LEMMA StrerrorKept ==
  ASSUME StrerrorInv
  PROVE  Threading!StringKept
  BY DEF StrerrorInv, StrerrorPlaces, StrerrorBuffers, StrerrorLive, Threading!StringKept, Threading!Ended

-----------------------------------------------------------------------------
(* All programs of threads/ *)

ThreadsInv == IncrInv /\ ProdInv /\ OnceInv /\ CleanupInv /\ BarrierInv /\ StrerrorInv

\* Every program of threads/ starts in its invariant
LEMMA ThreadsInvInit ==
  ASSUME Threading!Init
  PROVE  ThreadsInv
<1> USE DEF ThreadsInv, IncrInv, ProdInv, OnceInv, CleanupInv, BarrierInv, StrerrorInv,
            ProdProgs, Threading!IncrProgs
<1>2. CASE Threading!IncrInit
  BY <1>2, IncrInit DEF Threading!IncrInit
<1>3. CASE Threading!ProdInit
  BY <1>3, ProdInit DEF Threading!ProdInit
<1>4. CASE Threading!OnceInit
  BY <1>4, OnceInit DEF Threading!OnceInit
<1>5. CASE Threading!CancelInit
  BY <1>5, CleanupInit DEF Threading!CancelInit
<1>6. CASE Threading!BarrierInit
  BY <1>6, BarrierInit DEF Threading!BarrierInit
<1>7. CASE Threading!StrerrorInit
  BY <1>7, StrerrorInit DEF Threading!StrerrorInit
<1> QED
  BY <1>2, <1>3, <1>4, <1>5, <1>6, <1>7 DEF Threading!Init

\* And keeps it, whichever program it is
LEMMA ThreadsInvStep ==
  ASSUME ThreadsInv, prog' = prog, (\E a \in DOMAIN pc : Threading!Step(a)) \/ Threading!Env
  PROVE  ThreadsInv'
<1>1. Threading!Env => prog \in ProdProgs
  BY DEF Threading!Env, Threading!SpuriousWakeup, ProdProgs
<1>2. prog \in ProdProgs => ProdInv'
  BY ProdStep DEF ThreadsInv
<1>3. prog \in Threading!IncrProgs => IncrInv'
  BY <1>1, IncrStep DEF ThreadsInv, ProdProgs, Threading!IncrProgs
<1>4. prog = "one_time_init" => OnceInv'
  BY <1>1, OnceStep DEF ThreadsInv, ProdProgs
<1>5. prog = "thread_cleanup" => CleanupInv'
  BY <1>1, CleanupStep DEF ThreadsInv, ProdProgs
<1>6. prog = "pthread_barrier_demo" => BarrierInv'
  BY <1>1, BarrierStep DEF ThreadsInv, ProdProgs
<1>7. prog = "strerror_test" => StrerrorInv'
  BY <1>1, StrerrorStep DEF ThreadsInv, ProdProgs
<1>8. /\ prog \notin Threading!IncrProgs => IncrInv'
      /\ prog \notin ProdProgs => ProdInv'
      /\ prog # "one_time_init" => OnceInv'
      /\ prog # "thread_cleanup" => CleanupInv'
      /\ prog # "pthread_barrier_demo" => BarrierInv'
      /\ prog # "strerror_test" => StrerrorInv'
  BY DEF IncrInv, ProdInv, OnceInv, CleanupInv, BarrierInv, StrerrorInv, ProdProgs, Threading!IncrProgs
<1> QED
  BY <1>2, <1>3, <1>4, <1>5, <1>6, <1>7, <1>8 DEF ThreadsInv

\* A step that changes nothing keeps it
LEMMA ThreadsInvStutter ==
  ASSUME ThreadsInv, UNCHANGED vars
  PROVE  ThreadsInv'
<1>1. prog' = prog /\ pc' = pc /\ s' = s
  BY DEF vars
<1>2. HeldIn(s)' <=> HeldIn(s)
  BY <1>1 DEF HeldIn
<1>3. Addr("main")' = Addr("main") /\ Addr("t1")' = Addr("t1")
  BY <1>1 DEF Addr
<1>4. IncrInv => IncrInv'
  BY <1>1, <1>2 DEF IncrInv, IncrType, IncrState, IncrPlaces, Exclusive, LockedSum, SpeedSum, RacySum,
     InCs, Writes, Threading!IncrProgs
<1>5. /\ ProdInv => ProdInv'
      /\ OnceInv => OnceInv'
      /\ CleanupInv => CleanupInv'
  BY <1>1 DEF ProdInv, ProdType, ProdState, ProdUnits, ProdProgs, OnceInv, OnceType, OnceState,
     OnceDone, CleanupInv, CleanupType, CleanupState, CleanupPlaces, CleanupHeld
<1>6. BarrierInv => BarrierInv'
  BY <1>1 DEF BarrierInv, BarrierType, BarrierPassed, Passed
<1>7. StrerrorInv => StrerrorInv'
  BY <1>1, <1>3 DEF StrerrorInv, StrerrorType, StrerrorPlaces, StrerrorBuffers, StrerrorLive
<1> QED
  BY <1>4, <1>5, <1>6, <1>7 DEF ThreadsInv

\* And with it what the program promises
LEMMA ThreadsInvSafe ==
  ASSUME ThreadsInv, prog \in Threading!Programs
  PROVE  Threading!Safe
  BY IncrCounted, ProdConsumed, OnceInitialised, CleanupDone, BarrierInStep, StrerrorKept
     DEF ThreadsInv, Threading!Safe

-----------------------------------------------------------------------------
(* Which program, which step *)

\* Processes has its own copy of FiniteSets
LEMMA ProcsCardinality == \A S : Procs!Cardinality(S) = Cardinality(S)
  BY DEF Procs!Cardinality, Cardinality

\* the step of a program is the one of its name
LEMMA StepOfProcess ==
  ASSUME NEW a, Procs!Step(a), prog \in Procs!Programs
  PROVE  /\ prog = "multi_SIGCHLD" => Procs!multi_SIGCHLD(a)
         /\ prog = "multi_wait" => Procs!multi_wait(a)
         /\ prog = "system" => Procs!system(a) \/ Procs!t_system(a)
         /\ prog = "simple_system" => Procs!simple_system(a) \/ Procs!t_system(a)
         /\ prog = "fork_sig_sync" => Procs!fork_sig_sync(a)
         /\ prog = "demo_clone" => Procs!demo_clone(a)
         /\ prog = "t_clone" => Procs!t_clone(a)
         /\ prog = "fork_file_sharing" => Procs!fork_file_sharing(a)
         /\ prog = "child_status" => Procs!child_status(a)
         /\ prog = "make_zombie" => Procs!make_zombie(a)
         /\ prog = "orphan" => Procs!orphan(a)
         /\ prog = "fork_whos_on_first" => Procs!fork_whos_on_first(a)
         /\ prog = "footprint" => Procs!footprint(a)
         /\ prog = "t_fork" => Procs!t_fork(a)
         /\ prog = "t_vfork" => Procs!t_vfork(a)
         /\ prog = "vfork_fd_test" => Procs!vfork_fd_test(a)
         /\ prog = "fork_stdio_buf" => Procs!fork_stdio_buf(a)
         /\ prog = "pdeath_signal" => Procs!pdeath_signal(a)
         /\ prog \in {"execlp", "print_wait_status", "exit_handlers"} => Procs!Functions(a)
<1> USE DEF Procs!multi_SIGCHLD, Procs!multi_wait, Procs!system, Procs!simple_system, Procs!t_system,
     Procs!fork_sig_sync, Procs!demo_clone, Procs!t_clone, Procs!fork_file_sharing, Procs!child_status,
     Procs!make_zombie, Procs!orphan, Procs!fork_whos_on_first, Procs!footprint, Procs!t_fork, Procs!t_vfork,
     Procs!vfork_fd_test, Procs!fork_stdio_buf, Procs!pdeath_signal
<1>1. Procs!Functions(a) => prog \in {"execlp", "print_wait_status", "exit_handlers"}
  BY DEF Procs!Functions
<1> QED
  BY <1>1 DEF Procs!Step

-----------------------------------------------------------------------------
(* multi_SIGCHLD.c, multi_wait.c *)

\* the children that have ended
EndedKids == {k \in Kids : pc[k] = "exit"}

MultiType ==
  /\ pc \in [{"p"} \union Kids -> {"start", "while", "wait", "handler", "sleep", "exit", "absent"}]
  /\ \A k \in Kids : pc[k] \in {"absent", "sleep", "exit"}
  /\ pc["p"] \notin {"absent", "start"} => \A k \in Kids : pc[k] # "absent"
  /\ s.reaped \subseteq EndedKids

\* Every run of the handler is for a child that has ended since the last one: the signal
\* was pending then, and is not when the handler has taken it
SigCounted ==
  s.sigCnt + (IF s.pending THEN 1 ELSE 0) + (IF pc["p"] \in {"handler", "sleep"} THEN 1 ELSE 0)
    <= Cardinality(EndedKids)

SigchldInv ==
  prog = "multi_SIGCHLD" =>
    /\ MultiType
    /\ s \in [reaped : SUBSET Kids, numLiveChildren : Int, pending : BOOLEAN, sigCnt : Nat]
    /\ s.numLiveChildren = Cardinality(Kids) - Cardinality(s.reaped)
    /\ pc["p"] = "exit" => s.numLiveChildren = 0
    /\ s.reaped # {} /\ pc["p"] \notin {"handler", "sleep"} => s.sigCnt > 0
    /\ SigCounted

WaitInv ==
  prog = "multi_wait" =>
    /\ MultiType
    /\ s \in [reaped : SUBSET Kids, numDead : Int]
    /\ s.numDead = Cardinality(s.reaped)
    /\ pc["p"] = "exit" => s.reaped = Kids

\* Ended and collected children are finite sets, and no more than there are children
LEMMA EndedFinite ==
  ASSUME NEW S, S \subseteq Kids
  PROVE  /\ IsFiniteSet(S) /\ Cardinality(S) \in Nat /\ Cardinality(S) <= Cardinality(Kids)
         /\ Cardinality(Kids) \in Nat \ {0}
         /\ Cardinality(S) = Cardinality(Kids) <=> S = Kids
  BY ProcessesAssumption, FS_Subset, FS_CardinalityType, FS_EmptySet

LEMMA MultiInit ==
  ASSUME Procs!MultiInit
  PROVE  SigchldInv /\ WaitInv
<1> USE ProcessesAssumption DEF Procs!MultiInit, Procs!Start, Procs!Family
<1>1. Cardinality({}) = 0 /\ Cardinality(EndedKids) \in Nat
  <2>1. EndedKids \subseteq Kids
    BY DEF EndedKids
  <2> QED
    BY <2>1, FS_EmptySet, EndedFinite
<1>2. /\ pc = [a \in {"p"} \union Kids |-> IF a = "p" THEN "start" ELSE "absent"]
      /\ s.reaped = {}
  <2>1. CASE prog = "multi_SIGCHLD"
    <3> DEFINE n == Procs!Cardinality(Kids)
    <3>1. /\ pc = [a \in {"p"} \union Kids |-> IF a = "p" THEN "start" ELSE "absent"]
          /\ s = [reaped |-> {}, numLiveChildren |-> n, pending |-> FALSE, sigCnt |-> 0]
      BY <2>1
    <3> HIDE DEF n
    <3> QED
      BY ONLY <3>1
  <2>2. CASE prog = "multi_wait"
    BY <2>2
  <2> QED
    BY <2>1, <2>2
<1>3. MultiType
  BY <1>2 DEF MultiType, EndedKids
<1>4. SigchldInv
  <2> SUFFICES ASSUME prog = "multi_SIGCHLD"
               PROVE  SigchldInv
    BY DEF SigchldInv
  <2>1. s = [reaped |-> {}, numLiveChildren |-> Cardinality(Kids), pending |-> FALSE, sigCnt |-> 0]
    BY ProcsCardinality
  <2>2. Cardinality(Kids) \in Nat
    BY EndedFinite
  <2> QED
    BY <1>1, <1>2, <1>3, <2>1, <2>2 DEF SigchldInv, SigCounted
<1>5. WaitInv
  BY <1>1, <1>2, <1>3 DEF WaitInv
<1> QED
  BY <1>4, <1>5

\* Collecting one more child
LEMMA Collected ==
  ASSUME MultiType, pc["p"] # "absent", NEW c \in Procs!Zombies
  PROVE  /\ c \in EndedKids /\ c \notin s.reaped
         /\ Cardinality(s.reaped \union {c}) = Cardinality(s.reaped) + 1
<1>1. c \in EndedKids /\ c \notin s.reaped
  BY DEF MultiType, EndedKids, Procs!Zombies, Procs!Children, Procs!Dead, Procs!Gone, Procs!Final
<1>2. IsFiniteSet(s.reaped)
  BY EndedFinite DEF MultiType, EndedKids
<1> QED
  BY <1>1, <1>2, FS_AddElement

LEMMA SigchldStep ==
  ASSUME SigchldInv, prog = "multi_SIGCHLD", prog' = prog, NEW a \in DOMAIN pc, Procs!multi_SIGCHLD(a)
  PROVE  SigchldInv'
<1> USE ProcessesAssumption DEF Procs!Go, Procs!Walk, Procs!Do, Procs!Fork
<1>0. /\ MultiType
      /\ s \in [reaped : SUBSET Kids, numLiveChildren : Int, pending : BOOLEAN, sigCnt : Nat]
      /\ s.numLiveChildren = Cardinality(Kids) - Cardinality(s.reaped)
      /\ Cardinality(Kids) \in Nat \ {0} /\ Cardinality(s.reaped) \in Nat /\ Cardinality(EndedKids) \in Nat
      /\ DOMAIN pc = {"p"} \union Kids /\ Procs!Children = Kids
  BY EndedFinite DEF SigchldInv, EndedKids, MultiType, Procs!Children
<1>1. CASE a # "p"
  <2>1. a \in Kids /\ pc[a] = "sleep" /\ pc' = [pc EXCEPT ![a] = "exit"] /\ s' = [s EXCEPT !.pending = TRUE]
    BY <1>0, <1>1 DEF Procs!multi_SIGCHLD
  <2>2. EndedKids' = EndedKids \union {a} /\ a \notin EndedKids
    BY <1>0, <2>1 DEF EndedKids, MultiType
  <2>3. Cardinality(EndedKids') = Cardinality(EndedKids) + 1
    <3>1. IsFiniteSet(EndedKids)
      BY EndedFinite DEF EndedKids
    <3> QED
      BY <2>2, <3>1, FS_AddElement
  <2>4. MultiType'
    BY <1>0, <2>1, <2>2 DEF MultiType
  <2>5. SigCounted'
    BY <1>0, <2>1, <2>3 DEF SigchldInv, SigCounted, MultiType
  <2> QED
    BY <1>0, <2>1, <2>4, <2>5 DEF SigchldInv, MultiType
<1>2. CASE a = "p"
  <2>1. CASE \E c \in Procs!Children : Procs!Fork("p", "start", "start", c, "sleep") /\ UNCHANGED s
    <3>1. PICK c \in Kids : pc["p"] = "start" /\ pc[c] = "absent" /\ pc' = [pc EXCEPT !["p"] = "start", ![c] = "sleep"] /\ s' = s
      BY <1>0, <2>1
    <3>2. EndedKids' = EndedKids
      BY <1>0, <3>1 DEF EndedKids, MultiType
    <3>3. MultiType'
      BY <1>0, <3>1, <3>2 DEF MultiType
    <3> QED
      BY <1>0, <3>1, <3>2, <3>3 DEF SigchldInv, SigCounted, MultiType
  <2>2. CASE Procs!Walk("p", "start", "while") /\ \A c \in Procs!Children : pc[c] # "absent"
    <3>1. EndedKids' = EndedKids
      BY <1>0, <2>2 DEF EndedKids, MultiType
    <3>2. MultiType'
      BY <1>0, <2>2, <3>1 DEF MultiType
    <3> QED
      BY <1>0, <2>2, <3>1, <3>2 DEF SigchldInv, SigCounted, MultiType
  <2>3. CASE Procs!Do("p", "while", "handler", [s EXCEPT !.pending = FALSE]) /\ s.numLiveChildren > 0 /\ s.pending
    <3>1. EndedKids' = EndedKids
      BY <1>0, <2>3 DEF EndedKids, MultiType
    <3>2. MultiType'
      BY <1>0, <2>3, <3>1 DEF MultiType
    <3>3. s' \in [reaped : SUBSET Kids, numLiveChildren : Int, pending : BOOLEAN, sigCnt : Nat]
      BY <1>0, <2>3
    <3>4. /\ s'.reaped = s.reaped /\ s'.numLiveChildren = s.numLiveChildren /\ ~s'.pending /\ s'.sigCnt = s.sigCnt
          /\ pc["p"] = "while" /\ pc'["p"] = "handler"
      BY <1>0, <2>3 DEF MultiType
    <3>5. SigCounted'
      BY <1>0, <2>3, <3>1, <3>4 DEF SigchldInv, SigCounted
    <3> QED
      BY <1>0, <3>2, <3>3, <3>4, <3>5 DEF SigchldInv
  <2>4. CASE \E c \in Procs!Zombies :
               Procs!Do("p", "handler", "handler", [Procs!Reaped(c) EXCEPT !.numLiveChildren = @ - 1])
    <3>1. PICK c \in Procs!Zombies :
            Procs!Do("p", "handler", "handler", [Procs!Reaped(c) EXCEPT !.numLiveChildren = @ - 1])
      BY <2>4
    <3>2. /\ c \in EndedKids /\ c \notin s.reaped
          /\ Cardinality(s.reaped \union {c}) = Cardinality(s.reaped) + 1
      BY <1>0, <3>1, Collected DEF MultiType
    <3> DEFINE R == s.reaped \union {c}
    <3>6. R \in SUBSET Kids
      BY <1>0, <3>2 DEF EndedKids
    <3> HIDE DEF R
    <3>3. pc' = pc /\ s' = [reaped |-> R, numLiveChildren |-> s.numLiveChildren - 1, pending |-> s.pending, sigCnt |-> s.sigCnt] /\ pc["p"] = "handler"
      BY <1>0, <3>1 DEF MultiType, Procs!Reaped, R
    <3>4. EndedKids' = EndedKids
      BY <3>3 DEF EndedKids
    <3>5. MultiType'
      BY <1>0, <3>2, <3>3, <3>4 DEF MultiType, R
    <3>8. s' \in [reaped : SUBSET Kids, numLiveChildren : Int, pending : BOOLEAN, sigCnt : Nat]
      BY <1>0, <3>3, <3>6
    <3>7. /\ s'.reaped = R /\ s'.numLiveChildren = s.numLiveChildren - 1
          /\ s'.pending = s.pending /\ s'.sigCnt = s.sigCnt
      BY <1>0, <3>3
    <3> QED
      BY <1>0, <3>2, <3>3, <3>4, <3>5, <3>7, <3>8 DEF SigchldInv, SigCounted, R
  <2>5. CASE Procs!Walk("p", "handler", "sleep")
    <3>1. EndedKids' = EndedKids
      BY <1>0, <2>5 DEF EndedKids, MultiType
    <3>2. MultiType'
      BY <1>0, <2>5, <3>1 DEF MultiType
    <3> QED
      BY <1>0, <2>5, <3>1, <3>2 DEF SigchldInv, SigCounted, MultiType
  <2>6. CASE Procs!Do("p", "sleep", "while", [s EXCEPT !.sigCnt = @ + 1])
    <3>1. EndedKids' = EndedKids
      BY <1>0, <2>6 DEF EndedKids, MultiType
    <3>2. MultiType'
      BY <1>0, <2>6, <3>1 DEF MultiType
    <3> QED
      BY <1>0, <2>6, <3>1, <3>2 DEF SigchldInv, SigCounted, MultiType
  <2>7. CASE Procs!Walk("p", "while", "exit") /\ s.numLiveChildren = 0
    <3>1. EndedKids' = EndedKids
      BY <1>0, <2>7 DEF EndedKids, MultiType
    <3>2. MultiType'
      BY <1>0, <2>7, <3>1 DEF MultiType
    <3> QED
      BY <1>0, <2>7, <3>1, <3>2 DEF SigchldInv, SigCounted, MultiType
  <2> QED
    BY <1>2, <2>1, <2>2, <2>3, <2>4, <2>5, <2>6, <2>7 DEF Procs!multi_SIGCHLD, Procs!ForkAll, Procs!sigchldHandler
<1> QED
  BY <1>1, <1>2

LEMMA WaitStep ==
  ASSUME WaitInv, prog = "multi_wait", prog' = prog, NEW a \in DOMAIN pc, Procs!multi_wait(a)
  PROVE  WaitInv'
<1> USE ProcessesAssumption DEF Procs!Go, Procs!Walk, Procs!Do, Procs!Fork
<1>0. /\ MultiType
      /\ s \in [reaped : SUBSET Kids, numDead : Int]
      /\ s.numDead = Cardinality(s.reaped) /\ Cardinality(s.reaped) \in Nat
      /\ DOMAIN pc = {"p"} \union Kids /\ Procs!Children = Kids
  BY EndedFinite DEF WaitInv, EndedKids, MultiType, Procs!Children
<1>1. CASE a # "p"
  <2>1. a \in Kids /\ pc[a] = "sleep" /\ pc' = [pc EXCEPT ![a] = "exit"] /\ s' = s
    BY <1>0, <1>1 DEF Procs!multi_wait
  <2>2. EndedKids' = EndedKids \union {a}
    BY <1>0, <2>1 DEF EndedKids, MultiType
  <2>3. MultiType'
    BY <1>0, <2>1, <2>2 DEF MultiType
  <2> QED
    BY <1>0, <2>1, <2>3 DEF WaitInv, MultiType
<1>2. CASE a = "p"
  <2>1. CASE \E c \in Procs!Children : Procs!Fork("p", "start", "start", c, "sleep") /\ UNCHANGED s
    <3>1. PICK c \in Kids : pc["p"] = "start" /\ pc[c] = "absent" /\ pc' = [pc EXCEPT !["p"] = "start", ![c] = "sleep"] /\ s' = s
      BY <1>0, <2>1
    <3>2. EndedKids' = EndedKids
      BY <1>0, <3>1 DEF EndedKids, MultiType
    <3>3. MultiType'
      BY <1>0, <3>1, <3>2 DEF MultiType
    <3> QED
      BY <1>0, <3>1, <3>3 DEF WaitInv, MultiType
  <2>2. CASE Procs!Walk("p", "start", "wait") /\ \A c \in Procs!Children : pc[c] # "absent"
    <3>1. EndedKids' = EndedKids
      BY <1>0, <2>2 DEF EndedKids, MultiType
    <3>2. MultiType'
      BY <1>0, <2>2, <3>1 DEF MultiType
    <3> QED
      BY <1>0, <2>2, <3>2 DEF WaitInv, MultiType
  <2>3. CASE \E c \in Procs!Zombies : Procs!Do("p", "wait", "wait", [Procs!Reaped(c) EXCEPT !.numDead = @ + 1])
    <3>1. PICK c \in Procs!Zombies : Procs!Do("p", "wait", "wait", [Procs!Reaped(c) EXCEPT !.numDead = @ + 1])
      BY <2>3
    <3>2. /\ c \in EndedKids /\ c \notin s.reaped
          /\ Cardinality(s.reaped \union {c}) = Cardinality(s.reaped) + 1
      BY <1>0, <3>1, Collected DEF MultiType
    <3> DEFINE R == s.reaped \union {c}
    <3>6. R \in SUBSET Kids
      BY <1>0, <3>2 DEF EndedKids
    <3> HIDE DEF R
    <3>3. pc' = pc /\ s' = [reaped |-> R, numDead |-> s.numDead + 1] /\ pc["p"] = "wait"
      BY <1>0, <3>1 DEF MultiType, Procs!Reaped, R
    <3>4. EndedKids' = EndedKids
      BY <3>3 DEF EndedKids
    <3>5. MultiType'
      BY <1>0, <3>2, <3>3, <3>4 DEF MultiType, R
    <3>7. s' \in [reaped : SUBSET Kids, numDead : Int] /\ s'.reaped = R /\ s'.numDead = s.numDead + 1
      BY <1>0, <3>3, <3>6
    <3> QED
      BY <1>0, <3>2, <3>3, <3>5, <3>7 DEF WaitInv, R
  <2>4. CASE Procs!Walk("p", "wait", "exit") /\ s.reaped = Procs!Children
    <3>1. EndedKids' = EndedKids
      BY <1>0, <2>4 DEF EndedKids, MultiType
    <3>2. MultiType'
      BY <1>0, <2>4, <3>1 DEF MultiType
    <3> QED
      BY <1>0, <2>4, <3>2 DEF WaitInv, MultiType
  <2> QED
    BY <1>2, <2>1, <2>2, <2>3, <2>4 DEF Procs!multi_wait, Procs!ForkAll
<1> QED
  BY <1>1, <1>2

\* Every child is counted off once, none is left behind, and no more signals are counted than children
LEMMA MultiCollected ==
  ASSUME SigchldInv, WaitInv
  PROVE  /\ prog = "multi_SIGCHLD" =>
              /\ s.numLiveChildren = Procs!Cardinality(Kids) - Procs!Cardinality(s.reaped)
              /\ Procs!Ended => s.numLiveChildren = 0 /\ s.sigCnt \in 1 .. Procs!Cardinality(Kids)
         /\ prog = "multi_wait" => s.numDead = Procs!Cardinality(s.reaped)
                                   /\ (Procs!Ended => s.numDead = Procs!Cardinality(Kids))
<1>1. CASE prog = "multi_SIGCHLD"
  <2>1. /\ s.sigCnt \in Nat /\ s.reaped \subseteq Kids /\ EndedKids \subseteq Kids
        /\ s.numLiveChildren = Cardinality(Kids) - Cardinality(s.reaped)
        /\ s.sigCnt <= Cardinality(EndedKids)
    BY <1>1, EndedFinite DEF SigchldInv, SigCounted, EndedKids
  <2>2. CASE pc["p"] = "exit"
    <3>1. s.reaped # {}
      BY <1>1, <2>1, <2>2, EndedFinite, ProcessesAssumption DEF SigchldInv
    <3> QED
      BY <1>1, <2>1, <2>2, <3>1, EndedFinite, ProcsCardinality DEF SigchldInv
  <2> QED
    BY <1>1, <2>1, <2>2, ProcsCardinality DEF Procs!Ended
<1> QED
  BY <1>1, ProcsCardinality DEF WaitInv, Procs!Ended

-----------------------------------------------------------------------------
(* system.c, simple_system.c under t_system.c *)

Disp == [INT : Procs!Disps, QUIT : Procs!Disps, blocked : BOOLEAN]
Ends == {"none", "0", "127", "signal", "other", "-1"}

SysPlaces == {"command", "block", "ignoreInt", "ignoreQuit", "fork", "wait", "eintr", "unblock", "restInt", "restQuit", "returned",
              "exit", "killed", "absent", "setInt", "setQuit", "setMask", "execl", "run"}

SysType ==
  /\ pc \in [{"p", "c1", "c2"} -> SysPlaces]
  /\ s \in [reaped : SUBSET {"c1"}, orig : Disp, p : Disp, c1 : Disp, chld : {"DFL", "IGN"}, ended : [{"c1", "c2"} -> Ends],
            status : Ends, killedAt : SysPlaces \union {"none"}, signals : {0, 1}, eintr : {0, 1}]

\* The caller ignores the two signals while its command may run, and has put back
\* what it says it has
SysCaller ==
  /\ pc["p"] \in {"command", "block", "returned"} => s.p = s.orig
  /\ prog = "simple_system" => s.p = s.orig /\ pc["p"] \in {"command", "block", "wait", "eintr", "returned", "exit", "killed"}
  /\ prog = "system" =>
       /\ pc["p"] = "ignoreQuit" => s.p.INT = "IGN"
       /\ pc["p"] \in {"fork", "wait", "eintr", "unblock", "restInt"} => s.p.INT = "IGN" /\ s.p.QUIT = "IGN"
       /\ pc["p"] \in {"restInt", "restQuit"} => s.p.blocked = s.orig.blocked
       /\ pc["p"] = "restQuit" => s.p.INT = s.orig.INT
       /\ pc["p"] = "killed" => s.killedAt \notin {"fork", "wait", "eintr", "unblock"}

\* The shell is there between fork and its end, it is collected by the waitpid that returns
\* its status, and where there is no status nothing was collected
SysShell ==
  /\ pc["p"] \in {"command", "block", "ignoreInt", "ignoreQuit", "fork"} => pc["c1"] = "absent"
  /\ pc["p"] \in {"wait", "eintr"} => pc["c1"] # "absent"
  /\ pc["p"] \in {"command", "block", "ignoreInt", "ignoreQuit", "fork", "wait", "eintr"} => s.reaped = {}
  /\ prog = "simple_system" =>
       /\ pc["p"] \in {"command", "block", "wait"} => s.eintr = 0
       /\ pc["p"] = "eintr" => s.eintr = 1
  /\ pc["p"] \in {"unblock", "restInt", "restQuit", "returned"} =>
       \/ Procs!NoStatus /\ s.status = "-1" /\ s.reaped = {}
       \/ ~Procs!NoStatus /\ pc["c1"] \in {"exit", "killed"} /\ s.status = s.ended["c1"] /\ "c1" \in s.reaped
  /\ pc["c1"] \in {"absent", "setInt", "setQuit", "setMask", "execl", "run", "exit", "killed"}
  /\ pc["c2"] \in {"run", "exit"}

Ignores(sig) == s.c1[sig] = "IGN" <=> s.orig[sig] = "IGN"

\* Step by step the child has the dispositions and the mask that its command gets
SysCommand ==
  /\ pc["c1"] = "setInt" => s.c1.INT = "IGN"
  /\ pc["c1"] \in {"setInt", "setQuit"} => s.c1.QUIT = "IGN"
  /\ pc["c1"] \in {"setQuit", "setMask", "execl", "run"} => Ignores("INT")
  /\ pc["c1"] \in {"setMask", "execl", "run"} => Ignores("QUIT")
  /\ pc["c1"] \in {"execl", "run"} => s.c1.blocked = s.orig.blocked

SysProgs == {"system", "simple_system"}

SysInv == prog \in SysProgs => SysType /\ SysCaller /\ SysShell /\ SysCommand

LEMMA SysInit ==
  ASSUME Procs!SystemInit
  PROVE  SysInv
<1>0. PICK x \in {"system", "simple_system"}, i \in Procs!Disps, q \in Procs!Disps, b \in BOOLEAN, d \in {"DFL", "IGN"} :
        Procs!Start(x, [p |-> "command", c1 |-> "absent", c2 |-> "run"],
          [reaped |-> {}, orig |-> [INT |-> i, QUIT |-> q, blocked |-> b],
           p |-> [INT |-> i, QUIT |-> q, blocked |-> b], c1 |-> [INT |-> i, QUIT |-> q, blocked |-> b],
           chld |-> d, ended |-> [c1 |-> "none", c2 |-> "none"], status |-> "none", killedAt |-> "none",
           signals |-> 0, eintr |-> 0])
  BY Zenon DEF Procs!SystemInit
<1>1. /\ prog \in {"system", "simple_system"}
      /\ pc = [p |-> "command", c1 |-> "absent", c2 |-> "run"]
      /\ s = [reaped |-> {}, orig |-> [INT |-> i, QUIT |-> q, blocked |-> b],
              p |-> [INT |-> i, QUIT |-> q, blocked |-> b], c1 |-> [INT |-> i, QUIT |-> q, blocked |-> b],
              chld |-> d, ended |-> [c1 |-> "none", c2 |-> "none"], status |-> "none", killedAt |-> "none",
              signals |-> 0, eintr |-> 0]
  BY <1>0, Zenon DEF Procs!Start
<1>2. SysType
  <2>1. pc \in [{"p", "c1", "c2"} -> SysPlaces]
    BY <1>1 DEF SysPlaces
  <2>2. [INT |-> i, QUIT |-> q, blocked |-> b] \in Disp
    BY <1>1 DEF Disp
  <2>3. [c1 |-> "none", c2 |-> "none"] \in [{"c1", "c2"} -> Ends]
    BY DEF Ends
  <2> QED
    BY <1>1, <2>1, <2>2, <2>3 DEF SysType, Ends
<1>3. SysCaller /\ SysShell /\ SysCommand
  BY <1>1 DEF SysCaller, SysShell, SysCommand
<1> QED
  BY <1>2, <1>3 DEF SysInv

\* waitpid() returns
LEMMA SysWaited ==
  ASSUME SysInv, prog \in SysProgs, prog' = prog, NEW to \in {"unblock", "returned"},
         to = IF prog = "system" THEN "unblock" ELSE "returned", Procs!WaitChild(to)
  PROVE  SysInv'
<1>0. SysType /\ SysCaller /\ SysShell /\ SysCommand
  BY DEF SysInv
<1>1. /\ pc["p"] = "wait" /\ pc' = [pc EXCEPT !["p"] = to] /\ pc["c1"] \in {"exit", "killed"}
      /\ s' = IF s.chld = "IGN" THEN [s EXCEPT !.status = "-1"]
              ELSE [[s EXCEPT !.reaped = s.reaped \union {"c1"}] EXCEPT !.status = s.ended["c1"]]
  BY <1>0 DEF SysType, SysPlaces, Procs!WaitChild, Procs!Zombies, Procs!Dead, Procs!Gone, Procs!Final, Procs!Reaped,
     Procs!Do, Procs!Go
<1>2. /\ pc' \in [{"p", "c1", "c2"} -> SysPlaces] /\ pc'["p"] = to /\ pc'["c1"] = pc["c1"] /\ pc'["c2"] = pc["c2"]
  BY <1>0, <1>1 DEF SysType, SysPlaces
<1>3. /\ s'.orig = s.orig /\ s'.p = s.p /\ s'.c1 = s.c1 /\ s'.chld = s.chld /\ s'.ended = s.ended
      /\ s'.eintr = s.eintr /\ s'.killedAt = s.killedAt
      /\ s'.reaped = IF s.chld = "IGN" THEN s.reaped ELSE s.reaped \union {"c1"}
      /\ s'.status = IF s.chld = "IGN" THEN "-1" ELSE s.ended["c1"]
  BY <1>0, <1>1 DEF SysType
<1>4. SysType'
  <2>1. CASE s.chld = "IGN"
    BY <1>0, <1>1, <1>2, <2>1 DEF SysType, Ends
  <2>2. CASE s.chld # "IGN"
    <3>1. s.ended["c1"] \in Ends /\ s.reaped \union {"c1"} \in SUBSET {"c1"}
      BY <1>0 DEF SysType
    <3> QED
      BY <1>0, <1>1, <1>2, <2>2, <3>1 DEF SysType
  <2> QED
    BY <2>1, <2>2
<1>5. SysCaller'
  BY <1>0, <1>1, <1>2, <1>3 DEF SysCaller, SysProgs
<1>6. SysShell'
  <2>1. Procs!NoStatus' <=> s.chld = "IGN"
    BY <1>0, <1>1, <1>2, <1>3 DEF SysShell, SysProgs, Procs!NoStatus
  <2>2. s.reaped = {}
    BY <1>0, <1>1 DEF SysShell
  <2> QED
    BY <1>0, <1>1, <1>2, <1>3, <2>1, <2>2 DEF SysShell, SysProgs
<1>7. SysCommand'
  BY <1>0, <1>1, <1>2, <1>3 DEF SysCommand, Ignores
<1> QED
  BY <1>4, <1>5, <1>6, <1>7 DEF SysInv

LEMMA SysParentStep ==
  ASSUME SysInv, prog \in SysProgs, prog' = prog,
         \/ prog = "system" /\ Procs!SystemParent
         \/ Procs!t_system("p")
         \/ prog = "simple_system" /\ Procs!simple_system("p")
  PROVE  SysInv'
<1> USE DEF Procs!Go, Procs!Walk, Procs!Do, Procs!Fork
<1>0. SysType /\ SysCaller /\ SysShell /\ SysCommand
  BY DEF SysInv
<1> USE DEF SysType, SysCaller, SysShell, SysCommand, Ignores, SysProgs, Disp, SysPlaces, Procs!NoStatus
<1>1. CASE Procs!t_system("p")
  BY <1>0, <1>1 DEF SysInv, Procs!t_system
<1>2. CASE prog = "system" /\ Procs!Do("p", "block", "ignoreInt", [s EXCEPT !.p.blocked = TRUE])
  BY <1>0, <1>2 DEF SysInv
<1>3. CASE prog = "system" /\ Procs!Do("p", "ignoreInt", "ignoreQuit", [s EXCEPT !.p.INT = "IGN"])
  BY <1>0, <1>3 DEF SysInv, Procs!Disps
<1>4. CASE prog = "system" /\ Procs!Do("p", "ignoreQuit", "fork", [s EXCEPT !.p.QUIT = "IGN"])
  BY <1>0, <1>4 DEF SysInv, Procs!Disps
<1>5. CASE prog = "system" /\ Procs!Fork("p", "fork", "wait", "c1", "setInt") /\ s' = [s EXCEPT !.c1 = s.p]
  BY <1>0, <1>5 DEF SysInv
<1>6. CASE prog = "system" /\ Procs!Do("p", "fork", "unblock", [s EXCEPT !.status = "-1"])
  BY <1>0, <1>6 DEF SysInv, Ends
<1>7. CASE prog = "system" /\ Procs!WaitChild("unblock")
  BY <1>7, SysWaited
<1>14. CASE prog = "system" /\ Procs!Walk("p", "eintr", "wait")
  BY <1>0, <1>14 DEF SysInv
<1>8. CASE prog = "system" /\ Procs!Do("p", "unblock", "restInt", [s EXCEPT !.p.blocked = s.orig.blocked])
  BY <1>0, <1>8 DEF SysInv
<1>9. CASE prog = "system" /\ Procs!Do("p", "restInt", "restQuit", [s EXCEPT !.p.INT = s.orig.INT])
  BY <1>0, <1>9 DEF SysInv
<1>10. CASE prog = "system" /\ Procs!Do("p", "restQuit", "returned", [s EXCEPT !.p.QUIT = s.orig.QUIT])
  BY <1>0, <1>10 DEF SysInv
<1>11. CASE prog = "simple_system" /\ Procs!Fork("p", "block", "wait", "c1", "execl") /\ s' = [s EXCEPT !.c1 = s.p]
  BY <1>0, <1>11 DEF SysInv
<1>12. CASE prog = "simple_system" /\ Procs!Do("p", "block", "returned", [s EXCEPT !.status = "-1"])
  BY <1>0, <1>12 DEF SysInv, Ends
<1>13. CASE prog = "simple_system" /\ Procs!WaitChild("returned")
  BY <1>13, SysWaited
<1>15. CASE prog = "simple_system" /\ Procs!Do("p", "eintr", "returned", [s EXCEPT !.status = "-1"])
  BY <1>0, <1>15 DEF SysInv, Ends
<1> QED
  BY <1>1, <1>2, <1>3, <1>4, <1>5, <1>6, <1>7, <1>8, <1>9, <1>10, <1>11, <1>12, <1>13, <1>14, <1>15
     DEF Procs!SystemParent, Procs!WaitShell, Procs!simple_system

\* A step of the shell, or of the caller's other child
LEMMA SysChildStep ==
  ASSUME SysInv, prog \in SysProgs, prog' = prog,
         \/ prog = "system" /\ Procs!SystemChild
         \/ prog = "simple_system" /\ Procs!Shell("execl")
         \/ Procs!OtherChild
  PROVE  SysInv'
<1> USE DEF Procs!Go, Procs!Walk, Procs!Do
<1>0. SysType /\ SysCaller /\ SysShell /\ SysCommand
  BY DEF SysInv
<1> USE DEF SysType, SysCaller, SysShell, SysCommand, Ignores, SysProgs, Disp, SysPlaces, Procs!NoStatus
<1>1. CASE Procs!OtherChild
  BY <1>0, <1>1 DEF SysInv, Procs!OtherChild, Ends
<1>2. CASE Procs!Do("c1", "setInt", "setQuit", [s EXCEPT !.c1.INT = IF s.orig.INT # "IGN" THEN "DFL" ELSE @])
  BY <1>0, <1>2 DEF SysInv, Procs!Disps
<1>3. CASE Procs!Do("c1", "setQuit", "setMask", [s EXCEPT !.c1.QUIT = IF s.orig.QUIT # "IGN" THEN "DFL" ELSE @])
  BY <1>0, <1>3 DEF SysInv, Procs!Disps
<1>4. CASE Procs!Do("c1", "setMask", "execl", [s EXCEPT !.c1.blocked = s.orig.blocked])
  BY <1>0, <1>4 DEF SysInv
<1>5. CASE Procs!Do("c1", "execl", "exit", [s EXCEPT !.ended["c1"] = "127"])
  BY <1>0, <1>5 DEF SysInv, Ends
<1>6. CASE Procs!Do("c1", "run", "exit", [s EXCEPT !.ended["c1"] = "0"])
  BY <1>0, <1>6 DEF SysInv, Ends
<1>7. CASE Procs!Do("c1", "execl", "run", [s EXCEPT !.c1 = [INT |-> Procs!Handled(@.INT),
                                      QUIT |-> Procs!Handled(@.QUIT), blocked |-> @.blocked]])
  BY <1>0, <1>7 DEF SysInv, Procs!Disps, Procs!Handled
<1> QED
  BY <1>1, <1>2, <1>3, <1>4, <1>5, <1>6, <1>7 DEF Procs!SystemChild, Procs!Shell

\* A signal typed at the terminal
LEMMA SysSignalStep ==
  ASSUME SysInv, prog \in SysProgs, prog' = prog, Procs!TerminalSignal
  PROVE  SysInv'
<1>0. SysType /\ SysCaller /\ SysShell /\ SysCommand
  BY DEF SysInv
<1>1. PICK sig \in {"INT", "QUIT"}, e \in 0 .. 1, hit \in SUBSET {"p", "c1"} :
        /\ hit = {a \in {"p", "c1"} : ~Procs!Gone(a) /\ s[a][sig] = "DFL"}
        /\ e = 1 => Procs!Interruptible /\ s.p[sig] = "handler"
        /\ pc' = [a \in DOMAIN pc |-> IF a \in hit THEN "killed" ELSE IF a = "p" /\ e = 1 THEN "eintr" ELSE pc[a]]
        /\ s' = [s EXCEPT !.signals = 1, !.killedAt = IF "p" \in hit THEN pc["p"] ELSE @, !.eintr = IF e = 1 THEN 1 ELSE @,
                          !.ended["c1"] = IF "c1" \in hit THEN "signal" ELSE @]
  <2>1. PICK sig \in {"INT", "QUIT"}, e \in 0 .. 1 :
          /\ e = 1 => Procs!Interruptible /\ s.p[sig] = "handler"
          /\ pc' = [a \in DOMAIN pc |-> IF a \in {b \in {"p", "c1"} : ~Procs!Gone(b) /\ s[b][sig] = "DFL"} THEN "killed"
                                        ELSE IF a = "p" /\ e = 1 THEN "eintr" ELSE pc[a]]
          /\ s' = [s EXCEPT !.signals = 1,
                            !.killedAt = IF "p" \in {b \in {"p", "c1"} : ~Procs!Gone(b) /\ s[b][sig] = "DFL"}
                                         THEN pc["p"] ELSE @,
                            !.eintr = IF e = 1 THEN 1 ELSE @,
                            !.ended["c1"] = IF "c1" \in {b \in {"p", "c1"} : ~Procs!Gone(b) /\ s[b][sig] = "DFL"}
                                            THEN "signal" ELSE @]
    BY Zenon DEF Procs!TerminalSignal
  <2> DEFINE h == {b \in {"p", "c1"} : ~Procs!Gone(b) /\ s[b][sig] = "DFL"}
  <2>2. h \in SUBSET {"p", "c1"}
    OBVIOUS
  <2> QED
    BY <2>1, <2>2, Zenon
<1>5. /\ "p" \in hit => pc["p"] \notin {"exit", "killed", "absent"} /\ s.p[sig] = "DFL"
      /\ "c1" \in hit => pc["c1"] \notin {"exit", "killed", "absent"}
      /\ e = 1 => pc["p"] = "wait" /\ s.p[sig] = "handler" /\ "p" \notin hit
  BY <1>1 DEF Procs!Gone, Procs!Final, Procs!Interruptible
<1>2. /\ pc'["p"] = IF "p" \in hit THEN "killed" ELSE IF e = 1 THEN "eintr" ELSE pc["p"]
      /\ pc'["c1"] = IF "c1" \in hit THEN "killed" ELSE pc["c1"]
      /\ pc'["c2"] = pc["c2"]
      /\ pc' \in [{"p", "c1", "c2"} -> SysPlaces]
  BY <1>0, <1>1 DEF SysType, SysPlaces
<1>3. /\ s'.reaped = s.reaped /\ s'.orig = s.orig /\ s'.p = s.p /\ s'.c1 = s.c1 /\ s'.status = s.status
      /\ s'.chld = s.chld /\ s'.eintr = IF e = 1 THEN 1 ELSE s.eintr
      /\ s'.killedAt = IF "p" \in hit THEN pc["p"] ELSE s.killedAt
      /\ s'.ended = [s.ended EXCEPT !["c1"] = IF "c1" \in hit THEN "signal" ELSE @]
  BY <1>0, <1>1 DEF SysType
<1>4. SysType'
  <2>1. [s.ended EXCEPT !["c1"] = IF "c1" \in hit THEN "signal" ELSE @] \in [{"c1", "c2"} -> Ends]
    BY <1>0 DEF SysType, Ends
  <2>2. (IF "p" \in hit THEN pc["p"] ELSE s.killedAt) \in SysPlaces \union {"none"}
    BY <1>0 DEF SysType
  <2>3. (IF e = 1 THEN 1 ELSE s.eintr) \in {0, 1}
    BY <1>0 DEF SysType
  <2>4. s' = [s EXCEPT !.signals = 1, !.killedAt = IF "p" \in hit THEN pc["p"] ELSE s.killedAt,
                       !.eintr = IF e = 1 THEN 1 ELSE s.eintr,
                       !.ended = [s.ended EXCEPT !["c1"] = IF "c1" \in hit THEN "signal" ELSE @]]
    BY <1>0, <1>1 DEF SysType
  <2> QED
    BY <1>0, <1>2, <2>1, <2>2, <2>3, <2>4 DEF SysType
<1>6. SysCaller'
  BY <1>0, <1>2, <1>3, <1>5 DEF SysCaller, SysType
<1>7. SysShell'
  <2>1. /\ pc'["p"] \in {"unblock", "restInt", "restQuit", "returned"} => pc["p"] = pc'["p"] /\ e # 1
        /\ pc["c1"] \in {"absent", "exit", "killed"} => "c1" \notin hit
    BY <1>0, <1>2, <1>5 DEF SysShell
  <2>2. pc'["p"] \in {"unblock", "restInt", "restQuit", "returned"} =>
          /\ Procs!NoStatus' <=> Procs!NoStatus
          /\ ~Procs!NoStatus => s'.ended["c1"] = s.ended["c1"] /\ pc'["c1"] = pc["c1"]
    BY <1>0, <1>2, <1>3, <2>1 DEF SysShell, SysType, Procs!NoStatus
  <2>3. pc'["p"] \in {"unblock", "restInt", "restQuit", "returned"} =>
          \/ Procs!NoStatus' /\ s'.status = "-1" /\ s'.reaped = {}
          \/ ~Procs!NoStatus' /\ pc'["c1"] \in {"exit", "killed"} /\ s'.status = s'.ended["c1"] /\ "c1" \in s'.reaped
    BY <1>0, <1>3, <2>1, <2>2 DEF SysShell
  <2> QED
    BY <1>0, <1>2, <1>3, <1>5, <2>3 DEF SysShell, SysType
<1>8. SysCommand'
  BY <1>0, <1>2, <1>3, <1>5 DEF SysCommand, Ignores
<1> QED
  BY <1>4, <1>6, <1>7, <1>8 DEF SysInv

\* Another signal interrupts the wait
LEMMA SysOtherSignalStep ==
  ASSUME SysInv, prog \in SysProgs, prog' = prog, Procs!OtherSignal
  PROVE  SysInv'
<1>0. SysType /\ SysCaller /\ SysShell /\ SysCommand
  BY DEF SysInv
<1>1. pc["p"] = "wait" /\ Procs!Do("p", "wait", "eintr", [s EXCEPT !.eintr = 1])
  BY DEF Procs!OtherSignal, Procs!Interruptible
<1> QED
  BY <1>0, <1>1 DEF SysInv, SysType, SysCaller, SysShell, SysCommand, Ignores, SysProgs, SysPlaces,
     Procs!NoStatus, Procs!Go, Procs!Do

\* system() returns its own command's status, also when a signal interrupts the wait, with the caller's
\* signals as they were, its caller is not killed by a signal for the command, and the command gets the
\* caller's mask and dispositions
LEMMA SysReturns ==
  ASSUME SysInv
  PROVE  Procs!SystemCall
<1>1. CASE prog \in SysProgs
  BY <1>1 DEF SysInv, SysProgs, SysType, SysCaller, SysShell, SysCommand, Ignores, Procs!SystemCall
<1> QED
  BY <1>1 DEF SysProgs, Procs!SystemCall

-----------------------------------------------------------------------------
(* fork_sig_sync.c: the signal is pending only after the work is done *)

SyncInv ==
  prog = "fork_sig_sync" =>
    /\ pc \in [{"p", "c1"} -> {"start", "sigaction", "fork", "sigsuspend", "got", "exit", "absent", "work", "kill"}]
    /\ s \in [blocked : BOOLEAN, handler : BOOLEAN, pending : BOOLEAN, worked : BOOLEAN, reaped : {{}}]
    /\ s.pending \/ pc["p"] \in {"got", "exit"} \/ pc["c1"] \in {"kill", "exit"} => s.worked

LEMMA SyncInit ==
  ASSUME Procs!SyncInit
  PROVE  SyncInv
  BY DEF Procs!SyncInit, Procs!Start, Procs!Family, SyncInv

LEMMA SyncStep ==
  ASSUME SyncInv, prog = "fork_sig_sync", prog' = prog, NEW a \in DOMAIN pc, Procs!fork_sig_sync(a)
  PROVE  SyncInv'
<1> USE DEF SyncInv, Procs!Go, Procs!Walk, Procs!Do, Procs!Fork
<1>1. CASE a = "p" /\ Procs!SyncSetup
  BY <1>1 DEF Procs!SyncSetup
<1>2. CASE Procs!Fork("p", "fork", "sigsuspend", "c1", "work") /\ UNCHANGED s
  BY <1>2
<1>3. CASE Procs!Do("p", "sigsuspend", "got", [s EXCEPT !.pending = FALSE]) /\ s.pending
  BY <1>3
<1>4. CASE Procs!Do("p", "got", "exit", [s EXCEPT !.blocked = FALSE])
  BY <1>4
<1>5. CASE Procs!Do("c1", "work", "kill", [s EXCEPT !.worked = TRUE])
  BY <1>5
<1>6. CASE Procs!Do("c1", "kill", "exit", [s EXCEPT !.pending = s.blocked])
  BY <1>6
<1> QED
  BY <1>1, <1>2, <1>3, <1>4, <1>5, <1>6 DEF Procs!fork_sig_sync

\* The parent goes on after the child's work
LEMMA SyncOrdered ==
  ASSUME SyncInv
  PROVE  Procs!Synchronised
  BY DEF SyncInv, Procs!Synchronised

-----------------------------------------------------------------------------
(* demo_clone.c, t_clone.c *)

CloneProgs == {"demo_clone", "t_clone"}

CloneType ==
  /\ pc \in [{"p", "c1"} -> {"start", "failed", "munmap", "waitpid", "check", "exit", "absent", "killed",
                             "umask", "close", "signal", "return"}]
  /\ s = [flags |-> s.flags, reaped |-> s.reaped, umask |-> s.umask, fd |-> s.fd, SIGTERM |-> s.SIGTERM,
          stack |-> s.stack, status |-> s.status, seen |-> s.seen]
  /\ s.flags \subseteq Procs!CloneFlags /\ s.stack \in BOOLEAN
  /\ s.umask \in {"IWOTH", "IWGRP"} /\ s.fd \in {"open", "closed"} /\ s.SIGTERM \in {"IGN", "DFL"}

\* What the child has changed so far it has changed for the parent too, if the flags share it
CloneShared ==
  /\ s.umask # "IWOTH" => "CLONE_FS" \in s.flags
  /\ s.fd # "open" => "CLONE_FILES" \in s.flags
  /\ s.SIGTERM # "IGN" => "CLONE_SIGHAND" \in s.flags
  /\ prog = "demo_clone" =>
       /\ pc["c1"] \in {"close", "signal", "return", "exit"} /\ "CLONE_FS" \in s.flags => s.umask # "IWOTH"
       /\ pc["c1"] \in {"signal", "return", "exit"} /\ "CLONE_FILES" \in s.flags => s.fd # "open"
       /\ pc["c1"] \in {"return", "exit"} /\ "CLONE_SIGHAND" \in s.flags => s.SIGTERM # "IGN"
       /\ pc["c1"] = "exit" => s.status = "22"
       /\ pc["c1"] = "killed" => s.status = "SIGSEGV" /\ "CLONE_VM" \in s.flags
  /\ prog = "t_clone" /\ pc["c1"] = "exit" /\ "CLONE_FILES" \in s.flags => s.fd # "open"

\* The parent looks when the child has ended
CloneSeen ==
  /\ pc["p"] \in {"check", "exit"} => pc["c1"] \in {"exit", "killed"}
  /\ pc["c1"] # "failed" /\ (prog = "t_clone" => pc["c1"] # "killed")
  /\ prog = "demo_clone" /\ pc["p"] = "exit" =>
       s.seen = [umask |-> s.umask # "IWOTH", fd |-> s.fd # "open", SIGTERM |-> s.SIGTERM # "IGN"]
  /\ prog = "t_clone" /\ pc["p"] = "exit" => s.seen = [fd |-> s.fd # "open"]

CloneInv == prog \in CloneProgs => CloneType /\ CloneShared /\ CloneSeen

LEMMA CloneInit ==
  ASSUME Procs!CloneInit
  PROVE  CloneInv
  BY DEF Procs!CloneInit, Procs!Start, Procs!Family, Procs!CloneFlags, CloneInv, CloneType, CloneShared, CloneSeen

LEMMA DemoStep ==
  ASSUME CloneInv, prog = "demo_clone", prog' = prog, NEW a \in DOMAIN pc, Procs!demo_clone(a)
  PROVE  CloneInv'
<1> USE DEF CloneType, CloneShared, CloneSeen, Procs!Go, Procs!Walk, Procs!Do, Procs!Fork, Procs!Shared
<1>0. CloneType /\ CloneShared /\ CloneSeen
  BY DEF CloneInv, CloneProgs
<1>1. CASE Procs!Do("c1", "umask", "close", [s EXCEPT !.umask = Procs!Shared("CLONE_FS", @, "IWGRP")])
  BY <1>0, <1>1 DEF CloneInv
<1>2. CASE Procs!Do("c1", "close", "signal", [s EXCEPT !.fd = Procs!Shared("CLONE_FILES", @, "closed")])
  BY <1>0, <1>2 DEF CloneInv
<1>3. CASE Procs!Do("c1", "signal", "return", [s EXCEPT !.SIGTERM = Procs!Shared("CLONE_SIGHAND", @, "DFL")])
  BY <1>0, <1>3 DEF CloneInv
<1>4. CASE Procs!Do("c1", "return", "exit", [s EXCEPT !.status = "22"])
  BY <1>0, <1>4 DEF CloneInv
<1>5. CASE /\ "CLONE_VM" \in s.flags /\ ~Procs!Gone("c1")
           /\ Procs!Do("c1", pc["c1"], "killed", [s EXCEPT !.status = "SIGSEGV"])
  BY <1>0, <1>5 DEF CloneInv, Procs!Gone, Procs!Final
<1>6. CASE Procs!Walk("p", "start", "failed")
  BY <1>0, <1>6 DEF CloneInv
<1>7. CASE Procs!Fork("p", "start", "munmap", "c1", "umask") /\ UNCHANGED s
  BY <1>0, <1>7 DEF CloneInv
<1>8. CASE Procs!Do("p", "munmap", "waitpid", [s EXCEPT !.stack = FALSE])
  BY <1>0, <1>8 DEF CloneInv
<1>9. CASE Procs!Do("p", "waitpid", "check", Procs!Reaped("c1")) /\ "c1" \in Procs!Zombies
  <2>1. pc["p"] = "waitpid" /\ pc' = [pc EXCEPT !["p"] = "check"] /\ pc["c1"] \in {"exit", "killed"}
    BY <1>0, <1>9 DEF Procs!Zombies, Procs!Dead, Procs!Gone, Procs!Final
  <2>2. s' = [s EXCEPT !.reaped = s.reaped \union {"c1"}]
    BY <1>9 DEF Procs!Reaped
  <2> QED
    BY <1>0, <2>1, <2>2 DEF CloneInv
<1>10. CASE Procs!Do("p", "check", "exit", [s EXCEPT !.seen = [umask |-> s.umask # "IWOTH", fd |-> s.fd # "open",
                                                               SIGTERM |-> s.SIGTERM # "IGN"]])
  <2> DEFINE Look == [umask |-> s.umask # "IWOTH", fd |-> s.fd # "open", SIGTERM |-> s.SIGTERM # "IGN"]
  <2>1. pc["p"] = "check" /\ pc' = [pc EXCEPT !["p"] = "exit"] /\ s' = [s EXCEPT !.seen = Look]
    BY <1>10
  <2> HIDE DEF Look
  <2>2. s'.seen = Look /\ s'.umask = s.umask /\ s'.fd = s.fd /\ s'.SIGTERM = s.SIGTERM
    BY <1>0, <2>1
  <2>3. s'.seen = [umask |-> s'.umask # "IWOTH", fd |-> s'.fd # "open", SIGTERM |-> s'.SIGTERM # "IGN"]
    BY <2>2, Zenon DEF Look
  <2>4. CloneType' /\ CloneShared'
    BY <1>0, <2>1
  <2>5. CloneSeen'
    <3>1. pc'["c1"] \in {"exit", "killed"} /\ pc'["c1"] # "failed" /\ prog' = "demo_clone"
      BY <1>0, <2>1
    <3> QED
      BY <2>3, <3>1, Zenon
  <2> QED
    BY <2>4, <2>5 DEF CloneInv
<1> QED
  BY <1>1, <1>2, <1>3, <1>4, <1>5, <1>6, <1>7, <1>8, <1>9, <1>10 DEF Procs!demo_clone, Procs!DemoChild

LEMMA CloneStep ==
  ASSUME CloneInv, prog = "t_clone", prog' = prog, NEW a \in DOMAIN pc, Procs!t_clone(a)
  PROVE  CloneInv'
<1> USE DEF CloneType, CloneShared, CloneSeen, Procs!Go, Procs!Walk, Procs!Do, Procs!Fork, Procs!Shared
<1>0. CloneType /\ CloneShared /\ CloneSeen
  BY DEF CloneInv, CloneProgs
<1>1. CASE Procs!Do("c1", "close", "exit", [s EXCEPT !.fd = Procs!Shared("CLONE_FILES", @, "closed")])
  BY <1>0, <1>1 DEF CloneInv
<1>2. CASE Procs!Fork("p", "start", "waitpid", "c1", "close") /\ UNCHANGED s
  BY <1>0, <1>2 DEF CloneInv
<1>3. CASE Procs!Do("p", "waitpid", "check", Procs!Reaped("c1")) /\ "c1" \in Procs!Zombies
  <2>1. pc["p"] = "waitpid" /\ pc' = [pc EXCEPT !["p"] = "check"] /\ pc["c1"] \in {"exit", "killed"}
    BY <1>0, <1>3 DEF Procs!Zombies, Procs!Dead, Procs!Gone, Procs!Final
  <2>2. s' = [s EXCEPT !.reaped = s.reaped \union {"c1"}]
    BY <1>3 DEF Procs!Reaped
  <2> QED
    BY <1>0, <2>1, <2>2 DEF CloneInv
<1>4. CASE Procs!Do("p", "check", "exit", [s EXCEPT !.seen = [fd |-> s.fd # "open"]])
  <2> DEFINE Look == [fd |-> s.fd # "open"]
  <2>1. pc["p"] = "check" /\ pc' = [pc EXCEPT !["p"] = "exit"] /\ s' = [s EXCEPT !.seen = Look]
    BY <1>4
  <2> HIDE DEF Look
  <2>2. s'.seen = Look /\ s'.fd = s.fd
    BY <1>0, <2>1
  <2>3. s'.seen = [fd |-> s'.fd # "open"]
    BY <2>2, Zenon DEF Look
  <2>4. CloneType' /\ CloneShared'
    BY <1>0, <2>1
  <2>5. CloneSeen'
    <3>1. pc'["c1"] = "exit" /\ pc'["c1"] \notin {"failed", "killed"} /\ prog' = "t_clone"
      BY <1>0, <2>1
    <3> QED
      BY <2>3, <3>1, Zenon
  <2> QED
    BY <2>4, <2>5 DEF CloneInv
<1> QED
  BY <1>1, <1>2, <1>3, <1>4 DEF Procs!t_clone

\* The parent sees what the flags share
LEMMA CloneSees ==
  ASSUME CloneInv
  PROVE  Procs!SharedByFlags
<1> SUFFICES ASSUME prog \in CloneProgs, pc["p"] = "exit"
             PROVE  Procs!SharedByFlags
  BY DEF Procs!SharedByFlags, Procs!Ended, CloneProgs
<1> USE DEF CloneType, CloneShared, CloneSeen
<1>1. CASE prog = "demo_clone"
  <2>1. s.seen = [umask |-> s.umask # "IWOTH", fd |-> s.fd # "open", SIGTERM |-> s.SIGTERM # "IGN"]
    BY <1>1 DEF CloneInv, CloneProgs
  <2>2. s.status = "22" => /\ s.umask # "IWOTH" <=> "CLONE_FS" \in s.flags
                           /\ s.fd # "open" <=> "CLONE_FILES" \in s.flags
                           /\ s.SIGTERM # "IGN" <=> "CLONE_SIGHAND" \in s.flags
    BY <1>1 DEF CloneInv, CloneProgs
  <2>3. (s.fd # "open" => "CLONE_FILES" \in s.flags) /\ ("CLONE_VM" \notin s.flags => s.status = "22")
    BY <1>1 DEF CloneInv, CloneProgs
  <2>4. s.seen.fd = (s.fd # "open")
    <3> DEFINE u == s.umask # "IWOTH"  f == s.fd # "open"  g == s.SIGTERM # "IGN"
    <3>1. s.seen = [umask |-> u, fd |-> f, SIGTERM |-> g]
      BY <2>1, Zenon
    <3> HIDE DEF u, f, g
    <3>2. s.seen.fd = f
      BY <3>1
    <3> QED
      BY <3>2, Zenon DEF f
  <2>5. s.status = "22" => s.seen = [umask |-> "CLONE_FS" \in s.flags, fd |-> "CLONE_FILES" \in s.flags,
                                     SIGTERM |-> "CLONE_SIGHAND" \in s.flags]
    <3>1. ASSUME s.status = "22"
          PROVE  /\ (s.umask # "IWOTH") = ("CLONE_FS" \in s.flags)
                 /\ (s.fd # "open") = ("CLONE_FILES" \in s.flags)
                 /\ (s.SIGTERM # "IGN") = ("CLONE_SIGHAND" \in s.flags)
      BY <2>2, <3>1
    <3> QED
      BY <2>1, <3>1, Zenon
  <2> QED
    BY <1>1, <2>3, <2>4, <2>5, Zenon DEF Procs!SharedByFlags
<1>2. CASE prog = "t_clone"
  <2>1. s.seen = [fd |-> s.fd # "open"] /\ (s.fd # "open" <=> "CLONE_FILES" \in s.flags)
    BY <1>2 DEF CloneInv, CloneProgs
  <2>2. s.seen.fd = (s.fd # "open")
    <3> DEFINE f == s.fd # "open"
    <3>1. s.seen = [fd |-> f]
      BY <2>1, Zenon
    <3> HIDE DEF f
    <3>2. s.seen.fd = f
      BY <3>1
    <3> QED
      BY <3>2, Zenon DEF f
  <2>3. s.seen.fd = ("CLONE_FILES" \in s.flags)
    <3>1. (s.fd # "open") = ("CLONE_FILES" \in s.flags)
      BY <2>1
    <3> QED
      BY <3>1, <2>2, Zenon
  <2>4. s.seen.fd => "CLONE_FILES" \in s.flags
    BY <2>3, Zenon
  <2> QED
    BY <1>2, <2>3, <2>4, Zenon DEF Procs!SharedByFlags
<1> QED
  BY <1>1, <1>2 DEF CloneProgs

-----------------------------------------------------------------------------
(* The programs with one child *)

OnePlaces == {"start", "absent", "exit", "killed", "wait", "look", "lseek", "fcntl", "child", "waitpid", "pause", "stopped",
              "ps", "kill", "ps2", "while", "sleep", "parent", "func", "print", "vfork", "times", "close1", "close2",
              "write", "fork", "end"}

OneType ==
  /\ pc \in [{"p", "c1"} -> OnePlaces]
  /\ s = [argc |-> s.argc, reaped |-> s.reaped, offset |-> s.offset, append |-> s.append, seen |-> s.seen,
          report |-> s.report, signals |-> s.signals, mem |-> s.mem, buf |-> s.buf, j |-> s.j,
          out |-> s.out, stdout |-> s.stdout, ppid |-> s.ppid, killed |-> s.killed]

LEMMA OneInit ==
  ASSUME Procs!OneChildInit
  PROVE  /\ OneType /\ pc["p"] = "start" /\ pc["c1"] = "absent"
         /\ s.argc \in 1 .. MaxArgs /\ s.reaped = {} /\ s.seen = << >> /\ s.report = "none" /\ s.signals = 0
         /\ s.mem = [a \in {"p", "c1"} |-> 1] /\ s.buf = [a \in {"p", "c1"} |-> << >>] /\ s.j = 0
         /\ s.out = << >> /\ s.stdout = [a \in {"p", "c1"} |-> TRUE]
<1>1. PICK argc \in 1 .. MaxArgs :
        /\ pc = Procs!Family({"c1"})
        /\ s = [argc |-> argc, reaped |-> {}, offset |-> 0, append |-> FALSE, seen |-> << >>, report |-> "none",
                signals |-> 0, mem |-> [a \in {"p", "c1"} |-> 1], buf |-> [a \in {"p", "c1"} |-> << >>], j |-> 0,
                out |-> << >>, stdout |-> [a \in {"p", "c1"} |-> TRUE], ppid |-> "p", killed |-> FALSE]
  BY Zenon DEF Procs!OneChildInit, Procs!Start
<1>2. pc = [a \in {"p", "c1"} |-> IF a = "p" THEN "start" ELSE "absent"]
  BY <1>1 DEF Procs!Family
<1> DEFINE m == [a \in {"p", "c1"} |-> 1]  e == << >>  b == [a \in {"p", "c1"} |-> e]
           o == [a \in {"p", "c1"} |-> TRUE]  f == FALSE
<1>3. s = [argc |-> argc, reaped |-> {}, offset |-> 0, append |-> f, seen |-> e, report |-> "none",
           signals |-> 0, mem |-> m, buf |-> b, j |-> 0, out |-> e, stdout |-> o, ppid |-> "p", killed |-> f]
  BY <1>1
<1> HIDE DEF m, e, b, o, f
<1>4. /\ OneType /\ s.argc \in 1 .. MaxArgs /\ s.reaped = {} /\ s.seen = e /\ s.report = "none" /\ s.signals = 0
      /\ s.mem = m /\ s.buf = b /\ s.j = 0 /\ s.out = e /\ s.stdout = o
  BY <1>2, <1>3 DEF OneType, OnePlaces
<1>5. pc["p"] = "start" /\ pc["c1"] = "absent"
  BY <1>2
<1> QED
  BY <1>4, <1>5 DEF m, e, b, o

\* A child collected with wait()
LEMMA CollectStep ==
  ASSUME OneType, NEW from, NEW to, Procs!Collect(from, to)
  PROVE  /\ pc["p"] = from /\ pc' = [pc EXCEPT !["p"] = to]
         /\ pc["c1"] \in {"exit", "killed", "failed"} /\ s' = [s EXCEPT !.reaped = s.reaped \union {"c1"}]
  BY DEF Procs!Collect, Procs!Do, Procs!Go, Procs!Zombies, Procs!Reaped, Procs!Dead, Procs!Gone, Procs!Final

-----------------------------------------------------------------------------
(* fork_file_sharing.c *)

Appending == TRUE
FileSeen == <<1000, Appending>>

FileInv ==
  prog = "fork_file_sharing" =>
    /\ OneType /\ pc["c1"] \in {"absent", "lseek", "fcntl", "exit"}
    /\ pc["c1"] \in {"fcntl", "exit"} => s.offset = 1000
    /\ pc["c1"] = "exit" => s.append = Appending
    /\ pc["p"] \in {"look", "exit"} => pc["c1"] = "exit"
    /\ pc["p"] = "exit" => s.seen = FileSeen

LEMMA FileInit ==
  ASSUME Procs!OneChildInit
  PROVE  FileInv
  BY OneInit DEF FileInv

LEMMA FileStep ==
  ASSUME FileInv, prog = "fork_file_sharing", prog' = prog, NEW a \in DOMAIN pc, Procs!fork_file_sharing(a)
  PROVE  FileInv'
<1> USE DEF FileInv, OneType, OnePlaces, Procs!Go, Procs!Walk, Procs!Do, Procs!Fork
<1>1. CASE Procs!Do("c1", "lseek", "fcntl", [s EXCEPT !.offset = 1000])
  BY <1>1
<1>2. CASE Procs!Do("c1", "fcntl", "exit", [s EXCEPT !.append = TRUE])
  <2>1. s' = [s EXCEPT !.append = Appending]
    BY <1>2, Zenon DEF Appending
  <2>2. pc["c1"] = "fcntl" /\ pc' = [pc EXCEPT !["c1"] = "exit"]
    BY <1>2
  <2> QED
    BY <2>1, <2>2
<1>3. CASE Procs!Fork("p", "start", "wait", "c1", "lseek") /\ UNCHANGED s
  BY <1>3
<1>4. CASE Procs!Collect("wait", "look")
  BY <1>4, CollectStep
<1>5. CASE Procs!Do("p", "look", "exit", [s EXCEPT !.seen = <<s.offset, s.append>>])
  <2>1. <<s.offset, s.append>> = FileSeen
    <3>1. s.offset = 1000 /\ s.append = Appending
      BY <1>5
    <3> QED
      BY <3>1 DEF FileSeen
  <2>2. pc["p"] = "look" /\ pc' = [pc EXCEPT !["p"] = "exit"] /\ s' = [s EXCEPT !.seen = FileSeen]
    BY <1>5, <2>1
  <2> QED
    BY <2>2
<1> HIDE DEF FileInv, OneType, OnePlaces, Procs!Walk, Procs!Do, Procs!Fork
<1> QED
  BY <1>1, <1>2, <1>3, <1>4, <1>5 DEF Procs!fork_file_sharing

-----------------------------------------------------------------------------
(* child_status.c *)

StatusInv ==
  prog = "child_status" =>
    /\ OneType /\ s.seen \in Seq({"exited", "signalled", "stopped", "continued"})
    /\ s.report \in {"none", "exited", "signalled", "stopped", "continued"}
    /\ pc["p"] # "exit" => s.reaped = {}
    /\ pc["p"] = "exit" => /\ s.reaped = {"c1"}
                           /\ Len(s.seen) > 0 /\ s.seen[Len(s.seen)] \in {"exited", "signalled"}

LEMMA StatusInit ==
  ASSUME Procs!OneChildInit
  PROVE  StatusInv
<1>1. << >> \in Seq({"exited", "signalled", "stopped", "continued"})
  OBVIOUS
<1> QED
  BY <1>1, OneInit DEF StatusInv

LEMMA StatusStep ==
  ASSUME StatusInv, prog = "child_status", prog' = prog, NEW a \in DOMAIN pc, Procs!child_status(a)
  PROVE  StatusInv'
<1> USE DEF StatusInv, OneType, OnePlaces, Procs!Go, Procs!Walk, Procs!Do, Procs!Fork
<1>1. CASE Procs!Do("c1", "child", "exit", [s EXCEPT !.report = "exited"])
  BY <1>1
<1>2. CASE Procs!Walk("c1", "child", "pause")
  BY <1>2
<1>3. CASE Procs!Fork("p", "start", "waitpid", "c1", "child") /\ UNCHANGED s
  BY <1>3
<1>4. CASE /\ s.report \in {"exited", "signalled"}
           /\ Procs!Do("p", "waitpid", "exit", [Procs!Reaped("c1") EXCEPT !.seen = Append(@, s.report), !.report = "none"])
  <2>1. /\ s' = [s EXCEPT !.reaped = s.reaped \union {"c1"}, !.seen = Append(s.seen, s.report), !.report = "none"]
        /\ pc["p"] = "waitpid" /\ pc' = [pc EXCEPT !["p"] = "exit"]
    BY <1>4 DEF Procs!Reaped
  <2>2. OneType' /\ s'.reaped = {"c1"} /\ s'.seen = Append(s.seen, s.report) /\ s'.report = "none"
    BY <2>1
  <2>3. s.report \in {"exited", "signalled"} /\ s.seen \in Seq({"exited", "signalled", "stopped", "continued"})
    BY <1>4
  <2>4. /\ s'.seen \in Seq({"exited", "signalled", "stopped", "continued"}) /\ Len(s'.seen) > 0
        /\ s'.seen[Len(s'.seen)] = s.report
    BY <2>2, <2>3
  <2>5. pc'["p"] = "exit"
    BY <2>1
  <2> QED
    BY <2>2, <2>3, <2>4, <2>5
<1>5. CASE /\ s.report \in {"stopped", "continued"}
           /\ Procs!Do("p", "waitpid", "waitpid", [s EXCEPT !.seen = Append(@, s.report), !.report = "none"])
  <2>1. /\ s' = [s EXCEPT !.seen = Append(s.seen, s.report), !.report = "none"]
        /\ pc["p"] = "waitpid" /\ pc' = [pc EXCEPT !["p"] = "waitpid"]
    BY <1>5
  <2>2. OneType' /\ s'.reaped = s.reaped /\ s'.seen = Append(s.seen, s.report) /\ s'.report = "none"
    BY <2>1
  <2> QED
    BY <1>5, <2>1, <2>2
<1> QED
  BY <1>1, <1>2, <1>3, <1>4, <1>5 DEF Procs!child_status

LEMMA StatusSignal ==
  ASSUME StatusInv, prog' = prog, Procs!ChildSignalled
  PROVE  StatusInv'
<1>1. PICK r \in {"signalled", "stopped", "continued"}, from \in OnePlaces, to \in OnePlaces :
        pc["c1"] = from /\ pc' = [pc EXCEPT !["c1"] = to]
        /\ s' = [s EXCEPT !.report = r, !.signals = s.signals + 1]
  BY DEF Procs!ChildSignalled, StatusInv, OneType, OnePlaces, Procs!Do, Procs!Go
<1>2. StatusInv /\ prog = "child_status" /\ OneType
  BY DEF Procs!ChildSignalled, StatusInv
<1>3. OneType' /\ s'.reaped = s.reaped /\ s'.seen = s.seen /\ s'.report = r /\ pc'["p"] = pc["p"]
  BY <1>1, <1>2 DEF OneType, OnePlaces
<1> QED
  BY <1>2, <1>3 DEF StatusInv

-----------------------------------------------------------------------------
(* make_zombie.c, orphan.c *)

ZombieInv ==
  prog = "make_zombie" =>
    /\ OneType /\ s.reaped = {} /\ s.killed \in BOOLEAN
    /\ pc["p"] \in {"start", "ps", "kill", "ps2", "exit"} /\ pc["c1"] \in {"absent", "child", "exit", "killed"}
    /\ pc["p"] \in {"ps", "kill"} => pc["c1"] \in {"child", "exit"}
    /\ pc["p"] \in {"ps2", "exit"} => pc["c1"] \in {"exit", "killed"} /\ (s.killed <=> pc["c1"] = "killed")
    /\ pc["p"] = "exit" => s.seen = <<TRUE>>

LEMMA ZombieInit ==
  ASSUME Procs!OneChildInit
  PROVE  ZombieInv
<1>1. s.killed = FALSE
  BY DEF Procs!OneChildInit, Procs!Start
<1> QED
  BY <1>1, OneInit DEF ZombieInv

LEMMA ZombieStep ==
  ASSUME ZombieInv, prog = "make_zombie", prog' = prog, NEW a \in DOMAIN pc, Procs!make_zombie(a)
  PROVE  ZombieInv'
<1> USE DEF ZombieInv, OneType, OnePlaces, Procs!Go, Procs!Walk, Procs!Do, Procs!Fork, Procs!Dead, Procs!Gone, Procs!Final
<1>1. CASE Procs!Walk("c1", "child", "exit")
  BY <1>1
<1>2. CASE Procs!Fork("p", "start", "ps", "c1", "child") /\ UNCHANGED s
  BY <1>2
<1>3. CASE Procs!Walk("p", "ps", "kill")
  BY <1>3
<1>4. CASE /\ pc["p"] = "kill" /\ s' = [s EXCEPT !.killed = ~Procs!Dead("c1")]
           /\ pc' = [p |-> "ps2", c1 |-> IF Procs!Dead("c1") THEN pc["c1"] ELSE "killed"]
  <2>1. CASE pc["c1"] = "exit"
    <3> DEFINE k == FALSE
    <3>1. s' = [s EXCEPT !.killed = k] /\ pc' = [p |-> "ps2", c1 |-> "exit"]
      BY <1>4, <2>1
    <3> HIDE DEF k
    <3>2. OneType' /\ s'.killed = k /\ s'.reaped = s.reaped
      BY <3>1
    <3> USE DEF k
    <3> QED
      BY <3>1, <3>2
  <2>2. CASE pc["c1"] = "child"
    <3> DEFINE k == TRUE
    <3>1. s' = [s EXCEPT !.killed = k] /\ pc' = [p |-> "ps2", c1 |-> "killed"]
      BY <1>4, <2>2
    <3> HIDE DEF k
    <3>2. OneType' /\ s'.killed = k /\ s'.reaped = s.reaped
      BY <3>1
    <3> USE DEF k
    <3> QED
      BY <3>1, <3>2
  <2> QED
    BY <1>4, <2>1, <2>2
<1>5. CASE Procs!Do("p", "ps2", "exit", [s EXCEPT !.seen = <<"c1" \in Procs!Zombies>>])
  BY <1>5 DEF Procs!Zombies, Procs!Children
<1> QED
  BY <1>1, <1>2, <1>3, <1>4, <1>5 DEF Procs!make_zombie

OrphanInv == prog = "orphan" => OneType /\ (pc["p"] = "exit" => s.ppid = "init")

LEMMA OrphanInit ==
  ASSUME Procs!OneChildInit
  PROVE  OrphanInv
  BY OneInit DEF OrphanInv

LEMMA OrphanStep ==
  ASSUME OrphanInv, prog = "orphan", prog' = prog, NEW a \in DOMAIN pc, Procs!orphan(a)
  PROVE  OrphanInv'
  BY DEF OrphanInv, OneType, OnePlaces, Procs!orphan, Procs!Go, Procs!Walk, Procs!Do, Procs!Fork

-----------------------------------------------------------------------------
(* fork_whos_on_first.c: in each round both print, in one order or the other *)

Lines == {"child", "parent"} \X Nat

\* what is printed before and in this round
Printed ==
  {l \in Lines : \/ l[2] < s.j
                 \/ l[2] = s.j /\ l[1] = "child" /\ pc["c1"] = "exit"
                 \/ l[2] = s.j /\ l[1] = "parent" /\ pc["p"] = "wait"}

WhosType ==
  /\ OneType /\ s.out \in Seq(Lines) /\ s.j \in Nat /\ s.argc \in Nat
  /\ pc["p"] \in {"start", "parent", "wait", "exit"} /\ pc["c1"] \in {"absent", "child", "exit"}
  /\ pc["p"] \in {"start", "exit"} => pc["c1"] = "absent"
  /\ pc["p"] = "exit" => s.j = s.argc

WhosOut ==
  /\ \A l \in Lines : l \in Printed <=> \E i \in DOMAIN s.out : s.out[i] = l
  /\ \A i, k \in DOMAIN s.out : i < k => s.out[i][2] <= s.out[k][2]

WhosInv == prog = "fork_whos_on_first" => WhosType /\ WhosOut

LEMMA WhosInit ==
  ASSUME Procs!OneChildInit, ProcessesAssumption
  PROVE  WhosInv
<1>1. << >> \in Seq(Lines)
  OBVIOUS
<1>2. WhosType /\ s.out = << >> /\ s.j = 0
  <2>1. /\ OneType /\ s.out = << >> /\ s.j = 0 /\ s.argc \in 1 .. MaxArgs
        /\ pc["p"] = "start" /\ pc["c1"] = "absent"
    BY OneInit
  <2>2. s.argc \in Nat
    BY <2>1 DEF ProcessesAssumption
  <2> QED
    BY <1>1, <2>1, <2>2 DEF WhosType
<1>3. Printed = {}
  BY <1>2, OneInit DEF Printed, Lines
<1>4. DOMAIN s.out = {}
  BY <1>2
<1> QED
  BY <1>2, <1>3, <1>4 DEF WhosInv, WhosOut

\* One more line printed in this round
LEMMA WhosPrints ==
  ASSUME WhosType, WhosOut, NEW w \in {"child", "parent"}, s'.out = Append(s.out, <<w, s.j>>), s'.j = s.j,
         \A l \in Lines : l \in Printed' <=> l \in Printed \/ l = <<w, s.j>>
  PROVE  s'.out \in Seq(Lines) /\ WhosOut'
<1> DEFINE n == Len(s.out)  line == <<w, s.j>>
<1>0. line \in Lines /\ line[2] = s.j /\ s.j \in Nat
  BY DEF WhosType, Lines
<1> HIDE DEF line
<1>1. s.out \in Seq(Lines) /\ n \in Nat /\ DOMAIN s.out = 1 .. n
  BY DEF WhosType
<1>2. s'.out \in Seq(Lines) /\ DOMAIN s'.out = 1 .. n + 1 /\ s'.out[n + 1] = line
  BY <1>0, <1>1 DEF line
<1>3. \A i \in 1 .. n : s'.out[i] = s.out[i]
  BY <1>0, <1>1 DEF line
<1> HIDE DEF n
<1>4. \A i \in 1 .. n : s.out[i] \in Lines /\ s.out[i][2] \in Nat /\ s.out[i][2] <= s.j
  <2> TAKE i \in 1 .. n
  <2>1. s.out[i] \in Lines
    BY <1>1
  <2>2. s.out[i] \in Printed
    BY <2>1, <1>1 DEF WhosOut
  <2> QED
    BY <2>1, <2>2, <1>0 DEF Printed, Lines
<1>5. \A l \in Lines : l \in Printed' <=> \E i \in DOMAIN s'.out : s'.out[i] = l
  <2> TAKE l \in Lines
  <2>1. l \in Printed => \E i \in DOMAIN s'.out : s'.out[i] = l
    BY <1>1, <1>2, <1>3 DEF WhosOut
  <2>2. (\E i \in DOMAIN s'.out : s'.out[i] = l) => l \in Printed \/ l = line
    BY <1>1, <1>2, <1>3 DEF WhosOut
  <2>3. l = line => \E i \in DOMAIN s'.out : s'.out[i] = l
    BY <1>1, <1>2
  <2> QED
    BY <2>1, <2>2, <2>3 DEF line
<1>6. \A i, k \in DOMAIN s'.out : i < k => s'.out[i][2] <= s'.out[k][2]
  <2> TAKE i, k \in DOMAIN s'.out
  <2> HAVE i < k
  <2>1. i \in 1 .. n /\ s'.out[i] = s.out[i]
    BY <1>1, <1>2, <1>3
  <2>2. CASE k \in 1 .. n
    BY <1>1, <1>3, <2>1, <2>2 DEF WhosOut
  <2>3. CASE k = n + 1
    BY <1>0, <1>2, <1>4, <2>1, <2>3
  <2> QED
    BY <1>1, <1>2, <2>2, <2>3
<1> QED
  BY <1>2, <1>5, <1>6 DEF WhosOut

LEMMA WhosStep ==
  ASSUME WhosInv, prog = "fork_whos_on_first", prog' = prog, NEW a \in DOMAIN pc, Procs!fork_whos_on_first(a)
  PROVE  WhosInv'
<1>0. WhosType /\ WhosOut
  BY DEF WhosInv
<1>1. CASE Procs!Do("c1", "child", "exit", [s EXCEPT !.out = Append(@, <<"child", s.j>>)])
  <2>1. /\ pc["c1"] = "child" /\ pc' = [pc EXCEPT !["c1"] = "exit"]
        /\ s' = [s EXCEPT !.out = Append(s.out, <<"child", s.j>>)]
    BY <1>1 DEF Procs!Do, Procs!Go
  <2> DEFINE o == Append(s.out, <<"child", s.j>>)
  <2>2. OneType' /\ s'.out = o /\ s'.j = s.j /\ s'.argc = s.argc
    <3> HIDE DEF o
    <3>1. s' = [s EXCEPT !.out = o]
      BY <2>1 DEF o
    <3> QED
      BY <1>0, <2>1, <3>1 DEF WhosType, OneType, OnePlaces
  <2>3. \A l \in Lines : l \in Printed' <=> l \in Printed \/ l = <<"child", s.j>>
    BY <1>0, <2>1, <2>2 DEF Printed, Lines, WhosType, OneType
  <2>4. s'.out \in Seq(Lines) /\ WhosOut'
    BY <1>0, <2>2, <2>3, WhosPrints
  <2>5. WhosType'
    BY <1>0, <2>1, <2>2, <2>4 DEF WhosType, OneType
  <2> QED
    BY <2>4, <2>5 DEF WhosInv
<1>2. CASE Procs!Fork("p", "start", "parent", "c1", "child") /\ s.j < s.argc /\ UNCHANGED s
  <2>1. WhosType' /\ s' = s
    BY <1>0, <1>2 DEF WhosType, OneType, OnePlaces, Procs!Fork
  <2>2. \A l \in Lines : l \in Printed' <=> l \in Printed
    BY <1>0, <1>2, <2>1 DEF Printed, WhosType, OneType, Procs!Fork
  <2> QED
    BY <1>0, <2>1, <2>2 DEF WhosInv, WhosOut
<1>3. CASE Procs!Do("p", "parent", "wait", [s EXCEPT !.out = Append(@, <<"parent", s.j>>)])
  <2>1. /\ pc["p"] = "parent" /\ pc' = [pc EXCEPT !["p"] = "wait"]
        /\ s' = [s EXCEPT !.out = Append(s.out, <<"parent", s.j>>)]
    BY <1>3 DEF Procs!Do, Procs!Go
  <2> DEFINE o == Append(s.out, <<"parent", s.j>>)
  <2>2. OneType' /\ s'.out = o /\ s'.j = s.j /\ s'.argc = s.argc
    <3> HIDE DEF o
    <3>1. s' = [s EXCEPT !.out = o]
      BY <2>1 DEF o
    <3> QED
      BY <1>0, <2>1, <3>1 DEF WhosType, OneType, OnePlaces
  <2>3. \A l \in Lines : l \in Printed' <=> l \in Printed \/ l = <<"parent", s.j>>
    BY <1>0, <2>1, <2>2 DEF Printed, Lines, WhosType, OneType
  <2>4. s'.out \in Seq(Lines) /\ WhosOut'
    BY <1>0, <2>2, <2>3, WhosPrints
  <2>5. WhosType'
    BY <1>0, <2>1, <2>2, <2>4 DEF WhosType, OneType
  <2> QED
    BY <2>4, <2>5 DEF WhosInv
<1>4. CASE /\ pc = [p |-> "wait", c1 |-> "exit"] /\ pc' = [p |-> "start", c1 |-> "absent"]
           /\ s' = [s EXCEPT !.j = @ + 1]
  <2>1. WhosType' /\ s'.j = s.j + 1 /\ s'.out = s.out
    BY <1>0, <1>4 DEF WhosType, OneType, OnePlaces
  <2>2. /\ pc["p"] = "wait" /\ pc["c1"] = "exit" /\ pc'["p"] = "start" /\ pc'["c1"] = "absent"
    BY <1>4
  <2>3. \A l \in Lines : l \in Printed' <=> l \in Printed
    BY <1>0, <2>1, <2>2 DEF Printed, Lines, WhosType
  <2> QED
    BY <1>0, <2>1, <2>3 DEF WhosInv, WhosOut
<1>5. CASE Procs!Walk("p", "start", "exit") /\ s.j = s.argc
  <2>1. WhosType' /\ s' = s
    BY <1>0, <1>5 DEF WhosType, OneType, OnePlaces, Procs!Walk, Procs!Go
  <2>2. \A l \in Lines : l \in Printed' <=> l \in Printed
    BY <1>0, <1>5, <2>1 DEF Printed, WhosType, OneType, Procs!Walk, Procs!Go
  <2> QED
    BY <1>0, <2>1, <2>2 DEF WhosInv, WhosOut
<1> QED
  BY <1>1, <1>2, <1>3, <1>4, <1>5 DEF Procs!fork_whos_on_first

\* Both printed in every round, and the rounds come in order
LEMMA WhosPrinted ==
  ASSUME WhosInv, prog = "fork_whos_on_first", pc["p"] = "exit"
  PROVE  /\ {s.out[i] : i \in DOMAIN s.out} = {"child", "parent"} \X (0 .. s.argc - 1)
         /\ \A i, k \in DOMAIN s.out : i < k => s.out[i][2] <= s.out[k][2]
<1>0. WhosType /\ WhosOut
  BY DEF WhosInv
<1>1. \A i \in DOMAIN s.out : s.out[i] \in Lines
  BY <1>0 DEF WhosType
<1>2. \A l \in Lines : l \in Printed <=> l \in {"child", "parent"} \X (0 .. s.argc - 1)
  BY <1>0 DEF WhosType, Printed, Lines
<1>3. \A l : l \in {"child", "parent"} \X (0 .. s.argc - 1) => l \in Lines
  BY <1>0 DEF WhosType, Lines
<1> QED
  BY <1>0, <1>1, <1>2, <1>3 DEF WhosOut

-----------------------------------------------------------------------------
(* footprint.c, t_fork.c *)

FootInv ==
  prog = "footprint" =>
    /\ OneType /\ s.mem \in [{"p", "c1"} -> Int] /\ s.mem["p"] = 1
    /\ pc["c1"] \in {"absent", "func", "exit"}
    /\ pc["c1"] = "exit" => s.j = s.argc
    /\ pc["p"] \in {"print", "exit"} => pc["c1"] = "exit"
    /\ pc["p"] = "exit" => s.seen = <<1, s.argc>>

LEMMA FootInit ==
  ASSUME Procs!OneChildInit
  PROVE  FootInv
<1>1. OneType /\ s.mem = [a \in {"p", "c1"} |-> 1] /\ pc["p"] = "start" /\ pc["c1"] = "absent"
  BY OneInit
<1> QED
  BY <1>1 DEF FootInv

LEMMA FootStep ==
  ASSUME FootInv, prog = "footprint", prog' = prog, NEW a \in DOMAIN pc, Procs!footprint(a)
  PROVE  FootInv'
<1> USE DEF FootInv, OneType, OnePlaces, Procs!Go, Procs!Walk, Procs!Do, Procs!Fork
<1>1. CASE Procs!Do("c1", "func", "exit", [s EXCEPT !.mem["c1"] = @ + 256, !.j = s.argc])
  <2> DEFINE m == [s.mem EXCEPT !["c1"] = s.mem["c1"] + 256]
  <2>1. /\ pc["c1"] = "func" /\ pc' = [pc EXCEPT !["c1"] = "exit"]
        /\ s' = [s EXCEPT !.mem = m, !.j = s.argc]
    BY <1>1
  <2>2. m \in [{"p", "c1"} -> Int] /\ m["p"] = 1
    OBVIOUS
  <2> HIDE DEF m
  <2>3. OneType' /\ s'.mem = m /\ s'.j = s.argc /\ s'.argc = s.argc /\ s'.seen = s.seen
    BY <2>1
  <2> QED
    BY <2>1, <2>2, <2>3
<1>2. CASE Procs!Fork("p", "start", "wait", "c1", "func") /\ UNCHANGED s
  BY <1>2
<1>3. CASE Procs!Collect("wait", "print")
  <2>1. /\ pc["p"] = "wait" /\ pc' = [pc EXCEPT !["p"] = "print"] /\ pc["c1"] = "exit"
        /\ s' = [s EXCEPT !.reaped = s.reaped \union {"c1"}]
    BY <1>3, CollectStep
  <2> QED
    BY <2>1
<1>4. CASE Procs!Do("p", "print", "exit", [s EXCEPT !.seen = <<s.mem["p"], s.j>>])
  <2> DEFINE x == <<s.mem["p"], s.j>>
  <2>1. pc["p"] = "print" /\ pc' = [pc EXCEPT !["p"] = "exit"] /\ s' = [s EXCEPT !.seen = x]
    BY <1>4
  <2>2. x = <<1, s.argc>>
    BY <2>1
  <2> HIDE DEF x
  <2>3. OneType' /\ s'.mem = s.mem /\ s'.j = s.j /\ s'.argc = s.argc /\ s'.seen = x
    BY <2>1
  <2> QED
    BY <2>1, <2>2, <2>3
<1> HIDE DEF FootInv, OneType, OnePlaces, Procs!Walk, Procs!Do, Procs!Fork
<1> QED
  BY <1>1, <1>2, <1>3, <1>4 DEF Procs!footprint

ForkLines == {"p", "c1"} \X Int
ForkLine == <<"p", 1>>

ForkInv ==
  prog = "t_fork" =>
    /\ OneType /\ s.mem \in [{"p", "c1"} -> Int] /\ s.mem["p"] = 1 /\ s.out \in Seq(ForkLines)
    /\ pc["p"] = "exit" => \E i \in DOMAIN s.out : s.out[i] = ForkLine

LEMMA ForkInit ==
  ASSUME Procs!OneChildInit
  PROVE  ForkInv
<1>1. /\ OneType /\ s.mem = [a \in {"p", "c1"} |-> 1] /\ s.out = << >>
      /\ pc["p"] = "start" /\ pc["c1"] = "absent"
  BY OneInit
<1>2. << >> \in Seq(ForkLines)
  OBVIOUS
<1> QED
  BY <1>1, <1>2 DEF ForkInv

LEMMA ForkStep ==
  ASSUME ForkInv, prog = "t_fork", prog' = prog, NEW a \in DOMAIN pc, Procs!t_fork(a)
  PROVE  ForkInv'
<1> USE DEF ForkInv, OneType, OnePlaces, Procs!Go, Procs!Walk, Procs!Do, Procs!Fork
<1>1. CASE Procs!Do("c1", "child", "print", [s EXCEPT !.mem["c1"] = @ * 3])
  <2> DEFINE m == [s.mem EXCEPT !["c1"] = s.mem["c1"] * 3]
  <2>1. pc["c1"] = "child" /\ pc' = [pc EXCEPT !["c1"] = "print"] /\ s' = [s EXCEPT !.mem = m]
    BY <1>1
  <2>2. m \in [{"p", "c1"} -> Int] /\ m["p"] = 1
    OBVIOUS
  <2> HIDE DEF m
  <2>3. OneType' /\ s'.mem = m /\ s'.out = s.out
    BY <2>1
  <2> QED
    BY <2>1, <2>2, <2>3
<1>2. CASE Procs!Do("c1", "print", "exit", [s EXCEPT !.out = Append(@, <<"c1", s.mem["c1"]>>)])
  <2> DEFINE l == <<"c1", s.mem["c1"]>>  o == Append(s.out, l)
  <2>1. pc["c1"] = "print" /\ pc' = [pc EXCEPT !["c1"] = "exit"] /\ s' = [s EXCEPT !.out = o]
    BY <1>2
  <2>2. l \in ForkLines
    BY DEF ForkLines
  <2> HIDE DEF l
  <2>3. o \in Seq(ForkLines) /\ DOMAIN s.out \subseteq DOMAIN o /\ \A i \in DOMAIN s.out : o[i] = s.out[i]
    BY <2>2
  <2> HIDE DEF o
  <2>4. OneType' /\ s'.mem = s.mem /\ s'.out = o
    BY <2>1
  <2> QED
    BY <2>1, <2>3, <2>4
<1>3. CASE Procs!Fork("p", "start", "sleep", "c1", "child") /\ UNCHANGED s
  BY <1>3
<1>4. CASE Procs!Do("p", "sleep", "exit", [s EXCEPT !.out = Append(@, <<"p", s.mem["p"]>>)])
  <2> DEFINE l == <<"p", s.mem["p"]>>  o == Append(s.out, l)
  <2>1. pc["p"] = "sleep" /\ pc' = [pc EXCEPT !["p"] = "exit"] /\ s' = [s EXCEPT !.out = o]
    BY <1>4
  <2>2. l \in ForkLines /\ l = ForkLine
    BY DEF ForkLines, ForkLine
  <2> HIDE DEF l
  <2>3. o \in Seq(ForkLines) /\ Len(s.out) + 1 \in DOMAIN o /\ o[Len(s.out) + 1] = l
    BY <2>2
  <2> HIDE DEF o
  <2>4. OneType' /\ s'.mem = s.mem /\ s'.out = o
    BY <2>1
  <2> QED
    BY <2>1, <2>2, <2>3, <2>4
<1> HIDE DEF ForkInv, OneType, OnePlaces, Procs!Walk, Procs!Do, Procs!Fork
<1> QED
  BY <1>1, <1>2, <1>3, <1>4 DEF Procs!t_fork

(* Short sequences *)

LEMMA AppendSecond ==
  ASSUME NEW x, NEW y
  PROVE  Append(<<x>>, y) = <<x, y>>
<1> DEFINE T == {x, y}  A == Append(<<x>>, y)  B == <<x, y>>
<1>1. <<x>> \in Seq(T) /\ y \in T
  OBVIOUS
<1>2. A \in Seq(T) /\ Len(A) = 2 /\ A[1] = x /\ A[2] = y
  BY <1>1
<1>3. B \in Seq(T) /\ Len(B) = 2 /\ B[1] = x /\ B[2] = y
  OBVIOUS
<1> HIDE DEF A, B, T
<1>4. A = B
  BY <1>2, <1>3, SeqEqual
<1> QED
  BY <1>4 DEF A, B

LEMMA AppendThird ==
  ASSUME NEW x, NEW y, NEW z
  PROVE  Append(<<x, y>>, z) = <<x, y, z>>
<1> DEFINE T == {x, y, z}  A == Append(<<x, y>>, z)  B == <<x, y, z>>
<1>1. <<x, y>> \in Seq(T) /\ z \in T
  OBVIOUS
<1>2. A \in Seq(T) /\ Len(A) = 3 /\ A[1] = x /\ A[2] = y /\ A[3] = z
  BY <1>1
<1>3. B \in Seq(T) /\ Len(B) = 3 /\ B[1] = x /\ B[2] = y /\ B[3] = z
  OBVIOUS
<1> HIDE DEF A, B, T
<1>4. A = B
  BY <1>2, <1>3, SeqEqual
<1> QED
  BY <1>4 DEF A, B

LEMMA ConcatSecond ==
  ASSUME NEW x, NEW y
  PROVE  <<x>> \o <<y>> = <<x, y>>
<1> DEFINE T == {x, y}  A == <<x>> \o <<y>>  B == <<x, y>>
<1>1. <<x>> \in Seq(T) /\ <<y>> \in Seq(T)
  OBVIOUS
<1>2. A \in Seq(T) /\ Len(A) = 2 /\ A[1] = x /\ A[2] = y
  BY <1>1
<1>3. B \in Seq(T) /\ Len(B) = 2 /\ B[1] = x /\ B[2] = y
  OBVIOUS
<1> HIDE DEF A, B, T
<1>4. A = B
  BY <1>2, <1>3, SeqEqual
<1> QED
  BY <1>4 DEF A, B

LEMMA ConcatThird ==
  ASSUME NEW x, NEW y, NEW z
  PROVE  <<x, y>> \o <<z>> = <<x, y, z>>
<1> DEFINE T == {x, y, z}  A == <<x, y>> \o <<z>>  B == <<x, y, z>>
<1>1. <<x, y>> \in Seq(T) /\ <<z>> \in Seq(T)
  OBVIOUS
<1>2. A \in Seq(T) /\ Len(A) = 3 /\ A[1] = x /\ A[2] = y /\ A[3] = z
  BY <1>1
<1>3. B \in Seq(T) /\ Len(B) = 3 /\ B[1] = x /\ B[2] = y /\ B[3] = z
  OBVIOUS
<1> HIDE DEF A, B, T
<1>4. A = B
  BY <1>2, <1>3, SeqEqual
<1> QED
  BY <1>4 DEF A, B

-----------------------------------------------------------------------------
(* t_vfork.c *)

VforkOut(n) == IF n = 0 THEN << >> ELSE IF n = 1 THEN <<"child">> ELSE <<"child", "parent">>
VforkSeen == <<3>>

LEMMA VforkOuts ==
  /\ VforkOut(0) = << >> /\ VforkOut(2) = <<"child", "parent">>
  /\ Append(VforkOut(0), "child") = VforkOut(1) /\ Append(VforkOut(1), "parent") = VforkOut(2)
<1>1. Append(<< >>, "child") = <<"child">>
  OBVIOUS
<1>2. Append(<<"child">>, "parent") = <<"child", "parent">>
  BY AppendSecond
<1> QED
  BY <1>1, <1>2 DEF VforkOut

VforkInv ==
  prog = "t_vfork" =>
    /\ OneType /\ s.mem \in [{"p", "c1"} -> Int]
    /\ pc["p"] \in {"start", "vfork", "print", "exit"} /\ pc["c1"] \in {"absent", "child", "times", "exit"}
    /\ pc["p"] \in {"print", "exit"} => pc["c1"] = "exit"
    /\ pc["c1"] \in {"absent", "child"} => s.out = VforkOut(0) /\ s.mem["p"] = 1
    /\ pc["c1"] = "times" => s.out = VforkOut(1) /\ s.mem["p"] = 1
    /\ pc["c1"] = "exit" => s.mem["p"] = 3
    /\ pc["c1"] = "exit" /\ pc["p"] # "exit" => s.out = VforkOut(1)
    /\ pc["p"] = "exit" => s.out = VforkOut(2) /\ s.seen = VforkSeen

LEMMA VforkInit ==
  ASSUME Procs!OneChildInit
  PROVE  VforkInv
<1>1. /\ OneType /\ s.mem = [a \in {"p", "c1"} |-> 1] /\ s.out = VforkOut(0)
      /\ pc["p"] = "start" /\ pc["c1"] = "absent"
  BY OneInit, VforkOuts
<1> QED
  BY <1>1 DEF VforkInv

LEMMA VforkStep ==
  ASSUME VforkInv, prog = "t_vfork", prog' = prog, NEW a \in DOMAIN pc, Procs!t_vfork(a)
  PROVE  VforkInv'
<1> USE DEF VforkInv, OneType, OnePlaces, Procs!Go, Procs!Walk, Procs!Do, Procs!Fork
<1>1. CASE Procs!Do("c1", "child", "times", [s EXCEPT !.out = Append(@, "child")])
  <2> DEFINE o == Append(s.out, "child")
  <2>1. pc["c1"] = "child" /\ pc' = [pc EXCEPT !["c1"] = "times"] /\ s' = [s EXCEPT !.out = o]
    BY <1>1
  <2>2. o = VforkOut(1)
    BY <2>1, VforkOuts
  <2> HIDE DEF o
  <2>3. OneType' /\ s'.mem = s.mem /\ s'.out = o
    BY <2>1
  <2> QED
    BY <2>1, <2>2, <2>3
<1>2. CASE Procs!Do("c1", "times", "exit", [s EXCEPT !.mem["p"] = @ * 3])
  <2> DEFINE m == [s.mem EXCEPT !["p"] = s.mem["p"] * 3]
  <2>1. pc["c1"] = "times" /\ pc' = [pc EXCEPT !["c1"] = "exit"] /\ s' = [s EXCEPT !.mem = m]
    BY <1>2
  <2>2. m \in [{"p", "c1"} -> Int] /\ m["p"] = 3
    BY <2>1
  <2> HIDE DEF m
  <2>3. OneType' /\ s'.mem = m /\ s'.out = s.out
    BY <2>1
  <2> QED
    BY <2>1, <2>2, <2>3
<1>3. CASE Procs!Fork("p", "start", "vfork", "c1", "child") /\ UNCHANGED s
  BY <1>3
<1>4. CASE Procs!Walk("p", "vfork", "print") /\ Procs!Dead("c1")
  BY <1>4 DEF Procs!Dead, Procs!Gone, Procs!Final
<1>5. CASE Procs!Do("p", "print", "exit", [s EXCEPT !.out = Append(@, "parent"), !.seen = <<s.mem["p"]>>])
  <2> DEFINE o == Append(s.out, "parent")  x == <<s.mem["p"]>>
  <2>1. pc["p"] = "print" /\ pc' = [pc EXCEPT !["p"] = "exit"] /\ s' = [s EXCEPT !.out = o, !.seen = x]
    BY <1>5
  <2>2. o = VforkOut(2) /\ x = VforkSeen
    BY <2>1, VforkOuts DEF VforkSeen
  <2> HIDE DEF o, x
  <2>3. OneType' /\ s'.mem = s.mem /\ s'.out = o /\ s'.seen = x
    BY <2>1
  <2> QED
    BY <2>1, <2>2, <2>3
<1> HIDE DEF VforkInv, OneType, OnePlaces, Procs!Walk, Procs!Do, Procs!Fork
<1> QED
  BY <1>1, <1>2, <1>3, <1>4, <1>5 DEF Procs!t_vfork

-----------------------------------------------------------------------------
(* vfork_fd_test.c *)

Yes == TRUE
No == FALSE
Closes(n) == CASE n = 0 -> << >>
               [] n = 1 -> <<<<"c1", Yes>>>>
               [] n = 2 -> <<<<"c1", Yes>>, <<"p", Yes>>>>
               [] OTHER -> <<<<"c1", Yes>>, <<"p", Yes>>, <<"p", No>>>>

LEMMA ClosesGrow ==
  /\ Closes(0) = << >> /\ Append(Closes(0), <<"c1", Yes>>) = Closes(1)
  /\ Append(Closes(1), <<"p", Yes>>) = Closes(2)
  /\ Append(Closes(2), <<"p", No>>) = Closes(3)
  /\ Closes(3) = <<<<"c1", TRUE>>, <<"p", TRUE>>, <<"p", FALSE>>>>
<1>1. \A x : Append(<< >>, x) = <<x>>
  OBVIOUS
<1>2. \A x, y : Append(<<x>>, y) = <<x, y>>
  BY AppendSecond
<1>3. \A x, y, z : Append(<<x, y>>, z) = <<x, y, z>>
  BY AppendThird
<1>4. /\ Closes(0) = << >> /\ Closes(1) = <<<<"c1", Yes>>>> /\ Closes(2) = <<<<"c1", Yes>>, <<"p", Yes>>>>
      /\ Closes(3) = <<<<"c1", Yes>>, <<"p", Yes>>, <<"p", No>>>>
  BY DEF Closes
<1>5. <<<<"c1", Yes>>, <<"p", Yes>>, <<"p", No>>>> = <<<<"c1", TRUE>>, <<"p", TRUE>>, <<"p", FALSE>>>>
  BY Zenon DEF Yes, No
<1>6. Append(Closes(0), <<"c1", Yes>>) = Closes(1)
  BY <1>1, <1>4, Zenon
<1>7. Append(Closes(1), <<"p", Yes>>) = Closes(2)
  BY <1>2, <1>4, Zenon
<1>8. Append(Closes(2), <<"p", No>>) = Closes(3)
  BY <1>3, <1>4, Zenon
<1>9. Closes(3) = <<<<"c1", TRUE>>, <<"p", TRUE>>, <<"p", FALSE>>>>
  BY <1>4, <1>5, Zenon
<1> QED
  BY <1>4, <1>6, <1>7, <1>8, <1>9, Zenon

FdInv ==
  prog = "vfork_fd_test" =>
    /\ OneType /\ s.stdout = [a \in {"p", "c1"} |-> s.stdout[a]]
    /\ pc["p"] \in {"start", "vfork", "close1", "close2", "exit"} /\ pc["c1"] \in {"absent", "child", "exit"}
    /\ pc["p"] \in {"close1", "close2", "exit"} => pc["c1"] = "exit"
    /\ pc["c1"] # "exit" => s.stdout["c1"] = Yes /\ s.seen = Closes(0)
    /\ pc["p"] \in {"start", "vfork", "close1"} => s.stdout["p"] = Yes
    /\ pc["p"] \in {"start", "vfork", "close1"} /\ pc["c1"] = "exit" => s.seen = Closes(1)
    /\ pc["p"] = "close2" => s.stdout["p"] = No /\ s.seen = Closes(2)
    /\ pc["p"] = "exit" => s.seen = Closes(3)

LEMMA FdInit ==
  ASSUME Procs!OneChildInit
  PROVE  FdInv
<1>1. /\ OneType /\ s.seen = Closes(0) /\ pc["p"] = "start" /\ pc["c1"] = "absent"
      /\ s.stdout = [a \in {"p", "c1"} |-> Yes]
  BY OneInit, ClosesGrow, Zenon DEF Yes
<1> QED
  BY <1>1 DEF FdInv

\* close(): the descriptor of this process, and what the call said
LEMMA FdClose ==
  ASSUME FdInv, prog = "vfork_fd_test", NEW who \in {"p", "c1"}, NEW from, NEW to \in OnePlaces,
         pc[who] = from, pc' = [pc EXCEPT ![who] = to],
         s' = [s EXCEPT !.stdout[who] = FALSE, !.seen = Append(@, <<who, s.stdout[who]>>)]
  PROVE  /\ OneType' /\ s'.stdout = [s.stdout EXCEPT ![who] = No]
         /\ s'.seen = Append(s.seen, <<who, s.stdout[who]>>)
<1> DEFINE d == [s.stdout EXCEPT ![who] = FALSE]  x == Append(s.seen, <<who, s.stdout[who]>>)
<1>1. s' = [s EXCEPT !.stdout = d, !.seen = x]
  OBVIOUS
<1>2. d = [s.stdout EXCEPT ![who] = No]
  BY Zenon DEF No
<1> HIDE DEF d, x
<1>3. OneType' /\ s'.stdout = d /\ s'.seen = x
  BY <1>1 DEF FdInv, OneType, OnePlaces
<1> QED
  BY <1>2, <1>3 DEF x

LEMMA FdStep ==
  ASSUME FdInv, prog = "vfork_fd_test", prog' = prog, NEW a \in DOMAIN pc, Procs!vfork_fd_test(a)
  PROVE  FdInv'
<1> DEFINE Close(who, from, to) ==
             Procs!Do(who, from, to, [s EXCEPT !.stdout[who] = FALSE, !.seen = Append(@, <<who, s.stdout[who]>>)])
<1>1. CASE Close("c1", "child", "exit")
  <2>1. /\ pc["c1"] = "child" /\ pc' = [pc EXCEPT !["c1"] = "exit"] /\ OneType'
        /\ s'.stdout = [s.stdout EXCEPT !["c1"] = No] /\ s'.seen = Append(s.seen, <<"c1", s.stdout["c1"]>>)
    BY <1>1, FdClose DEF Procs!Do, Procs!Go, OnePlaces
  <2>2. s'.seen = Closes(1)
    BY <2>1, ClosesGrow DEF FdInv
  <2> QED
    BY <2>1, <2>2 DEF FdInv, OneType
<1>2. CASE Procs!Fork("p", "start", "vfork", "c1", "child") /\ UNCHANGED s
  BY <1>2 DEF FdInv, OneType, OnePlaces, Procs!Fork
<1>3. CASE Procs!Walk("p", "vfork", "close1") /\ Procs!Dead("c1")
  BY <1>3 DEF FdInv, OneType, OnePlaces, Procs!Walk, Procs!Go, Procs!Dead, Procs!Gone, Procs!Final
<1>4. CASE Close("p", "close1", "close2")
  <2>1. /\ pc["p"] = "close1" /\ pc' = [pc EXCEPT !["p"] = "close2"] /\ OneType'
        /\ s'.stdout = [s.stdout EXCEPT !["p"] = No] /\ s'.seen = Append(s.seen, <<"p", s.stdout["p"]>>)
    BY <1>4, FdClose DEF Procs!Do, Procs!Go, OnePlaces
  <2>2. s'.seen = Closes(2)
    BY <2>1, ClosesGrow DEF FdInv
  <2> QED
    BY <2>1, <2>2 DEF FdInv, OneType
<1>5. CASE Close("p", "close2", "exit")
  <2>1. /\ pc["p"] = "close2" /\ pc' = [pc EXCEPT !["p"] = "exit"] /\ OneType'
        /\ s'.stdout = [s.stdout EXCEPT !["p"] = No] /\ s'.seen = Append(s.seen, <<"p", s.stdout["p"]>>)
    BY <1>5, FdClose DEF Procs!Do, Procs!Go, OnePlaces
  <2>2. s'.seen = Closes(3)
    BY <2>1, ClosesGrow DEF FdInv
  <2> QED
    BY <2>1, <2>2 DEF FdInv, OneType
<1> QED
  BY <1>1, <1>2, <1>3, <1>4, <1>5 DEF Procs!vfork_fd_test

-----------------------------------------------------------------------------
(* fork_stdio_buf.c *)

StdioBuf(n) == IF n = 2 THEN <<"Hello">> ELSE << >>
StdioOut(n) == IF n = 2 THEN <<"Ciao">> ELSE <<"Hello", "Ciao">>
StdioOnce(n) == IF n = 2 THEN <<"Ciao", "Hello">> ELSE <<"Hello", "Ciao">>
StdioTwice(n) == IF n = 2 THEN <<"Ciao", "Hello", "Hello">> ELSE <<"Hello", "Ciao">>

LEMMA StdioFlushed ==
  ASSUME NEW n
  PROVE  StdioOut(n) \o StdioBuf(n) = StdioOnce(n) /\ StdioOnce(n) \o StdioBuf(n) = StdioTwice(n)
<1>1. <<"Ciao">> \o <<"Hello">> = <<"Ciao", "Hello">>
  BY ConcatSecond
<1>2. <<"Ciao", "Hello">> \o <<"Hello">> = <<"Ciao", "Hello", "Hello">>
  BY ConcatThird
<1>3. <<"Hello", "Ciao">> \o << >> = <<"Hello", "Ciao">>
  OBVIOUS
<1> QED
  BY <1>1, <1>2, <1>3, Zenon DEF StdioOut, StdioOnce, StdioTwice, StdioBuf

Hello == <<"Hello">>

StdioType ==
  /\ OneType /\ s.buf = [a \in {"p", "c1"} |-> s.buf[a]]
  /\ pc["p"] \in {"start", "write", "fork", "end", "exit"} /\ pc["c1"] \in {"absent", "end", "exit"}
  /\ pc["p"] \in {"start", "write", "fork"} => pc["c1"] = "absent"

StdioInv ==
  prog = "fork_stdio_buf" =>
    /\ StdioType
    /\ pc["p"] \in {"start"} => s.out = << >> /\ s.buf["p"] = << >>
    /\ pc["p"] \in {"write"} => s.out = IF s.argc = 2 THEN << >> ELSE Hello
    /\ pc["p"] \in {"write", "fork", "end"} => s.buf["p"] = StdioBuf(s.argc)
    /\ pc["c1"] = "end" => s.buf["c1"] = StdioBuf(s.argc)
    /\ pc["p"] = "fork" \/ (pc["p"] = "end" /\ pc["c1"] # "exit") => s.out = StdioOut(s.argc)
    /\ pc["p"] = "end" /\ pc["c1"] = "exit" => s.out = StdioOnce(s.argc)
    /\ pc["p"] = "exit" /\ pc["c1"] # "exit" => s.out = StdioOnce(s.argc)
    /\ pc["p"] = "exit" /\ pc["c1"] = "exit" => s.out = StdioTwice(s.argc)

LEMMA StdioInit ==
  ASSUME Procs!OneChildInit
  PROVE  StdioInv
<1>1. /\ OneType /\ s.out = << >> /\ pc["p"] = "start" /\ pc["c1"] = "absent"
      /\ s.buf = [a \in {"p", "c1"} |-> << >>]
  BY OneInit
<1> QED
  BY <1>1 DEF StdioInv, StdioType

\* exit(): the buffer goes to the file
LEMMA StdioFlush ==
  ASSUME StdioInv, prog = "fork_stdio_buf", prog' = prog, NEW who \in {"p", "c1"},
         Procs!Do(who, "end", "exit", [s EXCEPT !.out = @ \o s.buf[who], !.buf[who] = << >>])
  PROVE  StdioInv'
<1> DEFINE o == s.out \o s.buf[who]  e == << >>  b == [s.buf EXCEPT ![who] = e]
<1>1. s' = [s EXCEPT !.out = o, !.buf = b] /\ pc[who] = "end" /\ pc' = [pc EXCEPT ![who] = "exit"]
  BY DEF Procs!Do, Procs!Go
<1>2. s.buf[who] = StdioBuf(s.argc)
  BY <1>1 DEF StdioInv
<1>3. /\ s.out = StdioOut(s.argc) => o = StdioOnce(s.argc)
      /\ s.out = StdioOnce(s.argc) => o = StdioTwice(s.argc)
  BY <1>2, StdioFlushed, Zenon
<1> HIDE DEF e
<1>4. b = [a \in {"p", "c1"} |-> b[a]] /\ \A a \in {"p", "c1"} : a # who => b[a] = s.buf[a]
  BY DEF StdioInv, StdioType
<1> HIDE DEF o, b
<1>5. OneType' /\ s'.out = o /\ s'.buf = b /\ s'.argc = s.argc
  BY <1>1 DEF StdioInv, StdioType, OneType, OnePlaces
<1>6. StdioType'
  BY <1>1, <1>4, <1>5 DEF StdioInv, StdioType, OneType
<1>7. CASE who = "p"
  BY <1>1, <1>3, <1>4, <1>5, <1>6, <1>7 DEF StdioInv, StdioType, OneType
<1>8. CASE who = "c1"
  BY <1>1, <1>3, <1>4, <1>5, <1>6, <1>8 DEF StdioInv, StdioType, OneType
<1> QED
  BY <1>7, <1>8

LEMMA StdioStep ==
  ASSUME StdioInv, prog = "fork_stdio_buf", prog' = prog, NEW a \in DOMAIN pc, Procs!fork_stdio_buf(a)
  PROVE  StdioInv'
<1> DEFINE Flush(who, from) == Procs!Do(who, from, "exit", [s EXCEPT !.out = @ \o s.buf[who], !.buf[who] = << >>])
<1>1. CASE Flush("c1", "end") \/ Flush("p", "end")
  BY <1>1, StdioFlush
<1>2. CASE s.argc = 2 /\ Procs!Do("p", "start", "write", [s EXCEPT !.buf["p"] = <<"Hello">>])
  <2> DEFINE b == [s.buf EXCEPT !["p"] = Hello]
  <2>1. pc["p"] = "start" /\ pc' = [pc EXCEPT !["p"] = "write"] /\ s' = [s EXCEPT !.buf = b]
    BY <1>2 DEF Procs!Do, Procs!Go, Hello
  <2>2. b = [x \in {"p", "c1"} |-> b[x]] /\ b["p"] = Hello
    BY DEF StdioInv, StdioType
  <2> HIDE DEF b
  <2>3. OneType' /\ s'.out = s.out /\ s'.buf = b /\ s'.argc = s.argc
    BY <2>1 DEF StdioInv, StdioType, OneType, OnePlaces
  <2>4. Hello = StdioBuf(s.argc)
    BY <1>2 DEF Hello, StdioBuf
  <2> QED
    BY <1>2, <2>1, <2>2, <2>3, <2>4 DEF StdioInv, StdioType, OneType
<1>3. CASE s.argc # 2 /\ Procs!Do("p", "start", "write", [s EXCEPT !.out = <<"Hello">>])
  <2>1. pc["p"] = "start" /\ pc' = [pc EXCEPT !["p"] = "write"] /\ s' = [s EXCEPT !.out = Hello]
    BY <1>3 DEF Procs!Do, Procs!Go, Hello
  <2>3. OneType' /\ s'.out = Hello /\ s'.buf = s.buf /\ s'.argc = s.argc
    BY <2>1 DEF StdioInv, StdioType, OneType, OnePlaces
  <2>4. s.buf["p"] = << >> /\ << >> = StdioBuf(s.argc)
    BY <1>3, <2>1 DEF StdioBuf, StdioInv
  <2> QED
    BY <1>3, <2>1, <2>3, <2>4 DEF StdioInv, StdioType, OneType
<1>4. CASE Procs!Do("p", "write", "fork", [s EXCEPT !.out = Append(@, "Ciao")])
  <2> DEFINE o == Append(s.out, "Ciao")
  <2>1. pc["p"] = "write" /\ pc' = [pc EXCEPT !["p"] = "fork"] /\ s' = [s EXCEPT !.out = o]
    BY <1>4 DEF Procs!Do, Procs!Go
  <2>2. s.out = (IF s.argc = 2 THEN << >> ELSE <<"Hello">>) /\ pc["c1"] = "absent"
    BY <2>1 DEF StdioInv, StdioType, Hello
  <2>3. Append(<< >>, "Ciao") = <<"Ciao">>
    OBVIOUS
  <2>4. Append(<<"Hello">>, "Ciao") = <<"Hello", "Ciao">>
    BY AppendSecond
  <2>5. o = StdioOut(s.argc)
    BY <2>2, <2>3, <2>4, Zenon DEF StdioOut
  <2> HIDE DEF o
  <2>6. OneType' /\ s'.out = o /\ s'.buf = s.buf /\ s'.argc = s.argc
    BY <2>1 DEF StdioInv, StdioType, OneType, OnePlaces
  <2> QED
    BY <2>1, <2>2, <2>5, <2>6 DEF StdioInv, StdioType, OneType
<1>5. CASE Procs!Fork("p", "fork", "end", "c1", "end") /\ s' = [s EXCEPT !.buf["c1"] = s.buf["p"]]
  <2> DEFINE b == [s.buf EXCEPT !["c1"] = s.buf["p"]]
  <2>1. /\ pc["p"] = "fork" /\ pc["c1"] = "absent" /\ pc' = [pc EXCEPT !["p"] = "end", !["c1"] = "end"]
        /\ s' = [s EXCEPT !.buf = b]
    BY <1>5 DEF Procs!Fork
  <2>2. b = [x \in {"p", "c1"} |-> b[x]] /\ b["p"] = s.buf["p"] /\ b["c1"] = s.buf["p"]
    BY DEF StdioInv, StdioType
  <2> HIDE DEF b
  <2>3. OneType' /\ s'.out = s.out /\ s'.buf = b /\ s'.argc = s.argc
    BY <2>1 DEF StdioInv, StdioType, OneType, OnePlaces
  <2> QED
    BY <2>1, <2>2, <2>3 DEF StdioInv, StdioType, OneType
<1> QED
  BY <1>1, <1>2, <1>3, <1>4, <1>5 DEF Procs!fork_stdio_buf

-----------------------------------------------------------------------------
(* pdeath_signal.c *)

Ancestors == {"a1t0", "a1t1", "a2t0", "a2t1"}
PdPlaces == {"start", "absent", "wait", "exit", "prctl", "create", "steps", "sleep", "handler", "preSleep", "postSleep"}

PdType ==
  /\ pc \in [Ancestors \union {"main", "child"} -> PdPlaces]
  /\ s = [sub |-> s.sub, plus |-> s.plus, isSub |-> s.isSub, parent |-> s.parent, pdeath |-> s.pdeath,
          atRequest |-> s.atRequest, cnt |-> s.cnt]
  /\ s.pdeath \in BOOLEAN /\ s.cnt \in Nat

\* A parent that is left has ended, so that it is never the parent again
PdSignalled ==
  /\ pc["child"] \in {"absent", "handler", "preSleep"} => ~s.pdeath
  /\ ~s.pdeath => s.cnt = 0
  /\ pc["child"] = "postSleep" =>
       /\ s.pdeath
       /\ s.cnt = 0 => s.parent = s.atRequest
       /\ s.cnt > 0 => s.atRequest \in Ancestors /\ pc[s.atRequest] = "exit" /\ s.parent # s.atRequest

PdInv == prog = "pdeath_signal" => PdType /\ PdSignalled

LEMMA ThreadNames ==
  /\ DOMAIN Procs!Thread = Ancestors
  /\ \A th \in Ancestors : Procs!Thread[th][1] \in {1, 2}
  /\ Procs!Name(1, 1) = "a1t1" /\ Procs!Name(2, 1) = "a2t1"
  /\ Procs!Thread["a1t0"][1] = 1 /\ Procs!Thread["a2t0"][1] = 2
<1>1. /\ DOMAIN Procs!Thread = Ancestors
      /\ Procs!Thread["a1t0"] = <<1, 0>> /\ Procs!Thread["a1t1"] = <<1, 1>>
      /\ Procs!Thread["a2t0"] = <<2, 0>> /\ Procs!Thread["a2t1"] = <<2, 1>>
  BY DEF Procs!Thread, Ancestors
<1>2. \A t \in {0, 1} : <<1, t>> # <<2, 1>> /\ <<2, t>> # <<1, 1>>
  OBVIOUS
<1>3. <<1, 0>> # <<1, 1>> /\ <<2, 0>> # <<2, 1>>
  OBVIOUS
<1>4. Procs!Name(1, 1) = "a1t1"
  BY <1>1, <1>2, <1>3 DEF Procs!Name, Ancestors
<1>5. Procs!Name(2, 1) = "a2t1"
  BY <1>1, <1>2, <1>3 DEF Procs!Name, Ancestors
<1>6. \A th \in Ancestors : Procs!Thread[th][1] \in {1, 2}
  BY <1>1 DEF Ancestors
<1> QED
  BY <1>1, <1>4, <1>5, <1>6

LEMMA PdInit ==
  ASSUME Procs!PdeathInit
  PROVE  PdInv
<1>1. PICK sub \in BOOLEAN, plus \in [1 .. 2 -> 0 .. 1] :
        /\ pc = [a \in DOMAIN Procs!Thread \union {"main", "child"} |-> IF a = "main" THEN "start" ELSE "absent"]
        /\ s = [sub |-> sub, plus |-> plus, isSub |-> FALSE, parent |-> "none", pdeath |-> FALSE,
                atRequest |-> "none", cnt |-> 0]
  BY Zenon DEF Procs!PdeathInit, Procs!Start
<1> DEFINE f == FALSE
<1>2. s = [sub |-> sub, plus |-> plus, isSub |-> f, parent |-> "none", pdeath |-> f,
           atRequest |-> "none", cnt |-> 0]
  BY <1>1
<1> HIDE DEF f
<1>3. /\ s = [sub |-> s.sub, plus |-> s.plus, isSub |-> s.isSub, parent |-> s.parent, pdeath |-> s.pdeath,
              atRequest |-> s.atRequest, cnt |-> s.cnt]
      /\ s.pdeath = f /\ s.cnt = 0
  BY <1>2
<1>4. s.pdeath \in BOOLEAN /\ ~s.pdeath
  BY <1>3, Zenon DEF f
<1>5. pc \in [Ancestors \union {"main", "child"} -> PdPlaces] /\ pc["child"] = "absent"
  BY <1>1, ThreadNames DEF PdPlaces
<1> QED
  BY <1>3, <1>4, <1>5 DEF PdInv, PdType, PdSignalled

\* A step that leaves the child and its parent alone
LEMMA PdQuiet ==
  ASSUME PdInv, prog = "pdeath_signal", prog' = prog, UNCHANGED <<s.parent, s.pdeath, s.atRequest, s.cnt>>,
         PdType', pc'["child"] = pc["child"], \A a \in Ancestors : pc[a] = "exit" => pc'[a] = "exit"
  PROVE  PdInv'
  BY DEF PdInv, PdSignalled

LEMMA PdChildStep ==
  ASSUME PdInv, prog = "pdeath_signal", prog' = prog, Procs!createOrphanChild
  PROVE  PdInv'
<1>0. PdType /\ PdSignalled
  BY DEF PdInv
<1>1. CASE Procs!Walk("child", "handler", "preSleep")
  BY <1>0, <1>1 DEF PdInv, PdType, PdSignalled, PdPlaces, Ancestors, Procs!Walk, Procs!Go
<1>2. CASE Procs!Do("child", "preSleep", "postSleep", [s EXCEPT !.pdeath = TRUE, !.atRequest = s.parent])
  <2> DEFINE t == TRUE
  <2>1. /\ pc["child"] = "preSleep" /\ pc' = [pc EXCEPT !["child"] = "postSleep"]
        /\ s' = [s EXCEPT !.pdeath = t, !.atRequest = s.parent]
    BY <1>2 DEF Procs!Do, Procs!Go
  <2> HIDE DEF t
  <2>2. /\ s' = [sub |-> s.sub, plus |-> s.plus, isSub |-> s.isSub, parent |-> s.parent, pdeath |-> t,
                 atRequest |-> s.parent, cnt |-> s.cnt]
    BY <1>0, <2>1 DEF PdType
  <2>3. /\ s'.pdeath = t /\ s'.cnt = s.cnt /\ s'.atRequest = s.parent /\ s'.parent = s.parent
        /\ s' = [sub |-> s'.sub, plus |-> s'.plus, isSub |-> s'.isSub, parent |-> s'.parent, pdeath |-> s'.pdeath,
                 atRequest |-> s'.atRequest, cnt |-> s'.cnt]
    BY <2>2
  <2>4. s'.pdeath \in BOOLEAN /\ s'.pdeath
    BY <2>3, Zenon DEF t
  <2>5. s.cnt = 0
    BY <1>0, <2>1 DEF PdSignalled
  <2>6. pc' \in [Ancestors \union {"main", "child"} -> PdPlaces] /\ pc'["child"] = "postSleep"
    BY <1>0, <2>1 DEF PdType, PdPlaces
  <2> QED
    BY <2>3, <2>4, <2>5, <2>6 DEF PdInv, PdType, PdSignalled
<1>3. CASE Procs!Walk("child", "postSleep", "exit")
  BY <1>0, <1>3 DEF PdInv, PdType, PdSignalled, PdPlaces, Ancestors, Procs!Walk, Procs!Go
<1> QED
  BY <1>1, <1>2, <1>3 DEF Procs!createOrphanChild

\* A thread ends: if it is the child's parent, another takes its place
LEMMA PdThreadEnds ==
  ASSUME PdInv, prog = "pdeath_signal", prog' = prog, NEW th \in Ancestors,
         Procs!Go(th, "sleep", "exit"), s' \in Procs!Orphaned(th)
  PROVE  PdInv'
<1>0. PdType /\ PdSignalled /\ pc[th] = "sleep" /\ pc' = [pc EXCEPT ![th] = "exit"]
  BY DEF PdInv, Procs!Go
<1>1. /\ pc' \in [Ancestors \union {"main", "child"} -> PdPlaces] /\ pc'["child"] = pc["child"] /\ pc'[th] = "exit"
      /\ \A a \in Ancestors : pc[a] = "exit" => pc'[a] = "exit"
  BY <1>0 DEF PdType, PdPlaces, Ancestors
<1>2. CASE s' = s
  <2>1. PdType'
    BY <1>0, <1>1, <1>2 DEF PdType
  <2> QED
    BY <1>1, <1>2, <2>1, PdQuiet
<1>3. CASE /\ s.parent = th /\ ~Procs!Dead("child")
           /\ \E h \in (Ancestors \union {"init"}) \ {th} :
                /\ s' = [s EXCEPT !.parent = h, !.cnt = IF s.pdeath THEN @ + 1 ELSE @]
                /\ h \in Ancestors => pc[h] # "exit"
  <2>1. PICK h \in (Ancestors \union {"init"}) \ {th} :
          /\ s' = [s EXCEPT !.parent = h, !.cnt = IF s.pdeath THEN s.cnt + 1 ELSE s.cnt]
          /\ h \in Ancestors => pc[h] # "exit"
    BY <1>3
  <2> DEFINE c == IF s.pdeath THEN s.cnt + 1 ELSE s.cnt
  <2>2. c \in Nat /\ (s.pdeath => c > 0) /\ (~s.pdeath => c = s.cnt)
    BY <1>0 DEF PdType
  <2>3. s' = [s EXCEPT !.parent = h, !.cnt = c]
    BY <2>1
  <2> HIDE DEF c
  <2>4. s' = [sub |-> s.sub, plus |-> s.plus, isSub |-> s.isSub, parent |-> h, pdeath |-> s.pdeath,
              atRequest |-> s.atRequest, cnt |-> c]
    BY <1>0, <2>3 DEF PdType
  <2>5. /\ s'.pdeath = s.pdeath /\ s'.cnt = c /\ s'.atRequest = s.atRequest /\ s'.parent = h
        /\ s' = [sub |-> s'.sub, plus |-> s'.plus, isSub |-> s'.isSub, parent |-> s'.parent, pdeath |-> s'.pdeath,
                 atRequest |-> s'.atRequest, cnt |-> s'.cnt]
    BY <2>4
  <2>6. PdType'
    BY <1>0, <1>1, <2>2, <2>5 DEF PdType
  <2>7. ASSUME pc["child"] = "postSleep"
        PROVE  /\ s.atRequest \in Ancestors /\ pc'[s.atRequest] = "exit" /\ h # s.atRequest
    <3>1. CASE s.cnt = 0
      BY <1>0, <1>1, <1>3, <2>1, <2>7, <3>1 DEF PdSignalled
    <3>2. CASE s.cnt > 0
      BY <1>0, <1>1, <1>3, <2>1, <2>7, <3>2 DEF PdSignalled
    <3> QED
      BY <1>0, <3>1, <3>2 DEF PdType
  <2> QED
    BY <1>0, <1>1, <2>2, <2>5, <2>6, <2>7 DEF PdInv, PdSignalled
<1> QED
  <2> DEFINE i == Procs!Thread[th][1]
             heirs == IF Procs!Live(i) \ {th} # {} THEN Procs!Live(i) \ {th}
                      ELSE IF i = 2 /\ s.isSub /\ Procs!Live(1) # {} THEN Procs!Live(1) ELSE {"init"}
  <2>1. \A k : Procs!Live(k) \subseteq Ancestors /\ \A h \in Procs!Live(k) : pc[h] # "exit"
    BY ThreadNames DEF Procs!Live, Procs!Gone, Procs!Final
  <2>2. "init" \notin Ancestors /\ (Procs!Thread[th][1] = 2 => th \notin Procs!Live(1))
    BY DEF Ancestors, Procs!Live
  <2>3. heirs \subseteq (Ancestors \union {"init"}) \ {th} /\ \A h \in heirs : h \in Ancestors => pc[h] # "exit"
    BY <2>1, <2>2
  <2>4. \/ s' = s
        \/ /\ s.parent = th /\ ~Procs!Dead("child")
           /\ \E h \in heirs : s' = [s EXCEPT !.parent = h, !.cnt = IF s.pdeath THEN @ + 1 ELSE @]
    BY DEF Procs!Orphaned
  <2> HIDE DEF heirs
  <2> QED
    BY <1>2, <1>3, <2>3, <2>4

LEMMA PdAncestorStep ==
  ASSUME PdInv, prog = "pdeath_signal", prog' = prog, NEW th \in Ancestors,
         Procs!createAncestor(th) \/ Procs!createThreads(th) \/ Procs!performPerThreadSteps(th)
  PROVE  PdInv'
<1>0. PdType /\ PdSignalled
  BY DEF PdInv
<1>1. CASE th = "a1t0" /\ Procs!Do("a1t0", "prctl", "create", [s EXCEPT !.isSub = s.sub])
  <2>1. PdType' /\ UNCHANGED <<s.parent, s.pdeath, s.atRequest, s.cnt>> /\ pc'["child"] = pc["child"]
        /\ \A a \in Ancestors : pc[a] = "exit" => pc'[a] = "exit"
    BY <1>0, <1>1 DEF PdType, PdPlaces, Ancestors, Procs!Do, Procs!Go
  <2> QED
    BY <2>1, PdQuiet
<1>2. CASE UNCHANGED s /\ \E from \in PdPlaces \ {"exit"}, to \in PdPlaces : Procs!Go(th, from, to)
  <2>1. PdType' /\ pc'["child"] = pc["child"] /\ \A a \in Ancestors : pc[a] = "exit" => pc'[a] = "exit"
    BY <1>0, <1>2 DEF PdType, PdPlaces, Ancestors, Procs!Go
  <2> QED
    BY <1>2, <2>1, PdQuiet
<1>3. CASE UNCHANGED s /\ \E from \in PdPlaces \ {"exit"}, to \in PdPlaces, b \in Ancestors, at \in PdPlaces :
             Procs!Fork(th, from, to, b, at)
  <2>1. PdType' /\ pc'["child"] = pc["child"] /\ \A a \in Ancestors : pc[a] = "exit" => pc'[a] = "exit"
    BY <1>0, <1>3 DEF PdType, PdPlaces, Ancestors, Procs!Fork
  <2> QED
    BY <1>3, <2>1, PdQuiet
<1>4. CASE Procs!Fork(th, "steps", "sleep", "child", "handler") /\ s' = [s EXCEPT !.parent = th]
  <2>1. /\ pc["child"] = "absent" /\ pc'["child"] = "handler"
        /\ pc' \in [Ancestors \union {"main", "child"} -> PdPlaces]
    BY <1>0, <1>4 DEF PdType, PdPlaces, Ancestors, Procs!Fork
  <2>2. /\ s'.pdeath = s.pdeath /\ s'.cnt = s.cnt
        /\ s' = [sub |-> s'.sub, plus |-> s'.plus, isSub |-> s'.isSub, parent |-> s'.parent, pdeath |-> s'.pdeath,
                 atRequest |-> s'.atRequest, cnt |-> s'.cnt]
    BY <1>0, <1>4 DEF PdType
  <2> QED
    BY <1>0, <2>1, <2>2 DEF PdInv, PdType, PdSignalled
<1>5. CASE Procs!Go(th, "sleep", "exit") /\ s' \in Procs!Orphaned(th)
  BY <1>5, PdThreadEnds
<1>6. CASE Procs!createAncestor(th)
  BY <1>1, <1>2, <1>6 DEF Procs!createAncestor, Procs!Walk, PdPlaces
<1>7. CASE Procs!createThreads(th)
  <2>1. Procs!Name(Procs!Thread[th][1], 1) \in Ancestors
    BY <1>7, ThreadNames DEF Procs!createThreads, Ancestors
  <2> HIDE DEF Procs!Name
  <2>2. UNCHANGED s /\ Procs!Fork(th, "create", "steps", Procs!Name(Procs!Thread[th][1], 1), "steps")
    BY <1>7 DEF Procs!createThreads
  <2>3. "create" \in PdPlaces \ {"exit"} /\ "steps" \in PdPlaces
    BY DEF PdPlaces
  <2> QED
    BY <1>3, <2>1, <2>2, <2>3
<1>8. CASE Procs!performPerThreadSteps(th)
  <2>1. {"steps", "sleep"} \subseteq PdPlaces \ {"exit"} /\ "prctl" \in PdPlaces /\ "a2t0" \in Ancestors
    BY DEF PdPlaces, Ancestors
  <2> QED
    BY <1>2, <1>3, <1>4, <1>5, <1>8, <2>1 DEF Procs!performPerThreadSteps, Procs!Walk
<1> QED
  BY <1>6, <1>7, <1>8

LEMMA PdStep ==
  ASSUME PdInv, prog = "pdeath_signal", prog' = prog, NEW a \in DOMAIN pc, Procs!pdeath_signal(a)
  PROVE  PdInv'
<1>0. PdType
  BY DEF PdInv
<1>1. CASE a = "child"
  BY <1>1, PdChildStep DEF Procs!pdeath_signal
<1>2. CASE a \in Ancestors
  <2>1. a \notin {"main", "child"}
    BY <1>2 DEF Ancestors
  <2> QED
    BY <1>2, <2>1, PdAncestorStep DEF Procs!pdeath_signal
<1>3. CASE a = "main"
  <2>1. \/ Procs!Fork("main", "start", "wait", "a1t0", "prctl") /\ UNCHANGED s
        \/ Procs!Walk("main", "wait", "exit")
    BY <1>3 DEF Procs!pdeath_signal
  <2>2. /\ PdType' /\ UNCHANGED s /\ pc'["child"] = pc["child"]
        /\ \A b \in Ancestors : pc[b] = "exit" => pc'[b] = "exit"
    BY <1>0, <2>1 DEF PdType, PdPlaces, Ancestors, Procs!Fork, Procs!Walk, Procs!Go
  <2> QED
    BY <2>2, PdQuiet
<1> QED
  BY <1>0, <1>1, <1>2, <1>3 DEF PdType

\* After the request, signalled exactly when the parent is another one
LEMMA PdSafe ==
  ASSUME PdInv
  PROVE  Procs!DeathSignalled
  BY DEF PdInv, PdType, PdSignalled, Procs!DeathSignalled, Ancestors

-----------------------------------------------------------------------------
(* execlp.c *)

ExecType ==
  /\ pc \in [{"p"} -> {"call", "exit"}]
  /\ s = [path |-> s.path, slash |-> s.slash, shell |-> s.shell, result |-> s.result]
  /\ s.path \in Seq(Procs!Errnos) /\ Len(s.path) \in 1 .. 3 /\ s.slash \in BOOLEAN
  /\ s.slash => Len(s.path) = 1

ExecInv == prog = "execlp" => ExecType /\ (pc["p"] = "exit" => s.result = Procs!execlp)

LEMMA ExecInit ==
  ASSUME Procs!FunInit
  PROVE  ExecInv
<1> SUFFICES ASSUME prog = "execlp"
             PROVE  ExecType /\ pc["p"] = "call"
  BY DEF ExecInv
<1>1. PICK path \in UNION {[1 .. n -> Procs!Errnos] : n \in 1 .. 3}, slash \in BOOLEAN, sh \in BOOLEAN, set \in BOOLEAN :
        /\ pc = [p |-> "call"]
        /\ s = [path |-> IF slash \/ ~set THEN <<path[1]>> ELSE path, slash |-> slash, shell |-> sh, result |-> << >>]
  BY DEF Procs!FunInit, Procs!Start
<1>2. PICK n \in 1 .. 3 : path \in [1 .. n -> Procs!Errnos]
  OBVIOUS
<1>3. path \in Seq(Procs!Errnos) /\ Len(path) = n /\ path[1] \in Procs!Errnos
  BY <1>2
<1> DEFINE q == IF slash \/ ~set THEN <<path[1]>> ELSE path  e == << >>
<1>4. q \in Seq(Procs!Errnos) /\ Len(q) \in 1 .. 3 /\ (slash => Len(q) = 1)
  BY <1>3
<1>5. s = [path |-> q, slash |-> slash, shell |-> sh, result |-> e]
  BY <1>1
<1> HIDE DEF q, e
<1>6. /\ s = [path |-> s.path, slash |-> s.slash, shell |-> s.shell, result |-> s.result]
      /\ s.path = q /\ s.slash = slash
  BY <1>5
<1>7. pc \in [{"p"} -> {"call", "exit"}] /\ pc["p"] = "call"
  BY <1>1
<1> QED
  BY <1>4, <1>6, <1>7 DEF ExecType

LEMMA ExecStep ==
  ASSUME ExecInv, prog = "execlp", prog' = prog, Procs!Do("p", "call", "exit", [s EXCEPT !.result = Procs!execlp])
  PROVE  ExecInv'
<1> DEFINE r == Procs!execlp
<1>1. ExecType /\ pc["p"] = "call" /\ pc' = [pc EXCEPT !["p"] = "exit"] /\ s' = [s EXCEPT !.result = r]
  BY DEF ExecInv, Procs!Do, Procs!Go
<1> HIDE DEF r
<1>2. /\ s'.path = s.path /\ s'.slash = s.slash /\ s'.shell = s.shell /\ s'.result = r
      /\ s' = [path |-> s'.path, slash |-> s'.slash, shell |-> s'.shell, result |-> s'.result]
  BY <1>1 DEF ExecType
<1>3. pc' \in [{"p"} -> {"call", "exit"}]
  BY <1>1 DEF ExecType
<1>4. ExecType'
  BY <1>1, <1>2, <1>3 DEF ExecType
<1>5. \A e : Procs!Runs(e)' <=> Procs!Runs(e)
  BY <1>2 DEF Procs!Runs
<1>6. Procs!execlp' = Procs!execlp
  <2> DEFINE h == {i \in 1 .. Len(s.path) : Procs!Runs(s.path[i])}
             f == ~s.slash /\ \E i \in 1 .. Len(s.path) : s.path[i] = "EACCES"
             F(u, g, x) == IF u # {} THEN <<"runs", CHOOSE i \in u : \A j \in u : i <= j>>
                           ELSE <<"fails", IF g THEN "EACCES" ELSE x[Len(x)]>>
  <2>1. h' = h /\ (f' <=> f)
    BY <1>2, <1>5
  <2>2. Procs!execlp = F(h, f, s.path)
    BY DEF Procs!execlp
  <2>3. Procs!execlp' = F(h', f', s'.path)
    BY DEF Procs!execlp
  <2> HIDE DEF h, f
  <2>4. F(h', f', s'.path) = F(h, f, s.path)
    BY <1>2, <2>1
  <2> QED
    BY <2>2, <2>3, <2>4
<1> QED
  BY <1>2, <1>4, <1>6 DEF ExecInv, r

\* The first file that can be run, else EACCES before other errors
LEMMA ExecCorrect ==
  ASSUME ExecInv, prog = "execlp", pc["p"] = "exit"
  PROVE  IF \E i \in DOMAIN s.path : Procs!Runs(s.path[i])
         THEN /\ s.result[1] = "runs" /\ Procs!Runs(s.path[s.result[2]])
              /\ \A i \in 1 .. s.result[2] - 1 : ~Procs!Runs(s.path[i])
         ELSE /\ s.result[1] = "fails" /\ s.result[2] \in {s.path[i] : i \in DOMAIN s.path}
              /\ s.result[2] = "EACCES" <=> \E i \in DOMAIN s.path : s.path[i] = "EACCES"
<1> DEFINE n == Len(s.path)
           R(i) == Procs!Runs(s.path[i])
           hit == {i \in 1 .. n : R(i)}
           first == CHOOSE i \in hit : \A j \in hit : i <= j
           fnd == ~s.slash /\ \E i \in 1 .. n : s.path[i] = "EACCES"
<1>1. ExecType /\ n \in 1 .. 3 /\ DOMAIN s.path = 1 .. n /\ s.result = Procs!execlp
  BY DEF ExecInv, ExecType
<1>2. s.result = IF hit # {} THEN <<"runs", first>> ELSE <<"fails", IF fnd THEN "EACCES" ELSE s.path[n]>>
  BY <1>1 DEF Procs!execlp
<1>3. CASE \E i \in 1 .. n : R(i)
  <2> HIDE DEF R, n
  <2>1. \E i \in hit : \A j \in hit : i <= j
    <3>1. CASE R(1)
      <4>1. 1 \in hit /\ \A j \in hit : 1 <= j
        BY <1>1, <3>1
      <4> QED
        BY <4>1
    <3>2. CASE ~R(1) /\ R(2) /\ n >= 2
      BY <1>1, <3>2
    <3>3. CASE ~R(1) /\ ~(R(2) /\ n >= 2)
      <4>0. PICK i \in 1 .. n : R(i)
        BY <1>3
      <4>1. R(3) /\ n = 3
        BY <1>1, <3>3, <4>0
      <4> QED
        BY <1>1, <3>3, <4>1
    <3> QED
      BY <3>1, <3>2, <3>3, <1>1
  <2>2. first \in hit /\ \A j \in hit : first <= j
    BY <2>1
  <2>3. s.result[1] = "runs" /\ s.result[2] = first
    <3> HIDE DEF first
    <3> QED
      BY <1>2, <2>2
  <2> HIDE DEF first
  <2>4. R(first) /\ \A i \in 1 .. first - 1 : ~R(i)
    BY <1>1, <2>2
  <2> QED
    BY <1>1, <1>3, <2>3, <2>4 DEF R
<1>4. CASE ~\E i \in 1 .. n : R(i)
  <2> DEFINE e == IF fnd THEN "EACCES" ELSE s.path[n]
  <2>1. hit = {}
    BY <1>4
  <2>2. s.result = <<"fails", e>>
    BY <1>2, <2>1
  <2>3. e \in {s.path[i] : i \in 1 .. n} /\ (e = "EACCES" <=> \E i \in 1 .. n : s.path[i] = "EACCES")
    BY <1>1 DEF ExecType
  <2> HIDE DEF e
  <2>4. s.result[1] = "fails" /\ s.result[2] = e
    BY <2>2
  <2> QED
    BY <1>1, <1>4, <2>3, <2>4
<1> QED
  BY <1>3, <1>4

-----------------------------------------------------------------------------
(* print_wait_status.c *)

StatusKinds == {"exited", "signalled", "core", "stopped", "continued"}

WordType ==
  /\ pc \in [{"p"} -> {"call", "exit"}]
  /\ s = [kind |-> s.kind, value |-> s.value, result |-> s.result]
  /\ s.kind \in StatusKinds /\ s.value \in 0 .. 255
  /\ s.kind \in {"signalled", "core", "stopped"} => s.value \in 1 .. 64

TakenApart(kind, v) == IF kind = "continued" THEN <<kind>> ELSE <<kind, v>>

WordInv == prog = "print_wait_status" => WordType /\ (pc["p"] = "exit" => s.result = TakenApart(s.kind, s.value))

LEMMA WordInit ==
  ASSUME Procs!FunInit
  PROVE  WordInv
<1> SUFFICES ASSUME prog = "print_wait_status"
             PROVE  WordType /\ pc["p"] = "call"
  BY DEF WordInv
<1>1. PICK kind \in StatusKinds, v \in 0 .. 255 :
        /\ kind \in {"signalled", "core", "stopped"} => v \in 1 .. 64
        /\ pc = [p |-> "call"] /\ s = [kind |-> kind, value |-> v, result |-> << >>]
  BY DEF Procs!FunInit, Procs!Start, StatusKinds
<1>2. pc \in [{"p"} -> {"call", "exit"}] /\ pc["p"] = "call"
  BY <1>1
<1>3. s = [kind |-> s.kind, value |-> s.value, result |-> s.result] /\ s.kind = kind /\ s.value = v
  BY <1>1
<1> QED
  BY <1>1, <1>2, <1>3 DEF WordType

\* The macros take every status word apart: one test holds, and gives kind and value back
LEMMA WordMacros ==
  ASSUME WordType
  PROVE  Procs!printWaitStatus = TakenApart(s.kind, s.value)
<1> DEFINE v == s.value  w == Procs!Status
<1>0. /\ s.kind \in StatusKinds /\ v \in 0 .. 255
      /\ s.kind \in {"signalled", "core", "stopped"} => v \in 1 .. 64
  BY DEF WordType
<1> HIDE DEF v
<1>1. CASE s.kind = "exited"
  <2>1. w = v * 256
    BY <1>1 DEF Procs!Status, v
  <2> HIDE DEF w
  <2>2. w \in Nat /\ w % 128 = 0 /\ w % 128 \in {0, 127} /\ w % 256 # 127 /\ w # 65535 /\ (w \div 256) % 256 = v
    BY <1>0, <1>1, <2>1
  <2> USE DEF w
  <2>3. Procs!printWaitStatus = <<"exited", v>>
    BY <2>2 DEF Procs!printWaitStatus
  <2> QED
    BY <1>1, <2>3 DEF TakenApart, v
<1>2. CASE s.kind = "signalled"
  <2>1. w = v
    BY <1>2 DEF Procs!Status, v
  <2> HIDE DEF w
  <2>2. w \in Nat /\ w % 128 # 0 /\ w % 128 \notin {0, 127} /\ w % 256 # 127 /\ w # 65535 /\ w % 128 = v /\ (w \div 128) % 2 # 1
    BY <1>0, <1>2, <2>1
  <2> USE DEF w
  <2>3. Procs!printWaitStatus = <<"signalled", v>>
    <3>1. Procs!Died = "signalled"
      BY <2>2 DEF Procs!Died
    <3> QED
      BY <2>2, <3>1 DEF Procs!printWaitStatus
  <2> QED
    BY <1>2, <2>3 DEF TakenApart, v
<1>3. CASE s.kind = "core"
  <2>1. w = v + 128
    BY <1>3 DEF Procs!Status, v
  <2> HIDE DEF w
  <2>2. w \in Nat /\ w % 128 # 0 /\ w % 128 \notin {0, 127} /\ w % 256 # 127 /\ w # 65535 /\ w % 128 = v /\ (w \div 128) % 2 = 1
    BY <1>0, <1>3, <2>1
  <2> USE DEF w
  <2>3. Procs!printWaitStatus = <<"core", v>>
    <3>1. Procs!Died = "core"
      BY <2>2 DEF Procs!Died
    <3> QED
      BY <2>2, <3>1 DEF Procs!printWaitStatus
  <2> QED
    BY <1>3, <2>3 DEF TakenApart, v
<1>4. CASE s.kind = "stopped"
  <2>1. w = v * 256 + 127
    BY <1>4 DEF Procs!Status, v
  <2> HIDE DEF w
  <2>2. w \in Nat /\ w % 128 # 0 /\ w % 128 \in {0, 127} /\ w % 256 = 127 /\ w # 65535 /\ (w \div 256) % 256 = v
    BY <1>0, <1>4, <2>1
  <2> USE DEF w
  <2>3. Procs!printWaitStatus = <<"stopped", v>>
    BY <2>2 DEF Procs!printWaitStatus
  <2> QED
    BY <1>4, <2>3 DEF TakenApart, v
<1>5. CASE s.kind = "continued"
  <2>1. w = 65535
    BY <1>5 DEF Procs!Status, v
  <2> HIDE DEF w
  <2>2. w \in Nat /\ w % 128 # 0 /\ w % 128 \in {0, 127} /\ w % 256 # 127 /\ w = 65535
    BY <1>0, <1>5, <2>1
  <2> USE DEF w
  <2>3. Procs!printWaitStatus = <<"continued">>
    BY <2>2 DEF Procs!printWaitStatus
  <2> QED
    BY <1>5, <2>3 DEF TakenApart, v
<1> QED
  BY <1>0, <1>1, <1>2, <1>3, <1>4, <1>5 DEF StatusKinds

LEMMA WordStep ==
  ASSUME WordInv, prog = "print_wait_status", prog' = prog,
         Procs!Do("p", "call", "exit", [s EXCEPT !.result = Procs!printWaitStatus])
  PROVE  WordInv'
<1> DEFINE r == Procs!printWaitStatus
<1>1. pc["p"] = "call" /\ pc' = [pc EXCEPT !["p"] = "exit"] /\ s' = [s EXCEPT !.result = r]
  BY DEF Procs!Do, Procs!Go
<1>2. WordType /\ r = TakenApart(s.kind, s.value)
  BY WordMacros DEF WordInv
<1> HIDE DEF r
<1>3. /\ s'.kind = s.kind /\ s'.value = s.value /\ s'.result = r
      /\ s' = [kind |-> s'.kind, value |-> s'.value, result |-> s'.result]
  BY <1>1, <1>2 DEF WordType
<1>4. pc' \in [{"p"} -> {"call", "exit"}]
  BY <1>1, <1>2 DEF WordType
<1> QED
  BY <1>2, <1>3, <1>4 DEF WordInv, WordType

-----------------------------------------------------------------------------
(* exit_handlers.c *)

Handlers == {"onexit10", "atexit1", "atexit2", "onexit20"}
Registered == <<"onexit10", "atexit1", "atexit2", "onexit20">>

HandlersType ==
  /\ pc \in [{"p"} -> {"call", "exit()", "exit"}]
  /\ s = [list |-> s.list, result |-> s.result]
  /\ s.list \in Seq(Handlers) /\ s.result \in Seq(Handlers)

\* What is left on the list, and what has run, last first
HandlersRun ==
  /\ pc["p"] = "call" => s.result = << >>
  /\ pc["p"] # "call" => /\ Len(s.list) + Len(s.result) = 4
                         /\ \A i \in 1 .. Len(s.list) : s.list[i] = Registered[i]
                         /\ \A i \in 1 .. Len(s.result) : s.result[i] = Registered[5 - i]
  /\ pc["p"] = "exit" => s.list = << >>

HandlersInv == prog = "exit_handlers" => HandlersType /\ HandlersRun

LEMMA HandlersInit ==
  ASSUME Procs!FunInit
  PROVE  HandlersInv
<1> SUFFICES ASSUME prog = "exit_handlers"
             PROVE  HandlersInv
  BY DEF HandlersInv
<1>1. pc = [p |-> "call"] /\ s = [list |-> << >>, result |-> << >>]
  BY DEF Procs!FunInit, Procs!Start
<1> DEFINE e == << >>
<1>2. e \in Seq(Handlers)
  OBVIOUS
<1>3. s = [list |-> e, result |-> e]
  BY <1>1
<1> HIDE DEF e
<1>4. s = [list |-> s.list, result |-> s.result] /\ s.list = e /\ s.result = e
  BY <1>3
<1>5. pc \in [{"p"} -> {"call", "exit()", "exit"}] /\ pc["p"] = "call"
  BY <1>1
<1>6. s.result = << >>
  BY <1>4 DEF e
<1> QED
  BY <1>2, <1>4, <1>5, <1>6 DEF HandlersInv, HandlersType, HandlersRun

LEMMA HandlersStep ==
  ASSUME HandlersInv, prog = "exit_handlers", prog' = prog, Procs!exit_handlers
  PROVE  HandlersInv'
<1>0. HandlersType /\ HandlersRun
  BY DEF HandlersInv
<1>1. CASE Procs!Do("p", "call", "exit()", [s EXCEPT !.list = <<"onexit10", "atexit1", "atexit2", "onexit20">>])
  <2>1. pc["p"] = "call" /\ pc' = [pc EXCEPT !["p"] = "exit()"] /\ s' = [s EXCEPT !.list = Registered]
    BY <1>1 DEF Procs!Do, Procs!Go, Registered
  <2>2. Registered \in Seq(Handlers) /\ Len(Registered) = 4
    BY DEF Registered, Handlers
  <2>3. s' = [list |-> s'.list, result |-> s'.result] /\ s'.list = Registered /\ s'.result = s.result
    BY <1>0, <2>1 DEF HandlersType
  <2>4. s.result = << >>
    BY <1>0, <2>1 DEF HandlersRun
  <2>5. pc' \in [{"p"} -> {"call", "exit()", "exit"}] /\ pc'["p"] = "exit()"
    BY <1>0, <2>1 DEF HandlersType
  <2>6. Len(s'.result) = 0 /\ Len(s'.list) = 4
    BY <2>2, <2>3, <2>4
  <2> QED
    BY <1>0, <2>2, <2>3, <2>5, <2>6 DEF HandlersInv, HandlersType, HandlersRun
<1>2. CASE /\ s.list # << >>
           /\ Procs!Do("p", "exit()", "exit()", [s EXCEPT !.list = SubSeq(@, 1, Len(@) - 1),
                                                          !.result = Append(@, s.list[Len(s.list)])])
  <2> DEFINE k == Len(s.list)  l == SubSeq(s.list, 1, k - 1)  r == Append(s.result, s.list[k])
  <2>1. pc["p"] = "exit()" /\ pc' = [pc EXCEPT !["p"] = "exit()"] /\ s' = [s EXCEPT !.list = l, !.result = r]
    BY <1>2 DEF Procs!Do, Procs!Go
  <2>2. /\ s.list \in Seq(Handlers) /\ s.result \in Seq(Handlers) /\ k \in Nat \ {0} /\ Len(s.result) = 4 - k
        /\ \A i \in 1 .. k : s.list[i] = Registered[i]
        /\ \A i \in 1 .. Len(s.result) : s.result[i] = Registered[5 - i]
    BY <1>0, <1>2, <2>1 DEF HandlersType, HandlersRun
  <2> HIDE DEF k
  <2>k. Len(s.list) = k
    BY DEF k
  <2>3. l \in Seq(Handlers) /\ Len(l) = k - 1 /\ \A i \in 1 .. k - 1 : l[i] = Registered[i]
    BY <2>2, <2>k
  <2>4. s.list[k] \in Handlers /\ s.list[k] = Registered[k] /\ Len(s.result) \in Nat
    BY <2>2, <2>k
  <2> DEFINE last == s.list[k]
  <2> HIDE DEF last
  <2>5. r = Append(s.result, last) /\ last \in Handlers /\ last = Registered[k] /\ Len(s.result) \in Nat
    BY <2>4 DEF last
  <2> HIDE DEF r
  <2>l. r \in Seq(Handlers) /\ Len(r) = 5 - k
    BY <2>2, <2>5
  <2>6. \A i \in 1 .. 5 - k : r[i] = Registered[5 - i]
    <3> TAKE i \in 1 .. 5 - k
    <3>1. CASE i \in 1 .. 4 - k
      BY <2>2, <2>5, <3>1
    <3>2. CASE i = 5 - k
      <4>1. r[Len(s.result) + 1] = last
        BY <2>5 DEF HandlersInv, HandlersType
      <4>2. r[i] = last /\ 5 - i = k
        BY <2>2, <3>2, <4>1
      <4> QED
        BY <2>5, <4>2
    <3> QED
      BY <2>2, <3>1, <3>2
  <2> HIDE DEF l
  <2>7. s' = [list |-> s'.list, result |-> s'.result] /\ s'.list = l /\ s'.result = r
    BY <1>0, <2>1 DEF HandlersType
  <2>8. pc' \in [{"p"} -> {"call", "exit()", "exit"}] /\ pc'["p"] = "exit()"
    BY <1>0, <2>1 DEF HandlersType
  <2>9. HandlersType'
    BY <2>3, <2>l, <2>7, <2>8 DEF HandlersType
  <2> QED
    BY <2>2, <2>3, <2>l, <2>6, <2>7, <2>8, <2>9 DEF HandlersInv, HandlersRun
<1>3. CASE Procs!Walk("p", "exit()", "exit") /\ s.list = << >>
  BY <1>0, <1>3 DEF HandlersInv, HandlersType, HandlersRun, Procs!Walk, Procs!Go
<1> QED
  BY <1>1, <1>2, <1>3 DEF Procs!exit_handlers

\* The last handler registered runs first
LEMMA HandlersReversed ==
  ASSUME HandlersInv, prog = "exit_handlers", pc["p"] = "exit"
  PROVE  s.result = <<"onexit20", "atexit2", "atexit1", "onexit10">>
<1> DEFINE R == <<"onexit20", "atexit2", "atexit1", "onexit10">>
<1>1. s.result \in Seq(Handlers) /\ s.list = << >>
  BY DEF HandlersInv, HandlersType, HandlersRun
<1>2. Len(s.result) = 4 /\ \A i \in 1 .. 4 : s.result[i] = Registered[5 - i]
  <2>1. Len(s.list) = 0
    BY <1>1
  <2> QED
    BY <1>1, <2>1 DEF HandlersInv, HandlersRun
<1>3. R \in Seq(Handlers) /\ Len(R) = 4 /\ \A i \in 1 .. 4 : R[i] = Registered[5 - i]
  BY DEF Handlers, Registered
<1> HIDE DEF R
<1>4. s.result = R
  BY <1>1, <1>2, <1>3, SeqEqual, SMTT(30)
<1> QED
  BY <1>4 DEF R

-----------------------------------------------------------------------------
(* All programs of procexec/ *)

OneInv == FileInv /\ StatusInv /\ ZombieInv /\ OrphanInv /\ WhosInv /\ FootInv /\ ForkInv /\ VforkInv /\ FdInv /\ StdioInv
FunInv == ExecInv /\ WordInv /\ HandlersInv

ProcsInv == SigchldInv /\ WaitInv /\ SysInv /\ SyncInv /\ CloneInv /\ OneInv /\ PdInv /\ FunInv

\* an invariant of one program says nothing of the others
LEMMA OtherProcess ==
  /\ prog # "multi_SIGCHLD" => SigchldInv
  /\ prog # "multi_wait" => WaitInv
  /\ prog \notin SysProgs => SysInv
  /\ prog # "fork_sig_sync" => SyncInv
  /\ prog \notin CloneProgs => CloneInv
  /\ prog \notin Procs!OneChild => OneInv
  /\ prog # "pdeath_signal" => PdInv
  /\ prog \notin {"execlp", "print_wait_status", "exit_handlers"} => FunInv
<1>1. /\ prog # "multi_SIGCHLD" => SigchldInv
      /\ prog # "multi_wait" => WaitInv
      /\ prog \notin SysProgs => SysInv
      /\ prog # "fork_sig_sync" => SyncInv
      /\ prog \notin CloneProgs => CloneInv
      /\ prog # "pdeath_signal" => PdInv
  BY DEF SigchldInv, WaitInv, SysInv, SyncInv, CloneInv, PdInv
<1>2. prog \notin Procs!OneChild => OneInv
  <2> SUFFICES ASSUME prog \notin Procs!OneChild
               PROVE  OneInv
    OBVIOUS
  <2> USE DEF Procs!OneChild
  <2>1. FileInv /\ StatusInv /\ ZombieInv /\ OrphanInv
    BY Zenon DEF FileInv, StatusInv, ZombieInv, OrphanInv
  <2>2. WhosInv /\ FootInv /\ ForkInv /\ VforkInv /\ FdInv /\ StdioInv
    BY Zenon DEF WhosInv, FootInv, ForkInv, VforkInv, FdInv, StdioInv
  <2> QED
    BY <2>1, <2>2 DEF OneInv
<1>3. prog \notin {"execlp", "print_wait_status", "exit_handlers"} => FunInv
  BY DEF FunInv, ExecInv, WordInv, HandlersInv
<1> QED
  BY <1>1, <1>2, <1>3

\* Every program starts in its invariant
LEMMA ProcsInvInit ==
  ASSUME Procs!Init
  PROVE  ProcsInv
<1> USE DEF SysProgs, CloneProgs, Procs!OneChild, Procs!Start, ProcsInv
<1>1. CASE Procs!MultiInit
  <2>1. prog \in {"multi_SIGCHLD", "multi_wait"}
    BY <1>1 DEF Procs!MultiInit
  <2> QED
    BY <1>1, <2>1, MultiInit, OtherProcess
<1>2. CASE Procs!SystemInit
  <2>1. prog \in SysProgs
    BY <1>2 DEF Procs!SystemInit
  <2> QED
    BY <1>2, <2>1, SysInit, OtherProcess
<1>3. CASE Procs!SyncInit
  <2>1. prog = "fork_sig_sync"
    BY <1>3 DEF Procs!SyncInit
  <2> QED
    BY <1>3, <2>1, SyncInit, OtherProcess
<1>4. CASE Procs!CloneInit
  <2>1. prog \in CloneProgs
    BY <1>4 DEF Procs!CloneInit
  <2> QED
    BY <1>4, <2>1, CloneInit, OtherProcess
<1>5. CASE Procs!OneChildInit
  <2>1. prog \in Procs!OneChild
    BY <1>5 DEF Procs!OneChildInit
  <2>2. OneInv
    BY <1>5, FileInit, StatusInit, ZombieInit, OrphanInit, WhosInit, FootInit, ForkInit, VforkInit, FdInit,
       StdioInit, ProcessesAssumption DEF OneInv
  <2> QED
    BY <2>1, <2>2, OtherProcess
<1>6. CASE Procs!PdeathInit
  <2>1. prog = "pdeath_signal"
    BY <1>6 DEF Procs!PdeathInit
  <2> QED
    BY <1>6, <2>1, PdInit, OtherProcess
<1>7. CASE Procs!FunInit
  <2>1. prog \in {"execlp", "print_wait_status", "exit_handlers"}
    BY <1>7 DEF Procs!FunInit
  <2>2. FunInv
    BY <1>7, ExecInit, WordInit, HandlersInit DEF FunInv
  <2> QED
    BY <2>1, <2>2, OtherProcess
<1> QED
  BY <1>1, <1>2, <1>3, <1>4, <1>5, <1>6, <1>7 DEF Procs!Init

\* A step of the caller, of the shell or of the other child
LEMMA SysStep ==
  ASSUME SysInv, prog \in SysProgs, prog' = prog, NEW a \in DOMAIN pc,
         \/ prog = "system" /\ Procs!system(a)
         \/ prog = "simple_system" /\ Procs!simple_system(a)
         \/ Procs!t_system(a)
  PROVE  SysInv'
<1>1. CASE a = "p"
  BY <1>1, SysParentStep DEF Procs!system
<1>2. CASE a # "p"
  BY <1>2, SysChildStep DEF Procs!system, Procs!simple_system, Procs!t_system
<1> QED
  BY <1>1, <1>2

\* A step of a program with one child
LEMMA OneStep ==
  ASSUME OneInv, prog \in Procs!OneChild, prog' = prog, NEW a \in DOMAIN pc, Procs!Step(a)
  PROVE  OneInv'
<1>0. prog \in Procs!Programs
  BY DEF Procs!Programs
<1>1. /\ prog # "fork_file_sharing" => FileInv'
      /\ prog # "child_status" => StatusInv'
      /\ prog # "make_zombie" => ZombieInv'
      /\ prog # "orphan" => OrphanInv'
      /\ prog # "fork_whos_on_first" => WhosInv'
      /\ prog # "footprint" => FootInv'
      /\ prog # "t_fork" => ForkInv'
      /\ prog # "t_vfork" => VforkInv'
      /\ prog # "vfork_fd_test" => FdInv'
      /\ prog # "fork_stdio_buf" => StdioInv'
  BY Zenon DEF FileInv, StatusInv, ZombieInv, OrphanInv, WhosInv, FootInv, ForkInv, VforkInv, FdInv, StdioInv
<1>2. /\ prog = "fork_file_sharing" => FileInv'
      /\ prog = "child_status" => StatusInv'
      /\ prog = "make_zombie" => ZombieInv'
      /\ prog = "orphan" => OrphanInv'
      /\ prog = "fork_whos_on_first" => WhosInv'
  BY <1>0, StepOfProcess, FileStep, StatusStep, ZombieStep, OrphanStep, WhosStep DEF OneInv
<1>3. /\ prog = "footprint" => FootInv'
      /\ prog = "t_fork" => ForkInv'
      /\ prog = "t_vfork" => VforkInv'
      /\ prog = "vfork_fd_test" => FdInv'
      /\ prog = "fork_stdio_buf" => StdioInv'
  BY <1>0, StepOfProcess, FootStep, ForkStep, VforkStep, FdStep, StdioStep DEF OneInv
<1> QED
  BY <1>1, <1>2, <1>3 DEF OneInv

\* A step of a program that calls one function
LEMMA FunStep ==
  ASSUME FunInv, prog \in {"execlp", "print_wait_status", "exit_handlers"}, prog' = prog, NEW a, Procs!Functions(a)
  PROVE  FunInv'
<1>1. CASE prog = "execlp"
  <2>1. ExecInv'
    BY <1>1, ExecStep DEF Procs!Functions, FunInv
  <2> QED
    BY <1>1, <2>1 DEF FunInv, WordInv, HandlersInv
<1>2. CASE prog = "print_wait_status"
  <2>1. WordInv'
    BY <1>2, WordStep DEF Procs!Functions, FunInv
  <2> QED
    BY <1>2, <2>1 DEF FunInv, ExecInv, HandlersInv
<1>3. CASE prog = "exit_handlers"
  <2>1. HandlersInv'
    BY <1>3, HandlersStep DEF Procs!Functions, FunInv
  <2> QED
    BY <1>3, <2>1 DEF FunInv, ExecInv, WordInv
<1> QED
  BY <1>1, <1>2, <1>3

\* And keeps it, whichever program it is
LEMMA ProcsInvStep ==
  ASSUME ProcsInv, prog \in Procs!Programs, prog' = prog, (\E a \in DOMAIN pc : Procs!Step(a)) \/ Procs!Env
  PROVE  ProcsInv'
<1>0. /\ prog # "multi_SIGCHLD" => SigchldInv'
      /\ prog # "multi_wait" => WaitInv'
      /\ prog \notin SysProgs => SysInv'
      /\ prog # "fork_sig_sync" => SyncInv'
      /\ prog \notin CloneProgs => CloneInv'
      /\ prog \notin Procs!OneChild => OneInv'
      /\ prog # "pdeath_signal" => PdInv'
      /\ prog \notin {"execlp", "print_wait_status", "exit_handlers"} => FunInv'
  <2>1. /\ prog # "multi_SIGCHLD" => SigchldInv'
        /\ prog # "multi_wait" => WaitInv'
        /\ prog \notin SysProgs => SysInv'
        /\ prog # "fork_sig_sync" => SyncInv'
        /\ prog \notin CloneProgs => CloneInv'
        /\ prog # "pdeath_signal" => PdInv'
    BY DEF SigchldInv, WaitInv, SysInv, SyncInv, CloneInv, PdInv, SysProgs, CloneProgs
  <2>2. prog \notin Procs!OneChild => OneInv'
    <3> SUFFICES ASSUME prog \notin Procs!OneChild
                 PROVE  OneInv'
      OBVIOUS
    <3> USE DEF Procs!OneChild
    <3>1. (FileInv /\ StatusInv /\ ZombieInv /\ OrphanInv)'
      BY Zenon DEF FileInv, StatusInv, ZombieInv, OrphanInv
    <3>2. (WhosInv /\ FootInv /\ ForkInv /\ VforkInv /\ FdInv /\ StdioInv)'
      BY Zenon DEF WhosInv, FootInv, ForkInv, VforkInv, FdInv, StdioInv
    <3> QED
      BY <3>1, <3>2 DEF OneInv
  <2>3. prog \notin {"execlp", "print_wait_status", "exit_handlers"} => FunInv'
    BY DEF FunInv, ExecInv, WordInv, HandlersInv
  <2> QED
    BY <2>1, <2>2, <2>3
<1>1. CASE Procs!TerminalSignal
  <2>1. prog \in SysProgs
    BY <1>1 DEF Procs!TerminalSignal, SysProgs
  <2>2. SysInv'
    BY <1>1, <2>1, SysSignalStep DEF ProcsInv
  <2> QED
    BY <1>0, <2>1, <2>2 DEF ProcsInv, SysProgs, CloneProgs, Procs!OneChild
<1>4. CASE Procs!OtherSignal
  <2>1. prog \in SysProgs
    BY <1>4 DEF Procs!OtherSignal, SysProgs
  <2>2. SysInv'
    BY <1>4, <2>1, SysOtherSignalStep DEF ProcsInv
  <2> QED
    BY <1>0, <2>1, <2>2 DEF ProcsInv, SysProgs, CloneProgs, Procs!OneChild
<1>2. CASE Procs!ChildSignalled
  <2>1. prog = "child_status"
    BY <1>2 DEF Procs!ChildSignalled
  <2>2. StatusInv'
    BY <1>2, StatusSignal DEF ProcsInv, OneInv
  <2>3. OneInv'
    BY <2>1, <2>2 DEF OneInv, FileInv, ZombieInv, OrphanInv, WhosInv, FootInv, ForkInv, VforkInv, FdInv, StdioInv
  <2> QED
    BY <1>0, <2>1, <2>3 DEF ProcsInv, SysProgs, CloneProgs, Procs!OneChild
<1>3. CASE \E a \in DOMAIN pc : Procs!Step(a)
  <2>1. PICK a \in DOMAIN pc : Procs!Step(a)
    BY <1>3
  <2>2. prog = "multi_SIGCHLD" => SigchldInv'
    BY <2>1, StepOfProcess, SigchldStep DEF ProcsInv
  <2>3. prog = "multi_wait" => WaitInv'
    BY <2>1, StepOfProcess, WaitStep DEF ProcsInv
  <2>4. prog \in SysProgs => SysInv'
    BY <2>1, StepOfProcess, SysStep DEF ProcsInv, SysProgs
  <2>5. prog = "fork_sig_sync" => SyncInv'
    BY <2>1, StepOfProcess, SyncStep DEF ProcsInv
  <2>6. prog \in CloneProgs => CloneInv'
    BY <2>1, StepOfProcess, DemoStep, CloneStep DEF ProcsInv, CloneProgs
  <2>7. prog \in Procs!OneChild => OneInv'
    BY <2>1, OneStep DEF ProcsInv
  <2>8. prog = "pdeath_signal" => PdInv'
    BY <2>1, StepOfProcess, PdStep DEF ProcsInv
  <2>9. prog \in {"execlp", "print_wait_status", "exit_handlers"} => FunInv'
    BY <2>1, StepOfProcess, FunStep DEF ProcsInv
  <2> QED
    BY <1>0, <2>2, <2>3, <2>4, <2>5, <2>6, <2>7, <2>8, <2>9 DEF ProcsInv
<1> QED
  BY <1>1, <1>2, <1>3, <1>4 DEF Procs!Env

\* A step that changes nothing keeps it
LEMMA ProcsInvStutter ==
  ASSUME ProcsInv, UNCHANGED vars
  PROVE  ProcsInv'
<1>1. prog' = prog /\ pc' = pc /\ s' = s
  BY DEF vars
<1>2. (SigchldInv => SigchldInv') /\ (WaitInv => WaitInv')
  <2>1. EndedKids' = EndedKids
    BY <1>1 DEF EndedKids
  <2> QED
    BY <1>1, <2>1 DEF SigchldInv, WaitInv, MultiType, SigCounted
<1>3. SysInv => SysInv'
  BY <1>1 DEF SysInv, SysType, SysCaller, SysShell, SysCommand, Ignores, SysProgs, Procs!NoStatus
<1>4. (SyncInv => SyncInv') /\ (CloneInv => CloneInv')
  <2>1. SyncInv => SyncInv'
    BY <1>1 DEF SyncInv
  <2>2. CloneSeen => CloneSeen'
    BY <1>1, Zenon DEF CloneSeen
  <2>3. CloneType /\ CloneShared => CloneType' /\ CloneShared'
    BY <1>1 DEF CloneType, CloneShared
  <2> QED
    BY <1>1, <2>1, <2>2, <2>3 DEF CloneInv, CloneProgs
<1>5. OneInv => OneInv'
  <2>1. OneType' <=> OneType
    BY <1>1 DEF OneType
  <2>2. WhosInv => WhosInv'
    <3>1. Printed' = Printed
      BY <1>1 DEF Printed
    <3> QED
      BY <1>1, <2>1, <3>1 DEF WhosInv, WhosType, WhosOut
  <2>3. (StatusInv => StatusInv') /\ (ZombieInv => ZombieInv') /\ (OrphanInv => OrphanInv')
    BY <1>1, <2>1 DEF StatusInv, ZombieInv, OrphanInv
  <2>6. FileInv => FileInv'
    <3>1. FileSeen' = FileSeen
      BY DEF FileSeen, Appending
    <3> QED
      BY <1>1, <2>1, <3>1 DEF FileInv
  <2>4. (FootInv => FootInv') /\ (ForkInv => ForkInv') /\ (VforkInv => VforkInv')
    BY <1>1, <2>1 DEF FootInv, ForkInv, VforkInv
  <2>5. (FdInv => FdInv') /\ (StdioInv => StdioInv')
    BY <1>1, <2>1 DEF FdInv, StdioInv, StdioType
  <2> QED
    BY <2>2, <2>3, <2>4, <2>5, <2>6 DEF OneInv
<1>6. PdInv => PdInv'
  BY <1>1 DEF PdInv, PdType, PdSignalled
<1>7. FunInv => FunInv'
  <2>1. ExecInv => ExecInv'
    <3>1. Procs!execlp' = Procs!execlp
      BY <1>1 DEF Procs!execlp, Procs!Runs
    <3> QED
      BY <1>1, <3>1 DEF ExecInv, ExecType
  <2>2. (WordInv => WordInv') /\ (HandlersInv => HandlersInv')
    BY <1>1 DEF WordInv, WordType, HandlersInv, HandlersType, HandlersRun
  <2> QED
    BY <2>1, <2>2 DEF FunInv
<1> QED
  BY <1>2, <1>3, <1>4, <1>5, <1>6, <1>7 DEF ProcsInv

\* The programs with one child keep what they share apart, and in order
LEMMA ChildAndParentKept ==
  ASSUME OneInv
  PROVE  Procs!ChildAndParent
<1> SUFFICES ASSUME pc["p"] = "exit"
             PROVE  Procs!ChildAndParent
  BY Zenon DEF Procs!ChildAndParent, Procs!Ended
<1>1. CASE prog = "fork_file_sharing"
  <2>1. s.seen = <<1000, TRUE>>
    BY <1>1, ZenonT(60) DEF OneInv, FileInv, FileSeen, Appending
  <2> QED
    BY <1>1, <2>1, Zenon DEF Procs!ChildAndParent
<1>2. CASE prog = "make_zombie"
  <2>1. s.seen = <<TRUE>> /\ (s.killed <=> pc["c1"] = "killed")
    BY <1>2, Zenon DEF OneInv, ZombieInv
  <2> QED
    BY <1>2, <2>1, Zenon DEF Procs!ChildAndParent
<1>3. CASE prog = "orphan"
  BY <1>3 DEF OneInv, OrphanInv, Procs!ChildAndParent
<1>4. CASE prog = "fork_whos_on_first"
  <2>1. /\ {s.out[i] : i \in DOMAIN s.out} = {"child", "parent"} \X (0 .. s.argc - 1)
        /\ \A i, j \in DOMAIN s.out : i < j => s.out[i][2] <= s.out[j][2]
    BY <1>4, WhosPrinted DEF OneInv
  <2> QED
    BY <1>4, <2>1, Zenon DEF Procs!ChildAndParent
<1>5. CASE prog = "footprint"
  BY <1>5 DEF OneInv, FootInv, Procs!ChildAndParent
<1>6. CASE prog = "t_fork"
  BY <1>6 DEF OneInv, ForkInv, ForkLine, Procs!ChildAndParent
<1>7. CASE prog = "t_vfork"
  <2>1. s.out = <<"child", "parent">> /\ s.seen = <<3>>
    BY <1>7, VforkOuts DEF OneInv, VforkInv, VforkSeen
  <2> QED
    BY <1>7, <2>1, Zenon DEF Procs!ChildAndParent
<1>8. CASE prog = "vfork_fd_test"
  <2>1. s.seen = <<<<"c1", TRUE>>, <<"p", TRUE>>, <<"p", FALSE>>>>
    BY <1>8, ClosesGrow, Zenon DEF OneInv, FdInv
  <2> QED
    BY <1>8, <2>1, Zenon DEF Procs!ChildAndParent
<1>9. CASE prog = "fork_stdio_buf"
  <2>1. Procs!Dead("c1") => s.out = StdioTwice(s.argc)
    BY <1>9 DEF OneInv, StdioInv, StdioType, Procs!Dead, Procs!Gone, Procs!Final
  <2> QED
    BY <1>9, <2>1, Zenon DEF StdioTwice, Procs!ChildAndParent
<1>10. CASE prog \notin Procs!OneChild \ {"child_status"}
  BY <1>10, ZenonT(60) DEF Procs!ChildAndParent, Procs!OneChild
<1> QED
  BY <1>1, <1>2, <1>3, <1>4, <1>5, <1>6, <1>7, <1>8, <1>9, <1>10 DEF Procs!OneChild

\* execlp, print_wait_status and exit_handlers
LEMMA FunctionsKept ==
  ASSUME FunInv
  PROVE  Procs!FunctionsCorrect
<1> SUFFICES ASSUME pc["p"] = "exit"
             PROVE  Procs!FunctionsCorrect
  BY DEF Procs!FunctionsCorrect, Procs!Ended
<1>1. CASE prog = "execlp"
  BY <1>1, ExecCorrect, Zenon DEF Procs!FunctionsCorrect, FunInv
<1>2. CASE prog = "print_wait_status"
  BY <1>2, Zenon DEF Procs!FunctionsCorrect, FunInv, WordInv, TakenApart
<1>3. CASE prog = "exit_handlers"
  BY <1>3, HandlersReversed, Zenon DEF Procs!FunctionsCorrect, FunInv
<1>4. CASE prog \notin {"execlp", "print_wait_status", "exit_handlers"}
  BY <1>4 DEF Procs!FunctionsCorrect
<1> QED
  BY <1>1, <1>2, <1>3, <1>4

\* And with it what the program promises
LEMMA ProcsInvSafe ==
  ASSUME ProcsInv
  PROVE  Procs!Safe
<1>1. Procs!AllCollected
  BY MultiCollected DEF ProcsInv, OneInv, StatusInv, Procs!AllCollected, Procs!Ended
<1> QED
  BY <1>1, SysReturns, SyncOrdered, CloneSees, PdSafe, ChildAndParentKept, FunctionsKept DEF ProcsInv, Procs!Safe

=============================================================================
