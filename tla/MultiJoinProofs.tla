--------------------------- MODULE MultiJoinProofs ---------------------------
(***************************************************************************)
(* The joining loop of thread_multijoin.c is safe for any number of        *)
(* threads.                                                                *)
(***************************************************************************)
EXTENDS MultiJoin, FiniteSetTheorems, TLAPS

\* The inductive invariant.  The mutex is held exactly in the
\* critical sections; a thread's state lags behind what it does; and the counters
\* count, also inside the critical sections.
Counted == {t \in Threads : state[t] = "TERMINATED" \/ tpc[t] = "mark"}
Exclusion ==
  /\ \A t \in Threads : tpc[t] \in {"count", "mark", "unlock"} <=> mutex = t
  /\ mpc \in {"check", "scan"} <=> mutex = Main
StateLags ==
  \A t \in Threads :
     /\ state[t] = "ALIVE" <=> tpc[t] \in {"unborn", "sleep", "count", "mark"}
     /\ state[t] = "JOINED" => tpc[t] = "ended" /\ mpc # "create"
     /\ mpc = "create" => (tpc[t] = "unborn" <=> t >= idx)
Counting ==
  /\ numUnjoined = Cardinality(Counted)
  /\ mpc # "create" => numLive = Cardinality(Unjoined)
  /\ mpc = "exit" => numLive = 0
IInv == TypeOK /\ Exclusion /\ StateLags /\ Counting
-----------------------------------------------------------------------------
\* Every set of threads is finite and has at most N members.
LEMMA ThreadSets ==
  ASSUME NEW S, S \subseteq Threads
  PROVE  IsFiniteSet(S) /\ Cardinality(S) \in 0..N
<1>1. IsFiniteSet(Threads) /\ Cardinality(Threads) = N
  BY MultiJoinAssumption, FS_Interval DEF Threads
<1>2. IsFiniteSet(S) /\ Cardinality(S) <= N
  BY <1>1, FS_Subset
<1>3. Cardinality(S) \in Nat
  BY <1>2, FS_CardinalityType
<1>. QED  BY <1>2, <1>3, MultiJoinAssumption

\* Adding a thread to a set of threads, and taking one out.
LEMMA AddThread ==
  ASSUME NEW S, S \subseteq Threads, NEW t, t \in Threads \ S
  PROVE  Cardinality(S \cup {t}) = Cardinality(S) + 1
  BY ThreadSets, FS_AddElement

LEMMA RemoveThread ==
  ASSUME NEW S, S \subseteq Threads, NEW t, t \in S
  PROVE  Cardinality(S \ {t}) = Cardinality(S) - 1
  BY ThreadSets, FS_RemoveElement

LEMMA InitIInv == Init => IInv
<1>. SUFFICES ASSUME Init PROVE IInv
  OBVIOUS
<1>1. TypeOK
  BY MultiJoinAssumption DEF Init, TypeOK, Threads, Free, Main
<1>2. Exclusion /\ StateLags
  BY MultiJoinAssumption DEF Init, Exclusion, StateLags, Threads, Free, Main
<1>3. Counted = {}
  BY DEF Init, Counted
<1>4. Counting
  BY <1>3, FS_EmptySet DEF Init, Counting
<1>. QED  BY <1>1, <1>2, <1>4 DEF IInv

\* Steps that touch neither a state nor a counter, and enter or leave no "mark".
LEMMA SameCounts ==
  ASSUME Counting, Counted' = Counted, state' = state, numLive' = numLive,
         numUnjoined' = numUnjoined, mpc' # "create" => mpc # "create",
         mpc' = "exit" => numLive = 0
  PROVE  Counting'
<1>1. Unjoined' = Unjoined
  BY DEF Unjoined
<1>. QED  BY <1>1 DEF Counting

\* The steps of a thread.
LEMMA ThreadIInv ==
  ASSUME IInv, NEW t \in Threads, ThreadStep(t)
  PROVE  IInv'
<1>0. t \in Int /\ TypeOK /\ Exclusion /\ StateLags /\ Counting
  BY MultiJoinAssumption DEF IInv, Threads
<1>1. CASE ThreadLock(t)
  <2>1. TypeOK'
    BY <1>0, <1>1, MultiJoinAssumption DEF ThreadLock, Thread, Lock, Unlock, TypeOK, Exclusion, StateLags, Threads, Free, Main
  <2>2. Exclusion' /\ StateLags'
    BY <1>0, <1>1, MultiJoinAssumption DEF ThreadLock, Thread, Lock, Unlock, TypeOK, Exclusion, StateLags, Threads, Free, Main
  <2>3. Counted' = Counted
    BY <1>0, <1>1 DEF ThreadLock, Counted, Thread, TypeOK
  <2>4. Counting'
    BY <1>0, <1>1, <2>3, SameCounts DEF ThreadLock, Counting
  <2>. QED  BY <2>1, <2>2, <2>4 DEF IInv
<1>2. CASE ThreadCount(t)
  <2>1. Exclusion' /\ StateLags'
    BY <1>0, <1>2 DEF ThreadCount, Thread, Lock, Unlock, TypeOK, Exclusion, StateLags, Threads, Free, Main
  <2>2. Counted' = Counted \cup {t} /\ t \in Threads \ Counted
    BY <1>0, <1>2 DEF ThreadCount, Counted, Thread, TypeOK, StateLags
  <2>3. Counted \subseteq Threads /\ Counted' \subseteq Threads
    BY DEF Counted
  <2>4. Cardinality(Counted') = Cardinality(Counted) + 1
    BY <2>2, <2>3, AddThread
  <2>5. Counting'
    BY <1>0, <1>2, <2>4 DEF ThreadCount, Counting, Unjoined
  <2>6. numUnjoined' \in 0..N
    BY <2>3, <2>5, ThreadSets DEF Counting
  <2>7. TypeOK'
    BY <1>0, <1>2, <2>6 DEF ThreadCount, Thread, TypeOK
  <2>. QED  BY <2>1, <2>5, <2>7 DEF IInv
<1>3. CASE ThreadMark(t)
  <2>1. TypeOK'
    BY <1>0, <1>3 DEF ThreadMark, Thread, TypeOK
  <2>2. Exclusion' /\ StateLags'
    BY <1>0, <1>3 DEF ThreadMark, Thread, Lock, Unlock, TypeOK, Exclusion, StateLags, Threads, Free, Main
  <2>3. Counted' = Counted
    BY <1>0, <1>3 DEF ThreadMark, Counted, Thread, TypeOK
  <2>4. Unjoined' = Unjoined
    BY <1>0, <1>3 DEF ThreadMark, Unjoined, Thread, TypeOK, StateLags
  <2>5. Counting'
    BY <1>0, <1>3, <2>3, <2>4 DEF ThreadMark, Counting
  <2>. QED  BY <2>1, <2>2, <2>5 DEF IInv
<1>4. CASE ThreadUnlock(t)
  <2>1. TypeOK'
    BY <1>0, <1>4, MultiJoinAssumption DEF ThreadUnlock, Thread, Lock, Unlock, TypeOK, Exclusion, StateLags, Threads, Free, Main
  <2>2. Exclusion' /\ StateLags'
    BY <1>0, <1>4, MultiJoinAssumption DEF ThreadUnlock, Thread, Lock, Unlock, TypeOK, Exclusion, StateLags, Threads, Free, Main
  <2>3. Counted' = Counted
    BY <1>0, <1>4 DEF ThreadUnlock, Counted, Thread, TypeOK
  <2>4. Counting'
    BY <1>0, <1>4, <2>3, SameCounts DEF ThreadUnlock, Counting
  <2>. QED  BY <2>1, <2>2, <2>4 DEF IInv
<1>5. CASE ThreadSignal(t)
  <2>1. TypeOK'
    BY <1>0, <1>5, MultiJoinAssumption DEF ThreadSignal, Thread, Lock, Unlock, TypeOK, Exclusion, StateLags, Threads, Free, Main
  <2>2. Exclusion' /\ StateLags'
    BY <1>0, <1>5, MultiJoinAssumption DEF ThreadSignal, Thread, Lock, Unlock, TypeOK, Exclusion, StateLags, Threads, Free, Main
  <2>3. Counted' = Counted
    BY <1>0, <1>5 DEF ThreadSignal, Counted, Thread, TypeOK
  <2>4. Counting'
    BY <1>0, <1>5, <2>3, SameCounts DEF ThreadSignal, Counting
  <2>. QED  BY <2>1, <2>2, <2>4 DEF IInv
<1>. QED  BY <1>1, <1>2, <1>3, <1>4, <1>5 DEF ThreadStep

\* The steps of the main thread, spurious wakeups among them.
LEMMA MainIInv ==
  ASSUME IInv, MainStep \/ SpuriousWakeup
  PROVE  IInv'
<1>0. TypeOK /\ Exclusion /\ StateLags /\ Counting /\ N \in Nat \ {0}
  BY MultiJoinAssumption DEF IInv
<1>1. CASE Create
  <2>1. TypeOK'
    BY <1>0, <1>1 DEF Create, TypeOK, Threads
  <2>2. Exclusion' /\ StateLags'
    BY <1>0, <1>1 DEF Create, MainGoTo, Lock, Unlock, TypeOK, Exclusion, StateLags, Threads, Free, Main
  <2>3. Counted' = Counted
    BY <1>0, <1>1 DEF Create, Counted, TypeOK, StateLags
  <2>4. Counting'
    BY <1>0, <1>1, <2>3 DEF Create, Counting
  <2>. QED  BY <2>1, <2>2, <2>4 DEF IInv
<1>2. CASE Created
  <2>1. TypeOK'
    BY <1>0, <1>2 DEF Created, MainGoTo, TypeOK
  <2>2. Exclusion' /\ StateLags'
    BY <1>0, <1>2 DEF Created, MainGoTo, Lock, Unlock, TypeOK, Exclusion, StateLags, Threads, Free, Main
  <2>3. Counted' = Counted /\ Unjoined' = Threads
    BY <1>0, <1>2 DEF Created, Counted, Unjoined, StateLags, MainGoTo
  <2>4. Cardinality(Threads) = N
    BY <1>0, FS_Interval DEF Threads
  <2>5. Counting'
    BY <1>0, <1>2, <2>3, <2>4 DEF Created, Counting, MainGoTo
  <2>. QED  BY <2>1, <2>2, <2>5 DEF IInv
<1>3. CASE MainLock
  <2>1. TypeOK'
    BY <1>0, <1>3 DEF MainLock, MainGoTo, Lock, Unlock, TypeOK, Threads
  <2>2. Exclusion' /\ StateLags'
    BY <1>0, <1>3 DEF MainLock, MainGoTo, Lock, Unlock, TypeOK, Exclusion, StateLags, Threads, Free, Main
  <2>3. Counted' = Counted
    BY <1>3 DEF MainLock, Counted
  <2>4. Counting'
    BY <1>0, <1>3, <2>3, SameCounts DEF MainLock, MainGoTo, Counting
  <2>. QED  BY <2>1, <2>2, <2>4 DEF IInv
<1>4. CASE MainExit
  <2>1. TypeOK'
    BY <1>0, <1>4 DEF MainExit, MainGoTo, Lock, Unlock, TypeOK, Threads
  <2>2. Exclusion' /\ StateLags'
    BY <1>0, <1>4 DEF MainExit, MainGoTo, Lock, Unlock, TypeOK, Exclusion, StateLags, Threads, Free, Main
  <2>3. Counted' = Counted
    BY <1>4 DEF MainExit, Counted
  <2>4. Counting'
    BY <1>0, <1>4, <2>3, SameCounts DEF MainExit, MainGoTo, Counting
  <2>. QED  BY <2>1, <2>2, <2>4 DEF IInv
<1>5. CASE Wait
  <2>1. TypeOK'
    BY <1>0, <1>5 DEF Wait, MainGoTo, Lock, Unlock, TypeOK, Threads
  <2>2. Exclusion' /\ StateLags'
    BY <1>0, <1>5 DEF Wait, MainGoTo, Lock, Unlock, TypeOK, Exclusion, StateLags, Threads, Free, Main
  <2>3. Counted' = Counted
    BY <1>5 DEF Wait, Counted
  <2>4. Counting'
    BY <1>0, <1>5, <2>3, SameCounts DEF Wait, MainGoTo, Counting
  <2>. QED  BY <2>1, <2>2, <2>4 DEF IInv
<1>6. CASE Relock
  <2>1. TypeOK'
    BY <1>0, <1>6 DEF Relock, MainGoTo, Lock, Unlock, TypeOK, Threads
  <2>2. Exclusion' /\ StateLags'
    BY <1>0, <1>6 DEF Relock, MainGoTo, Lock, Unlock, TypeOK, Exclusion, StateLags, Threads, Free, Main
  <2>3. Counted' = Counted
    BY <1>6 DEF Relock, Counted
  <2>4. Counting'
    BY <1>0, <1>6, <2>3, SameCounts DEF Relock, MainGoTo, Counting
  <2>. QED  BY <2>1, <2>2, <2>4 DEF IInv
<1>7. CASE StartScan
  <2>1. TypeOK'
    BY <1>0, <1>7 DEF StartScan, MainGoTo, Lock, Unlock, TypeOK, Threads
  <2>2. Exclusion' /\ StateLags'
    BY <1>0, <1>7 DEF StartScan, MainGoTo, Lock, Unlock, TypeOK, Exclusion, StateLags, Threads, Free, Main
  <2>3. Counted' = Counted
    BY <1>7 DEF StartScan, Counted
  <2>4. Counting'
    BY <1>0, <1>7, <2>3, SameCounts DEF StartScan, MainGoTo, Counting
  <2>. QED  BY <2>1, <2>2, <2>4 DEF IInv
<1>8. CASE Join
  <2>1. idx \in Threads /\ mpc = "scan" /\ mpc' = mpc
    BY <1>8 DEF Join
  <2>2. Exclusion' /\ StateLags'
    BY <1>0, <1>8 DEF Join, MainGoTo, Lock, Unlock, TypeOK, Exclusion, StateLags, Threads, Free, Main
  <2>3. Counted' = Counted \ {idx} /\ idx \in Counted
    BY <1>0, <1>8 DEF Join, Counted, TypeOK
  <2>4. Unjoined' = Unjoined \ {idx} /\ idx \in Unjoined
    BY <1>0, <1>8 DEF Join, Unjoined, TypeOK
  <2>5. Counted \subseteq Threads /\ Unjoined \subseteq Threads
    BY DEF Counted, Unjoined
  <2>6. /\ Cardinality(Counted') = Cardinality(Counted) - 1
        /\ Cardinality(Unjoined') = Cardinality(Unjoined) - 1
    BY <2>3, <2>4, <2>5, RemoveThread
  <2>7. Counting'
    BY <1>0, <1>8, <2>1, <2>6 DEF Join, Counting
  <2>8. numUnjoined' \in 0..N /\ numLive' \in 0..N
    <3>1. Counted' \subseteq Threads /\ Unjoined' \subseteq Threads
      BY <2>3, <2>4, <2>5
    <3>. QED  BY <2>1, <2>7, <3>1, ThreadSets DEF Counting
  <2>9. TypeOK'
    BY <1>0, <1>8, <2>8 DEF Join, TypeOK, Threads
  <2>. QED  BY <2>2, <2>7, <2>9 DEF IInv
<1>9. CASE PassOver
  <2>1. TypeOK'
    BY <1>0, <1>9 DEF PassOver, MainGoTo, Lock, Unlock, TypeOK, Threads
  <2>2. Exclusion' /\ StateLags'
    BY <1>0, <1>9 DEF PassOver, MainGoTo, Lock, Unlock, TypeOK, Exclusion, StateLags, Threads, Free, Main
  <2>3. Counted' = Counted
    BY <1>9 DEF PassOver, Counted
  <2>4. Counting'
    BY <1>0, <1>9, <2>3, SameCounts DEF PassOver, MainGoTo, Counting
  <2>. QED  BY <2>1, <2>2, <2>4 DEF IInv
<1>10. CASE EndScan
  <2>1. TypeOK'
    BY <1>0, <1>10 DEF EndScan, MainGoTo, Lock, Unlock, TypeOK, Threads
  <2>2. Exclusion' /\ StateLags'
    BY <1>0, <1>10 DEF EndScan, MainGoTo, Lock, Unlock, TypeOK, Exclusion, StateLags, Threads, Free, Main
  <2>3. Counted' = Counted
    BY <1>10 DEF EndScan, Counted
  <2>4. Counting'
    BY <1>0, <1>10, <2>3, SameCounts DEF EndScan, MainGoTo, Counting
  <2>. QED  BY <2>1, <2>2, <2>4 DEF IInv
<1>11. CASE SpuriousWakeup
  <2>1. TypeOK'
    BY <1>0, <1>11 DEF SpuriousWakeup, MainGoTo, Lock, Unlock, TypeOK, Threads
  <2>2. Exclusion' /\ StateLags'
    BY <1>0, <1>11 DEF SpuriousWakeup, MainGoTo, Lock, Unlock, TypeOK, Exclusion, StateLags, Threads, Free, Main
  <2>3. Counted' = Counted
    BY <1>11 DEF SpuriousWakeup, Counted
  <2>4. Counting'
    BY <1>0, <1>11, <2>3, SameCounts DEF SpuriousWakeup, MainGoTo, Counting
  <2>. QED  BY <2>1, <2>2, <2>4 DEF IInv
<1>. QED  BY <1>1, <1>2, <1>3, <1>4, <1>5, <1>6, <1>7, <1>8, <1>9, <1>10, <1>11 DEF MainStep

LEMMA NextIInv == IInv /\ [Next]_vars => IInv'
<1>. SUFFICES ASSUME IInv, [Next]_vars PROVE IInv'
  OBVIOUS
<1>1. CASE UNCHANGED vars
  BY <1>1 DEF vars, IInv, TypeOK, Exclusion, StateLags, Counting, Counted, Unjoined
<1>2. CASE \E t \in Threads : ThreadStep(t)
  BY <1>2, ThreadIInv
<1>3. CASE MainStep \/ SpuriousWakeup
  BY <1>3, MainIInv
<1>. QED  BY <1>1, <1>2, <1>3 DEF Next, Exited

\* The inductive invariant holds throughout, for any number of threads.
THEOREM MultiJoinInvariant == Spec => []IInv
  BY InitIInv, NextIInv, PTL DEF Spec

\* The counters of thread_multijoin.c stay between 0 and the number of threads,
\* and everything else has its type.
THEOREM MultiJoinTypeOK == Spec => []TypeOK
<1>1. IInv => TypeOK
  BY DEF IInv
<1>. QED  BY <1>1, MultiJoinInvariant, PTL

\* With the mutex free, numUnjoined and numLive are exactly what the comments on
\* their declarations say.
THEOREM MultiJoinCountsExact == Spec => []CountsExact
<1>1. ASSUME IInv PROVE CountsExact
  <2>1. SUFFICES ASSUME mutex = Free PROVE Counted = Terminated
    BY <1>1 DEF IInv, Counting, CountsExact
  <2>2. \A t \in Threads : tpc[t] # "mark"
    BY <1>1, <2>1, MultiJoinAssumption DEF IInv, Exclusion, Threads, Free
  <2>. QED  BY <2>2 DEF Counted, Terminated
<1>. QED  BY <1>1, MultiJoinInvariant, PTL

\* The thread that the main thread waits for in pthread_join, with threadMutex
\* held, is past its use of the mutex.
THEOREM MultiJoinNeverBlocks == Spec => []JoinNeverBlocks
<1>1. ASSUME IInv PROVE JoinNeverBlocks
  <2>. SUFFICES ASSUME mpc = "scan", NEW t \in Threads, state[t] = "TERMINATED"
               PROVE  tpc[t] \in {"signal", "ended"}
    BY DEF JoinNeverBlocks
  <2>1. mutex = Main /\ mutex # t
    BY <1>1, MultiJoinAssumption DEF IInv, Exclusion, Threads, Main
  <2>. QED  BY <1>1, <2>1 DEF IInv, TypeOK, Exclusion, StateLags
<1>. QED  BY <1>1, MultiJoinInvariant, PTL

\* When the main thread of thread_multijoin.c exits, every thread has ended and
\* has been joined.
THEOREM MultiJoinAllJoined == Spec => []AllJoined
<1>1. ASSUME IInv PROVE AllJoined
  <2>. SUFFICES ASSUME mpc = "exit" PROVE \A t \in Threads : state[t] = "JOINED" /\ tpc[t] = "ended"
    BY DEF AllJoined
  <2>1. IsFiniteSet(Unjoined) /\ Cardinality(Unjoined) = 0
    <3>1. Unjoined \subseteq Threads
      BY DEF Unjoined
    <3>. QED  BY <1>1, <3>1, ThreadSets DEF IInv, Counting
  <2>2. Unjoined = {}
    BY <2>1, FS_EmptySet
  <2>. QED  BY <1>1, <2>2 DEF IInv, StateLags, Unjoined
<1>. QED  BY <1>1, MultiJoinInvariant, PTL
=============================================================================
