------------------------------ MODULE Threads -------------------------------
(***************************************************************************)
(* The programs of threads/ (and psem/thread_incr_psem.c): counters under  *)
(* several kinds of locks, producers and a consumer, one-time              *)
(* initialisation, cancellation with a cleanup handler, barriers, and      *)
(* strerror with three kinds of buffers.                                   *)
(***************************************************************************)
EXTENDS Unix

CONSTANTS
  Loops,    \* num-loops, and inner and outer loops
  Units,    \* units each producer makes
  Rounds,   \* num-barriers
  Spurious  \* bound: wakeups of pthread_cond_wait without a signal

Workers == DOMAIN pc \ {"main"}

-----------------------------------------------------------------------------
(* Increments of glob.  loc is the register between the read and the write *)

IncrProgs == {"thread_incr", "thread_incr_mutex", "thread_incr_spinlock",
              "thread_incr_rwlock", "thread_incr_psem", "thread_lock_speed"}

IncrInit ==
  /\ prog \in IncrProgs
  /\ pc = [a \in {"main", "t1", "t2"} |-> IF a = "main" THEN "create" ELSE "absent"]
  /\ \E m \in IF prog = "thread_lock_speed" THEN BOOLEAN ELSE {TRUE} :
       s = [glob |-> 0, loc |-> [t \in {"t1", "t2"} |-> 0], j |-> [t \in {"t1", "t2"} |-> 0],
            k |-> [t \in {"t1", "t2"} |-> 0], useMutex |-> m,
            mtx |-> Free, splock |-> 0, rwlock |-> <<Free, 0>>, sem |-> 1]

\* pthread_mutex_lock, pthread_spin_lock, pthread_rwlock_wrlock, sem_wait
MutexLock(t, st)   == IF st.mtx = Free THEN {[st EXCEPT !.mtx = t]} ELSE {}
SpinLock(t, st)    == IF st.splock = 0 THEN {[st EXCEPT !.splock = 1]} ELSE {}
WrLock(t, st)      == IF st.rwlock = <<Free, 0>> THEN {[st EXCEPT !.rwlock = <<t, 0>>]} ELSE {}
SemWait(t, st)     == IF st.sem > 0 THEN {[st EXCEPT !.sem = @ - 1]} ELSE {}

\* the loop of threadFunc: acquire, loc = glob, glob = loc + 1, release
Increment(t, acquired, released) ==
  \/ Go(t, "loop", "read") /\ s.j[t] < Loops /\ s' \in acquired
  \/ Go(t, "read", "write") /\ s' = [s EXCEPT !.loc[t] = s.glob]
  \/ Go(t, "write", "release") /\ s' = [s EXCEPT !.glob = s.loc[t] + 1]
  \/ Go(t, "release", "loop") /\ s' = [released EXCEPT !.j[t] = @ + 1]
  \/ Walk(t, "loop", "exit") /\ s.j[t] = Loops

\* main: both threads are created, then joined, then glob is printed
CreateJoin ==
  \/ /\ pc["main"] = "create" /\ UNCHANGED s
     /\ pc' = [a \in DOMAIN pc |-> IF a = "main" THEN "join" ELSE "loop"]
  \/ Walk("main", "join", "exit") /\ \A t \in Workers : Gone(t)

thread_incr(a) ==
  /\ prog = "thread_incr"
  /\ IF a = "main" THEN CreateJoin ELSE Increment(a, {s}, s)

thread_incr_mutex(a) ==
  /\ prog = "thread_incr_mutex"
  /\ IF a = "main" THEN CreateJoin ELSE Increment(a, MutexLock(a, s), [s EXCEPT !.mtx = Free])

thread_incr_spinlock(a) ==
  /\ prog = "thread_incr_spinlock"
  /\ IF a = "main" THEN CreateJoin ELSE Increment(a, SpinLock(a, s), [s EXCEPT !.splock = 0])

thread_incr_rwlock(a) ==
  /\ prog = "thread_incr_rwlock"
  /\ IF a = "main" THEN CreateJoin
                   ELSE Increment(a, WrLock(a, s), [s EXCEPT !.rwlock = <<Free, 0>>])

thread_incr_psem(a) ==
  /\ prog = "thread_incr_psem"
  /\ IF a = "main" THEN CreateJoin ELSE Increment(a, SemWait(a, s), [s EXCEPT !.sem = @ + 1])

\* threadFunc of thread_lock_speed.c: several increments under one lock
LockSpeedFunc(t) ==
  \/ /\ Go(t, "loop", "read") /\ s.j[t] < Loops
     /\ s' \in IF s.useMutex THEN MutexLock(t, s) ELSE SpinLock(t, s)
  \/ Go(t, "read", "write") /\ s.k[t] < Loops /\ s' = [s EXCEPT !.loc[t] = s.glob]
  \/ Go(t, "write", "read") /\ s' = [s EXCEPT !.glob = s.loc[t] + 1, !.k[t] = @ + 1]
  \/ /\ Go(t, "read", "loop") /\ s.k[t] = Loops
     /\ s' = IF s.useMutex THEN [s EXCEPT !.j[t] = @ + 1, !.k[t] = 0, !.mtx = Free]
                           ELSE [s EXCEPT !.j[t] = @ + 1, !.k[t] = 0, !.splock = 0]
  \/ Walk(t, "loop", "exit") /\ s.j[t] = Loops

thread_lock_speed(a) ==
  /\ prog = "thread_lock_speed"
  /\ IF a = "main" THEN CreateJoin ELSE LockSpeedFunc(a)

-----------------------------------------------------------------------------
(* prod_condvar.c and prod_no_condvar.c *)

ProdInit ==
  /\ prog \in {"prod_condvar", "prod_no_condvar"}
  /\ pc = [a \in {"main", "t1", "t2"} |-> IF a = "main" THEN "create" ELSE "absent"]
  /\ s = [mtx |-> Free, avail |-> 0, made |-> [t \in {"t1", "t2"} |-> 0], numConsumed |-> 0,
          totRequired |-> 0, done |-> FALSE, spurious |-> 0]

\* main: totRequired, and one thread per argument
CreateProducers ==
  /\ pc["main"] = "create"
  /\ pc' = [a \in DOMAIN pc |-> IF a = "main" THEN "lock" ELSE "loop"]
  /\ s' = [s EXCEPT !.totRequired = Units * Cardinality(Workers)]

Lock(a, from, to)   == Go(a, from, to) /\ s.mtx = Free /\ s' = [s EXCEPT !.mtx = a]
Unlock(a, from, to) == Go(a, from, to) /\ s' = [s EXCEPT !.mtx = Free]

\* producer; the unit is counted under the mutex
Produce(t, after) ==
  \/ Lock(t, "loop", "add") /\ s.made[t] < Units
  \/ Go(t, "add", "unlock") /\ s' = [s EXCEPT !.avail = @ + 1, !.made[t] = @ + 1]
  \/ Unlock(t, "unlock", after)
  \/ Walk(t, "loop", "exit") /\ s.made[t] = Units

\* while (avail > 0), with the mutex locked; then unlock, and leave when done
Consume ==
  \/ /\ Go("main", "consume", "consume") /\ s.avail > 0
     /\ s' = [s EXCEPT !.avail = @ - 1, !.numConsumed = @ + 1,
                       !.done = s.numConsumed + 1 >= s.totRequired]
  \/ Unlock("main", "consume", "more") /\ s.avail = 0
  \/ Walk("main", "more", IF s.done THEN "exit" ELSE "lock")

\* pthread_cond_signal: main may be waiting; the mutex has been released
Signal(t, from, to) ==
  /\ pc[t] = from /\ UNCHANGED s
  /\ pc' = [pc EXCEPT ![t] = to, !["main"] = IF @ = "wait" THEN "relock" ELSE @]

prod_condvar(a) ==
  /\ prog = "prod_condvar"
  /\ IF a # "main" THEN Produce(a, "signal") \/ Signal(a, "signal", "loop")
     ELSE \/ CreateProducers
          \/ Lock("main", "lock", "test") \/ Lock("main", "relock", "test")
          \/ Walk("main", "test", "consume") /\ s.avail > 0
          \/ Unlock("main", "test", "wait") /\ s.avail = 0
          \/ Consume

prod_no_condvar(a) ==
  /\ prog = "prod_no_condvar"
  /\ IF a # "main" THEN Produce(a, "loop")
     ELSE CreateProducers \/ Lock("main", "lock", "consume") \/ Consume

\* pthread_cond_wait may return although nobody has signalled
\* (bound: Spurious times in a run)
SpuriousWakeup ==
  /\ prog = "prod_condvar" /\ s.spurious < Spurious
  /\ Do("main", "wait", "relock", [s EXCEPT !.spurious = @ + 1])

-----------------------------------------------------------------------------
(* one_time_init.c: both threads call one_time_init twice *)

OnceInit ==
  /\ prog = "one_time_init"
  /\ pc = [a \in {"main", "t1", "t2"} |-> IF a = "main" THEN "create" ELSE "absent"]
  /\ s = [mtx |-> Free, called |-> 0, started |-> 0, finished |-> 0,
          returned |-> [t \in {"t1", "t2"} |-> 0]]

one_time_init(a) ==
  /\ prog = "one_time_init"
  /\ IF a = "main" THEN CreateJoin
     ELSE \/ Lock(a, "loop", "test") /\ s.returned[a] < 2
          \/ Walk(a, "test", "unlock") /\ s.called = 1
          \/ Do(a, "test", "init", [s EXCEPT !.started = @ + 1]) /\ s.called = 0
          \/ Do(a, "init", "unlock", [s EXCEPT !.finished = @ + 1, !.called = 1])
          \/ Do(a, "unlock", "loop", [s EXCEPT !.mtx = Free, !.returned[a] = @ + 1])
          \/ Walk(a, "loop", "exit") /\ s.returned[a] = 2

-----------------------------------------------------------------------------
(* thread_cleanup.c and thread_cancel.c: a cancellation takes effect at    *)
(* the next cancellation point of the thread; printf may be one            *)

CancelInit ==
  /\ prog \in {"thread_cleanup", "thread_cancel"}
  /\ pc = [a \in {"main", "t1"} |-> IF a = "main" THEN "create" ELSE "absent"]
  /\ \E argc \in {1, 2} :
       s = [argc |-> argc, mtx |-> Free, glob |-> 0, buf |-> "none", cancel |-> FALSE,
            pushed |-> FALSE, res |-> "none"]

\* cleanupHandler: the buffer is freed and the mutex unlocked
cleanupHandler(st) == [st EXCEPT !.buf = "freed", !.mtx = Free, !.pushed = FALSE]

\* the thread acts upon the cancellation: the handler that is pushed runs
Canceled(st) == [(IF st.pushed THEN cleanupHandler(st) ELSE st) EXCEPT !.res = "PTHREAD_CANCELED"]

\* Mutant: the handler is pushed only after the loop
CleanupThreadLate ==
  \/ Do("t1", "start", "printf", [s EXCEPT !.buf = "allocated"])
  \/ Walk("t1", "printf", "lock")
  \/ Do("t1", "printf", "exit", Canceled(s)) /\ s.cancel
  \/ Lock("t1", "lock", "push")
  \/ Walk("t1", "push", "while")
  \/ Unlock("t1", "while", "wait") /\ s.glob = 0 /\ ~s.cancel
  \/ Do("t1", "while", "exit", Canceled(s)) /\ s.glob = 0 /\ s.cancel
  \/ Do("t1", "wait", "exit", Canceled([s EXCEPT !.mtx = "t1"])) /\ s.cancel /\ s.mtx = Free
  \/ Lock("t1", "relock", "while")
  \/ Do("t1", "while", "exit", [cleanupHandler(s) EXCEPT !.res = "NULL"]) /\ s.glob = 1

\* threadFunc of thread_cleanup.c; cancelled in pthread_cond_wait, the thread
\* locks the mutex again before the handler runs
CleanupThread ==
  \/ Do("t1", "start", "printf", [s EXCEPT !.buf = "allocated"])
  \/ Walk("t1", "printf", "lock")
  \/ Do("t1", "printf", "exit", Canceled(s)) /\ s.cancel
  \/ Lock("t1", "lock", "push")
  \/ Do("t1", "push", "while", [s EXCEPT !.pushed = TRUE])
  \/ Unlock("t1", "while", "wait") /\ s.glob = 0 /\ ~s.cancel
  \/ Do("t1", "while", "exit", Canceled(s)) /\ s.glob = 0 /\ s.cancel
  \/ Do("t1", "wait", "exit", Canceled([s EXCEPT !.mtx = "t1"])) /\ s.cancel /\ s.mtx = Free
  \/ Lock("t1", "relock", "while")
  \/ Do("t1", "while", "exit", [cleanupHandler(s) EXCEPT !.res = "NULL"]) /\ s.glob = 1

\* main of thread_cleanup.c: cancel, or set glob under the mutex and signal
CleanupMain ==
  \/ /\ pc["main"] = "create" /\ UNCHANGED s
     /\ pc' = [a \in DOMAIN pc |-> IF a = "main" THEN "argc" ELSE "start"]
  \/ Do("main", "argc", "join", [s EXCEPT !.cancel = TRUE]) /\ s.argc = 1
  \/ Lock("main", "argc", "glob") /\ s.argc = 2
  \/ Do("main", "glob", "signal", [s EXCEPT !.glob = 1, !.mtx = Free])
  \/ /\ pc["main"] = "signal" /\ UNCHANGED s
     /\ pc' = [pc EXCEPT !["main"] = "join", !["t1"] = IF @ = "wait" THEN "relock" ELSE @]
  \/ Walk("main", "join", "exit") /\ Gone("t1")

thread_cleanup(a) ==
  prog = "thread_cleanup" /\ IF a = "main" THEN CleanupMain ELSE CleanupThread

thread_cancel(a) ==
  /\ prog = "thread_cancel"
  /\ IF a = "main"
     THEN \/ /\ pc["main"] = "create" /\ UNCHANGED s
             /\ pc' = [main |-> "cancel", t1 |-> "printf"]
          \/ Do("main", "cancel", "join", [s EXCEPT !.cancel = TRUE])
          \/ Walk("main", "join", "exit") /\ Gone("t1")
     ELSE \/ Walk("t1", "printf", "sleep")
          \/ Walk("t1", "sleep", "printf") /\ ~s.cancel
          \/ Do("t1", pc["t1"], "exit", Canceled(s)) /\ s.cancel /\ pc["t1"] \in {"printf", "sleep"}

-----------------------------------------------------------------------------
(* pthread_barrier_demo.c *)

BarrierInit ==
  /\ prog = "pthread_barrier_demo"
  /\ pc = [a \in {"main", "t1", "t2", "t3"} |-> IF a = "main" THEN "create" ELSE "absent"]
  /\ s = [j |-> [t \in {"t1", "t2", "t3"} |-> 0], waiting |-> {}, serial |-> <<>>, numThreads |-> 0]

\* pthread_barrier_wait: the last of numThreads callers lets all of them go
BarrierWait(t) ==
  /\ pc[t] = "sleep" /\ s.j[t] < Rounds
  /\ IF Cardinality(s.waiting \union {t}) < s.numThreads
     THEN pc' = [pc EXCEPT ![t] = "wait"] /\ s' = [s EXCEPT !.waiting = @ \union {t}]
     ELSE \E serial \in s.waiting \union {t} :
            /\ pc' = [a \in DOMAIN pc |-> IF a \in s.waiting \union {t} THEN "passed" ELSE pc[a]]
            /\ s' = [s EXCEPT !.waiting = {}, !.serial = Append(@, <<serial, s.j[serial]>>)]

BarrierThread(t) ==
  \/ BarrierWait(t)
  \/ Do(t, "passed", "sleep", [s EXCEPT !.j[t] = @ + 1])
  \/ Walk(t, "sleep", "exit") /\ s.j[t] = Rounds

BarrierMain ==
  \/ /\ pc["main"] = "create"
     /\ pc' = [a \in DOMAIN pc |-> IF a = "main" THEN "join" ELSE "sleep"]
     /\ s' = [s EXCEPT !.numThreads = Cardinality(Workers)]
  \/ Walk("main", "join", "exit") /\ \A t \in Workers : Gone(t)

pthread_barrier_demo(a) ==
  prog = "pthread_barrier_demo" /\ IF a = "main" THEN BarrierMain ELSE BarrierThread(a)

-----------------------------------------------------------------------------
(* strerror_test.c with the three versions of strerror: the address that   *)
(* the call returns is a key of buf                                        *)

StrerrorInit ==
  /\ prog = "strerror_test"
  /\ pc = [main |-> "call", t1 |-> "absent"]
  /\ \E v \in {"static", "tls", "tsd"} :
       s = [version |-> v, buf |-> << >>, str |-> [a \in {"main", "t1"} |-> <<"NULL">>],
            keys |-> 0, specific |-> [a \in {"main", "t1"} |-> <<"NULL">>], live |-> {}, seen |-> << >>]

\* f with val at key
Put(f, key, val) == [x \in DOMAIN f \cup {key} |-> IF x = key THEN val ELSE f[x]]

\* the message is copied to the buffer at addr, and addr is returned
Fill(st, a, addr, err) ==
  [st EXCEPT !.buf = Put(@, addr, err), !.str[a] = addr]

strerror(a, err) == Fill(s, a, <<"static">>, err)

strerror_tls(a, err) == Fill(s, a, <<"tls", a>>, err)

\* the first caller creates the key, each thread allocates a buffer once
strerror_tsd(a, err) ==
  LET keyed == [s EXCEPT !.keys = IF @ = 0 THEN 1 ELSE @]
      addr  == <<"malloc", a>>
  IN  Fill(IF s.specific[a] # <<"NULL">> THEN keyed
           ELSE [keyed EXCEPT !.specific[a] = addr, !.live = @ \union {addr}], a, addr, err)

Call(a, err) ==
  CASE s.version = "static" -> strerror(a, err)
    [] s.version = "tls"    -> strerror_tls(a, err)
    [] s.version = "tsd"    -> strerror_tsd(a, err)

\* the thread is gone: the destructor frees its buffer
destructor(a, st) == [st EXCEPT !.live = @ \ {st.specific[a]}, !.specific[a] = <<"NULL">>]

\* main calls strerror(EINVAL), and reads the string after the other thread's strerror(EPERM)
strerror_test(a) ==
  /\ prog = "strerror_test"
  /\ IF a = "main"
     THEN \/ Do("main", "call", "create", Call("main", "EINVAL"))
          \/ pc["main"] = "create" /\ UNCHANGED s /\ pc' = [main |-> "join", t1 |-> "call"]
          \/ Do("main", "join", "exit", [s EXCEPT !.seen = Put(@, "main", s.buf[s.str["main"]])])
             /\ Gone("t1")
     ELSE \/ Do("t1", "call", "print", Call("t1", "EPERM"))
          \/ Do("t1", "print", "exit",
                destructor("t1", [s EXCEPT !.seen = Put(@, "t1", s.buf[s.str["t1"]])]))

-----------------------------------------------------------------------------
Init == IncrInit \/ ProdInit \/ OnceInit \/ CancelInit \/ BarrierInit \/ StrerrorInit

Step(a) ==
  \/ thread_incr(a) \/ thread_incr_mutex(a) \/ thread_incr_spinlock(a)
  \/ thread_incr_rwlock(a) \/ thread_incr_psem(a) \/ thread_lock_speed(a)
  \/ prod_condvar(a) \/ prod_no_condvar(a) \/ one_time_init(a)
  \/ thread_cleanup(a) \/ thread_cancel(a) \/ pthread_barrier_demo(a) \/ strerror_test(a)

Env == SpuriousWakeup

\* prod_no_condvar spins on the mutex and may keep the producers from it
MustEnd == (IncrProgs \union {"prod_condvar", "one_time_init", "thread_cleanup", "thread_cancel",
                              "pthread_barrier_demo", "strerror_test"})
Programs == MustEnd \cup {"prod_no_condvar"}

Ended == pc["main"] = "exit"

\* No increment is lost under a lock, whatever the lock; without one the
\* counter ends anywhere between 2 and the sum (main of thread_incr*.c)
Counted ==
  prog \in IncrProgs /\ Ended =>
    CASE prog = "thread_incr"       -> s.glob \in 2 .. 2 * Loops
      [] prog = "thread_lock_speed" -> s.glob = 2 * Loops * Loops
      [] OTHER                      -> s.glob = 2 * Loops

\* Every unit made is consumed, once, and the consumer leaves only then
Consumed ==
  prog \in {"prod_condvar", "prod_no_condvar"} =>
    /\ s.numConsumed + s.avail = s.made["t1"] + s.made["t2"]
    /\ Ended => s.numConsumed = 2 * Units /\ s.avail = 0

\* init_func runs once, and has returned before any one_time_init returns
InitOnce ==
  prog = "one_time_init" =>
    /\ s.started <= 1
    /\ \A t \in Workers : s.returned[t] > 0 => s.finished = 1

\* After the join the mutex is free and the buffer freed; only a cancellation
\* at the printf before pthread_cleanup_push leaks the buffer
CleanedUp ==
  prog = "thread_cleanup" /\ Ended =>
    /\ s.mtx = Free
    /\ s.res = "NULL" <=> s.argc = 2
    /\ s.buf = "freed" \/ (s.res = "PTHREAD_CANCELED" /\ s.buf = "allocated" /\ ~s.pushed)

\* No thread is past a barrier that another has not reached, and one of
\* them gets PTHREAD_BARRIER_SERIAL_THREAD each time
InStep ==
  prog = "pthread_barrier_demo" =>
    /\ \A t, u \in Workers : s.j[t] <= s.j[u] + 1
    /\ \A t, u \in Workers : s.j[t] > s.j[u] => pc[u] = "passed"
    /\ Ended => [i \in DOMAIN s.serial |-> s.serial[i][2]] = [i \in 1 .. Rounds |-> i - 1]

\* The string main holds survives the other thread's call exactly with the
\* thread-safe versions, and the buffer of a thread that is gone is freed
StringKept ==
  prog = "strerror_test" /\ Ended =>
    /\ s.seen["t1"] = "EPERM"
    /\ s.seen["main"] = IF s.version = "static" THEN "EPERM" ELSE "EINVAL"
    /\ s.live \subseteq {<<"malloc", "main">>}

Safe == Counted /\ Consumed /\ InitOnce /\ CleanedUp /\ InStep /\ StringKept
=============================================================================
