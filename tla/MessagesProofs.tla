--------------------------- MODULE MessagesProofs ---------------------------
(***************************************************************************)
(* Proofs about the programs of svsem/, pmsg/, psem/ and pshm/, for any    *)
(* number of messages, any size of the queue and any number of tries of    *)
(* svsem_good_init.c: SemaphoresInv and IpcInv are the conjunctions of the *)
(* invariants of the programs.                                             *)
(***************************************************************************)
EXTENDS UnixMessages, FiniteSetTheorems, SequenceTheorems, TLAPS

-----------------------------------------------------------------------------
(* svsem_good_init.c, svsem_bad_init.c *)

\* the two processes
P2 == {"p1", "p2"}

RaceState == [exists : BOOLEAN, val : Int, otime : {0, 1}, ops : Nat, tries : [P2 -> Int], lost : Nat]

\* One process has created the set, and until it has done the first semop nobody else uses the semaphore
GoodInv ==
  prog = "svsem_good_init" =>
    /\ pc \in [P2 -> {"semget", "existing", "setval", "noop", "semop", "exit", "failed", "killed"}]
    /\ s \in RaceState
    /\ s.lost = 0
    /\ ~s.exists => s.otime = 0 /\ \A a \in P2 : pc[a] = "semget"
    /\ \A a \in P2 : pc[a] = "noop" => s.val = 0
    /\ \A a, b \in P2 : pc[a] \in {"setval", "noop"} /\ a # b =>
         s.otime = 0 /\ pc[b] \in {"semget", "existing", "failed"}
    /\ s.otime = 0 => s.ops = 0 /\ \A a \in P2 : pc[a] \notin {"semop", "exit"}
    /\ s.otime = 1 => s.val = s.ops

\* Once the creator has done its SETVAL, only the operations before it are lost
BadInv ==
  prog = "svsem_bad_init" =>
    /\ pc \in [P2 -> {"semget", "existing", "setval", "semop", "exit"}]
    /\ s \in RaceState
    /\ ~s.exists => \A a \in P2 : pc[a] = "semget"
    /\ s.exists /\ (\A a \in P2 : pc[a] # "setval") => s.val = s.ops - s.lost

LEMMA RaceInit ==
  ASSUME Semaphores!RaceInit
  PROVE  GoodInv /\ BadInv
<1> PICK p \in Semaphores!InitProgs, junk \in {0, 7} :
      Semaphores!Start(p, [p1 |-> "semget", p2 |-> "semget"],
          [exists |-> FALSE, val |-> junk, otime |-> 0, ops |-> 0, tries |-> [a \in {"p1", "p2"} |-> 0], lost |-> 0])
  BY DEF Semaphores!RaceInit
<1> DEFINE f == FALSE
<1>1. /\ pc = [p1 |-> "semget", p2 |-> "semget"]
      /\ s = [exists |-> f, val |-> junk, otime |-> 0, ops |-> 0, tries |-> [a \in {"p1", "p2"} |-> 0], lost |-> 0]
  BY DEF Semaphores!Start
<1>2. f \in BOOLEAN /\ ~f
  OBVIOUS
<1> HIDE DEF f
<1>3. s \in RaceState /\ s.lost = 0 /\ ~s.exists /\ s.otime = 0 /\ s.ops = 0
  BY <1>1, <1>2 DEF RaceState, P2
<1>4. pc \in [P2 -> {"semget"}] /\ \A a \in P2 : pc[a] = "semget"
  BY <1>1 DEF P2
<1> QED
  BY <1>3, <1>4 DEF GoodInv, BadInv

\* What a step does to the semaphore
LEMMA RaceFields ==
  ASSUME s \in RaceState
  PROVE  /\ s' = [s EXCEPT !.exists = TRUE]
              => s' \in RaceState /\ s'.exists /\ s'.val = s.val /\ s'.otime = s.otime /\ s'.ops = s.ops /\ s'.lost = s.lost
         /\ s' = [s EXCEPT !.val = 0, !.lost = s.ops]
              => s' \in RaceState /\ s'.exists = s.exists /\ s'.val = 0 /\ s'.otime = s.otime /\ s'.ops = s.ops /\ s'.lost = s.ops
         /\ s' = [s EXCEPT !.val = @ + 1, !.otime = 1, !.ops = @ + 1]
              => s' \in RaceState /\ s'.exists = s.exists /\ s'.val = s.val + 1 /\ s'.otime = 1 /\ s'.ops = s.ops + 1 /\ s'.lost = s.lost
         /\ s' = [s EXCEPT !.otime = 1]
              => s' \in RaceState /\ s'.exists = s.exists /\ s'.val = s.val /\ s'.otime = 1 /\ s'.ops = s.ops /\ s'.lost = s.lost
         /\ \A a \in P2 : s' = [s EXCEPT !.tries[a] = @ + 1]
              => s' \in RaceState /\ s'.exists = s.exists /\ s'.val = s.val /\ s'.otime = s.otime /\ s'.ops = s.ops /\ s'.lost = s.lost
<1>0. s = [exists |-> s.exists, val |-> s.val, otime |-> s.otime, ops |-> s.ops, tries |-> s.tries, lost |-> s.lost]
  BY DEF RaceState
<1>1. s' = [s EXCEPT !.exists = TRUE]
        => s' \in RaceState /\ s'.exists /\ s'.val = s.val /\ s'.otime = s.otime /\ s'.ops = s.ops /\ s'.lost = s.lost
  <2> DEFINE t == TRUE
  <2>1. t \in BOOLEAN /\ t
    OBVIOUS
  <2> HIDE DEF t
  <2>2. s' = [s EXCEPT !.exists = t]
          => s' \in RaceState /\ s'.exists = t /\ s'.val = s.val /\ s'.otime = s.otime /\ s'.ops = s.ops /\ s'.lost = s.lost
    BY <2>1 DEF RaceState
  <2> QED
    BY <2>1, <2>2, Zenon DEF t
<1>2. ASSUME s' = [s EXCEPT !.val = 0, !.lost = s.ops]
      PROVE  s' \in RaceState /\ s'.exists = s.exists /\ s'.val = 0 /\ s'.otime = s.otime /\ s'.ops = s.ops /\ s'.lost = s.ops
  <2>1. s' = [exists |-> s.exists, val |-> 0, otime |-> s.otime, ops |-> s.ops, tries |-> s.tries, lost |-> s.ops]
    BY <1>0, <1>2
  <2> QED
    BY <2>1 DEF RaceState
<1>3. ASSUME s' = [s EXCEPT !.val = @ + 1, !.otime = 1, !.ops = @ + 1]
      PROVE  /\ s' \in RaceState /\ s'.exists = s.exists /\ s'.val = s.val + 1 /\ s'.otime = 1 /\ s'.ops = s.ops + 1
             /\ s'.lost = s.lost
  <2> DEFINE v == s.val + 1  n == s.ops + 1
  <2>1. v \in Int /\ n \in Nat
    BY DEF RaceState
  <2>2. s' = [s EXCEPT !.val = v, !.otime = 1, !.ops = n]
    BY <1>3
  <2> HIDE DEF v, n
  <2>3. s' = [exists |-> s.exists, val |-> v, otime |-> 1, ops |-> n, tries |-> s.tries, lost |-> s.lost]
    BY <1>0, <2>2
  <2>4. s' \in RaceState /\ s'.exists = s.exists /\ s'.val = v /\ s'.otime = 1 /\ s'.ops = n /\ s'.lost = s.lost
    BY <2>1, <2>3 DEF RaceState
  <2> QED
    BY <2>4 DEF v, n
<1>4. s' = [s EXCEPT !.otime = 1]
        => s' \in RaceState /\ s'.exists = s.exists /\ s'.val = s.val /\ s'.otime = 1 /\ s'.ops = s.ops /\ s'.lost = s.lost
  BY DEF RaceState
<1>5. ASSUME NEW a \in P2, s' = [s EXCEPT !.tries[a] = @ + 1]
      PROVE  s' \in RaceState /\ s'.exists = s.exists /\ s'.val = s.val /\ s'.otime = s.otime /\ s'.ops = s.ops /\ s'.lost = s.lost
  BY <1>5 DEF RaceState
<1> QED
  BY <1>1, <1>2, <1>3, <1>4, <1>5

\* The step of a program is the one of its name
LEMMA SemaphoresStepOf ==
  ASSUME NEW a, Semaphores!Step(a)
  PROVE  /\ prog = "svsem_good_init" => Semaphores!svsem_good_init(a)
         /\ prog = "svsem_bad_init" => Semaphores!svsem_bad_init(a)
         /\ prog = "svsem_op" => Semaphores!svsem_op(a)
         /\ prog = "svsem_demo" => Semaphores!svsem_demo(a)
         /\ prog = "event_flags" => Semaphores!event_flags(a)
         /\ prog = "svsem_create" =>
              Semaphores!svsem_create(a) \/ Semaphores!svsem_setall(a) \/ Semaphores!svsem_mon(a)
  BY DEF Semaphores!Step, Semaphores!svsem_good_init, Semaphores!svsem_bad_init, Semaphores!svsem_op,
     Semaphores!svsem_demo, Semaphores!event_flags, Semaphores!svsem_create, Semaphores!svsem_setall,
     Semaphores!svsem_mon

\* A step of svsem_bad_init
LEMMA BadStep ==
  ASSUME prog = "svsem_bad_init", prog' = prog, BadInv, NEW a \in DOMAIN pc, Semaphores!Step(a)
  PROVE  BadInv'
<1>0. /\ pc \in [P2 -> {"semget", "existing", "setval", "semop", "exit"}] /\ a \in P2
      /\ s \in RaceState
      /\ ~s.exists => \A b \in P2 : pc[b] = "semget"
      /\ s.exists /\ (\A b \in P2 : pc[b] # "setval") => s.val = s.ops - s.lost
  BY DEF BadInv
<1> USE DEF Semaphores!Do, Semaphores!Go, Semaphores!Walk
<1>1. CASE Semaphores!Create(a)
  <2>1. /\ s' \in RaceState /\ s'.exists /\ s'.val = s.val /\ s'.ops = s.ops /\ s'.lost = s.lost
        /\ pc[a] = "semget" /\ pc' = [pc EXCEPT ![a] = IF s.exists THEN "existing" ELSE "setval"]
    BY <1>0, <1>1, RaceFields DEF Semaphores!Create
  <2> QED
    BY <1>0, <2>1 DEF BadInv
<1>2. CASE Semaphores!SetVal(a, "semop")
  <2>1. /\ s' \in RaceState /\ s'.exists = s.exists /\ s'.val = 0 /\ s'.ops = s.ops /\ s'.lost = s.ops
        /\ pc[a] = "setval" /\ pc' = [pc EXCEPT ![a] = "semop"]
    BY <1>0, <1>2, RaceFields DEF Semaphores!SetVal
  <2>2. s.ops \in Nat
    BY <1>0 DEF RaceState
  <2> QED
    BY <1>0, <2>1, <2>2 DEF BadInv
<1>3. CASE Semaphores!Walk(a, "existing", "semop")
  BY <1>0, <1>3 DEF BadInv
<1>4. CASE Semaphores!AddOne(a)
  <2>1. /\ s' \in RaceState /\ s'.exists = s.exists /\ s'.val = s.val + 1 /\ s'.ops = s.ops + 1 /\ s'.lost = s.lost
        /\ pc[a] = "semop" /\ pc' = [pc EXCEPT ![a] = "exit"]
    BY <1>0, <1>4, RaceFields DEF Semaphores!AddOne
  <2>2. s.ops \in Nat /\ s.val \in Int /\ s.lost \in Nat
    BY <1>0 DEF RaceState
  <2> QED
    BY <1>0, <2>1, <2>2 DEF BadInv
<1> QED
  BY <1>1, <1>2, <1>3, <1>4, SemaphoresStepOf DEF Semaphores!svsem_bad_init

\* A step of svsem_good_init, or the end of the creator
LEMMA GoodStep ==
  ASSUME prog = "svsem_good_init", prog' = prog, GoodInv,
         (\E a \in DOMAIN pc : Semaphores!Step(a)) \/ Semaphores!Env
  PROVE  GoodInv'
<1>0. /\ pc \in [P2 -> {"semget", "existing", "setval", "noop", "semop", "exit", "failed", "killed"}]
      /\ s \in RaceState
      /\ s.lost = 0
      /\ ~s.exists => s.otime = 0 /\ \A a \in P2 : pc[a] = "semget"
      /\ \A a \in P2 : pc[a] = "noop" => s.val = 0
      /\ \A a, b \in P2 : pc[a] \in {"setval", "noop"} /\ a # b =>
           s.otime = 0 /\ pc[b] \in {"semget", "existing", "failed"}
      /\ s.otime = 0 => s.ops = 0 /\ \A a \in P2 : pc[a] \notin {"semop", "exit"}
      /\ s.otime = 1 => s.val = s.ops
  BY DEF GoodInv
<1>t. s.ops \in Nat /\ s.val \in Int /\ s.otime \in {0, 1} /\ s.exists \in BOOLEAN
  BY <1>0 DEF RaceState
<1>p. "p1" # "p2" /\ \A a \in P2 : \E b \in P2 : a # b
  BY DEF P2
<1> USE DEF Semaphores!Do, Semaphores!Go, Semaphores!Walk
<1>1. ASSUME NEW a \in P2, Semaphores!Create(a)
      PROVE  GoodInv'
  <2>1. /\ s' \in RaceState /\ s'.exists /\ s'.val = s.val /\ s'.otime = s.otime /\ s'.ops = s.ops /\ s'.lost = s.lost
        /\ pc[a] = "semget" /\ pc' = [pc EXCEPT ![a] = IF s.exists THEN "existing" ELSE "setval"]
    BY <1>0, <1>1, RaceFields DEF Semaphores!Create
  <2>2. ~s.exists => s.otime = 0
    BY <1>0, <1>t
  <2> QED
    BY <1>0, <1>t, <2>1 DEF GoodInv
<1>2. ASSUME NEW a \in P2, Semaphores!SetVal(a, "noop")
      PROVE  GoodInv'
  <2>1. /\ s' \in RaceState /\ s'.exists = s.exists /\ s'.val = 0 /\ s'.otime = s.otime /\ s'.ops = s.ops /\ s'.lost = s.ops
        /\ pc[a] = "setval" /\ pc' = [pc EXCEPT ![a] = "noop"]
    BY <1>0, <1>2, RaceFields DEF Semaphores!SetVal
  <2> QED
    BY <1>0, <1>t, <1>p, <2>1 DEF GoodInv
<1>3. ASSUME NEW a \in P2, Semaphores!Do(a, "noop", "semop", [s EXCEPT !.otime = 1]), s.val = 0
      PROVE  GoodInv'
  <2>1. /\ s' \in RaceState /\ s'.exists = s.exists /\ s'.val = s.val /\ s'.otime = 1 /\ s'.ops = s.ops /\ s'.lost = s.lost
        /\ pc[a] = "noop" /\ pc' = [pc EXCEPT ![a] = "semop"]
    BY <1>0, <1>3, RaceFields
  <2> QED
    BY <1>0, <1>t, <1>p, <1>3, <2>1 DEF GoodInv
<1>4. ASSUME NEW a \in P2, Semaphores!Initialized(a)
      PROVE  GoodInv'
  <2>1. ASSUME NEW to \in {"existing", "failed"}, Semaphores!Do(a, "existing", to, [s EXCEPT !.tries[a] = @ + 1])
        PROVE  GoodInv'
    <3>1. s' \in RaceState /\ s'.exists = s.exists /\ s'.val = s.val /\ s'.otime = s.otime /\ s'.ops = s.ops /\ s'.lost = s.lost
      BY <1>0, <2>1, RaceFields
    <3>2. pc[a] = "existing" /\ pc' = [pc EXCEPT ![a] = to]
      BY <2>1
    <3>3. CASE to = "existing"
      <4>1. pc' = pc
        BY <1>0, <3>2, <3>3
      <4> QED
        BY <1>0, <3>1, <4>1 DEF GoodInv
    <3>4. CASE to = "failed"
      BY <1>0, <1>t, <3>1, <3>2, <3>4 DEF GoodInv
    <3> QED
      BY <2>1, <3>3, <3>4
  <2>2. CASE s' = s /\ pc[a] = "existing" /\ s.otime # 0 /\ pc' = [pc EXCEPT ![a] = "semop"]
    BY <1>0, <1>t, <2>2 DEF GoodInv
  <2>3. PICK to \in {"existing", "failed"} : to = IF s.tries[a] + 1 < MaxTries THEN "existing" ELSE "failed"
    OBVIOUS
  <2> QED
    BY <1>4, <2>1, <2>2, <2>3 DEF Semaphores!Initialized
<1>5. ASSUME NEW a \in P2, Semaphores!AddOne(a)
      PROVE  GoodInv'
  <2>1. /\ s' \in RaceState /\ s'.exists = s.exists /\ s'.val = s.val + 1 /\ s'.otime = 1 /\ s'.ops = s.ops + 1 /\ s'.lost = s.lost
        /\ pc[a] = "semop" /\ pc' = [pc EXCEPT ![a] = "exit"]
    BY <1>0, <1>5, RaceFields DEF Semaphores!AddOne
  <2>2. s.otime = 1 /\ \A b \in P2 : pc[b] \notin {"setval", "noop"}
    BY <1>0, <1>t, <1>p, <2>1
  <2> QED
    BY <1>0, <1>t, <2>1, <2>2 DEF GoodInv
<1>6. ASSUME NEW a \in P2, pc[a] \in {"setval", "noop"}, pc' = [pc EXCEPT ![a] = "killed"], s' = s
      PROVE  GoodInv'
  BY <1>0, <1>t, <1>6 DEF GoodInv
<1>7. Semaphores!Env => \E a \in P2 : pc[a] \in {"setval", "noop"} /\ pc' = [pc EXCEPT ![a] = "killed"] /\ s' = s
  BY DEF Semaphores!Env, Semaphores!CreatorKilled, P2
<1>8. \A a \in DOMAIN pc : a \in P2
  BY <1>0
<1> QED
  BY <1>1, <1>2, <1>3, <1>4, <1>5, <1>6, <1>7, <1>8, SemaphoresStepOf DEF Semaphores!svsem_good_init

\* What the two programs promise
LEMMA RaceInitialized ==
  ASSUME GoodInv, BadInv
  PROVE  Semaphores!Initialization
<1>1. prog = "svsem_good_init" => s.lost = 0 /\ (s.ops > 0 => s.val = s.ops)
  BY DEF GoodInv, RaceState
<1>2. prog = "svsem_bad_init" /\ (\A a \in {"p1", "p2"} : pc[a] = "exit") => s.val = s.ops - s.lost
  BY DEF BadInv, P2
<1> QED
  BY <1>1, <1>2 DEF Semaphores!Initialization

-----------------------------------------------------------------------------
(* semop, for the groups of operations of svsem_op.c and svsem_demo.c      *)

Operation == [num : {0, 1}, op : Int, flags : SUBSET {"n", "u"}]

\* A group names a semaphore once, in order, and undoes only what it takes from the first
Group(g) ==
  /\ g \in Seq(Operation) /\ Len(g) \in 0 .. 2
  /\ Len(g) = 2 => g[1].num = 0 /\ g[2].num = 1
  /\ \A k \in 1 .. Len(g) : "u" \in g[k].flags => g[k].op <= 0

\* One operation after others, as Apply does it
After(r, o) ==
  LET v == r.sems[o.num + 1]
  IN  IF r.blocked # << >> THEN r
      ELSE IF (o.op = 0 /\ v # 0) \/ v + o.op < 0 THEN [r EXCEPT !.blocked = <<o>>]
      ELSE [r EXCEPT !.sems[o.num + 1] = v + o.op]

Before(sems) == [sems |-> sems, blocked |-> << >>]

\* What the first operations of a group come to
Done(sems, g, done) == done = [k \in 0 .. Len(g) |-> IF k = 0 THEN Before(sems) ELSE After(done[k - 1], g[k])]

LEMMA ApplyDef ==
  ASSUME NEW sems, NEW g, NEW f, Done(sems, g, f)
  PROVE  \E done : Done(sems, g, done) /\ Semaphores!Apply(sems, g) = done[Len(g)]
  BY DEF Done, Before, After, Semaphores!Apply

\* A group of at most two operations is done one after the other
LEMMA ApplyGroup ==
  ASSUME NEW sems, NEW g \in Seq(Operation), Len(g) \in 0 .. 2
  PROVE  Semaphores!Apply(sems, g) = IF Len(g) = 0 THEN Before(sems)
                                     ELSE IF Len(g) = 1 THEN After(Before(sems), g[1])
                                     ELSE After(After(Before(sems), g[1]), g[2])
<1> DEFINE f == [k \in 0 .. Len(g) |-> IF k = 0 THEN Before(sems)
                                       ELSE IF k = 1 THEN After(Before(sems), g[1])
                                       ELSE After(After(Before(sems), g[1]), g[2])]
<1>1. Done(sems, g, f)
  BY DEF Done
<1>2. PICK done : Done(sems, g, done) /\ Semaphores!Apply(sems, g) = done[Len(g)]
  BY <1>1, ApplyDef
<1> HIDE DEF f
<1>3. done[0] = Before(sems)
  BY <1>2 DEF Done
<1>4. Len(g) # 0 => done[1] = After(done[0], g[1])
  BY <1>2 DEF Done
<1>5. Len(g) = 2 => done[2] = After(done[1], g[2])
  BY <1>2 DEF Done
<1>6. Semaphores!Apply(sems, g) = done[Len(g)]
  BY <1>2
<1>7. CASE Len(g) = 0
  BY <1>3, <1>6, <1>7
<1>8. CASE Len(g) = 1
  BY <1>3, <1>4, <1>6, <1>8
<1>9. CASE Len(g) = 2
  BY <1>3, <1>4, <1>5, <1>6, <1>9
<1> QED
  BY <1>7, <1>8, <1>9

Values == [1 .. 2 -> Nat]

\* An operation that is done leaves a value below 0 nowhere, and every other semaphore alone
LEMMA AfterOne ==
  ASSUME NEW v \in Values, NEW o \in Operation, NEW q, After([sems |-> v, blocked |-> q], o).blocked = << >>
  PROVE  /\ q = << >>
         /\ v[o.num + 1] + o.op \in Nat
         /\ After([sems |-> v, blocked |-> q], o) = Before([v EXCEPT ![o.num + 1] = v[o.num + 1] + o.op])
<1> DEFINE r == [sems |-> v, blocked |-> q]
<1>1. r.sems = v /\ r.blocked = q
  OBVIOUS
<1>2. q = << >>
  BY DEF After
<1>3. << o >> # << >>
  OBVIOUS
<1>4. ~((o.op = 0 /\ v[o.num + 1] # 0) \/ v[o.num + 1] + o.op < 0)
  BY <1>1, <1>2, <1>3 DEF After
<1>5. v[o.num + 1] \in Nat /\ o.op \in Int
  BY DEF Values, Operation
<1> QED
  BY <1>2, <1>4, <1>5 DEF After, Before

\* What a group does to semaphore i: the operation on it, if there is one
Share(i, g) ==
  LET mine == {k \in DOMAIN g : g[k].num + 1 = i}
  IN  IF mine = {} THEN 0 ELSE g[CHOOSE k \in mine : TRUE].op

LEMMA Shares ==
  ASSUME NEW g, Group(g), NEW i \in 1 .. 2
  PROVE  /\ Share(i, g) \in Int
         /\ Len(g) = 0 => Share(i, g) = 0
         /\ Len(g) = 1 => Share(i, g) = IF g[1].num + 1 = i THEN g[1].op ELSE 0
         /\ Len(g) = 2 => Share(i, g) = g[i].op
<1> DEFINE mine == {k \in DOMAIN g : g[k].num + 1 = i}  m == CHOOSE k \in mine : TRUE
<1>0. g \in Seq(Operation) /\ DOMAIN g = 1 .. Len(g) /\ \A k \in 1 .. Len(g) : g[k] \in Operation
  BY DEF Group
<1>1. mine # {} => m \in mine
  OBVIOUS
<1>2. Share(i, g) = IF mine = {} THEN 0 ELSE g[m].op
  BY DEF Share
<1>3. /\ \A k \in mine : k \in 1 .. Len(g) /\ g[k].num + 1 = i
      /\ \A k \in 1 .. Len(g) : g[k].num + 1 = i => k \in mine
  BY <1>0
<1> HIDE DEF mine, m
<1>4. Share(i, g) \in Int
  <2>1. mine # {} => g[m] \in Operation
    BY <1>0, <1>1, <1>3
  <2> QED
    BY <1>2, <2>1 DEF Operation
<1>5. CASE Len(g) = 0
  <2>1. mine = {}
    BY <1>3, <1>5
  <2> QED
    BY <1>2, <1>4, <1>5, <2>1
<1>6. CASE Len(g) = 1
  <2>1. \A k \in 1 .. Len(g) : k = 1
    BY <1>6
  <2>2. mine # {} => m = 1 /\ g[1].num + 1 = i
    BY <1>1, <1>3, <2>1
  <2>3. 1 \in 1 .. Len(g)
    BY <1>6
  <2>4. mine = {} => g[1].num + 1 # i
    BY <1>3, <2>3
  <2> QED
    BY <1>2, <1>4, <1>6, <2>2, <2>4
<1>7. CASE Len(g) = 2
  <2>1. g[1].num = 0 /\ g[2].num = 1
    BY <1>7 DEF Group
  <2>2. \A k \in 1 .. Len(g) : k = 1 \/ k = 2
    BY <1>7
  <2>3. i = 1 \/ i = 2
    OBVIOUS
  <2>4. \A k \in mine : k = i
    BY <1>3, <2>1, <2>2, <2>3
  <2>5. i \in 1 .. Len(g) /\ g[i].num + 1 = i
    BY <1>7, <2>1, <2>3
  <2>6. i \in mine
    BY <1>3, <2>5
  <2>7. m = i /\ mine # {}
    BY <1>1, <2>4, <2>6
  <2> QED
    BY <1>2, <1>4, <1>7, <2>7
<1> QED
  BY <1>4, <1>5, <1>6, <1>7 DEF Group

\* A group that is done is done as a whole
LEMMA GroupDone ==
  ASSUME NEW v \in Values, NEW g, Group(g), Semaphores!Apply(v, g).blocked = << >>
  PROVE  /\ Semaphores!Apply(v, g).sems \in Values
         /\ \A i \in 1 .. 2 : Semaphores!Apply(v, g).sems[i] = v[i] + Share(i, g)
<1>0. /\ g \in Seq(Operation) /\ Len(g) \in 0 .. 2 /\ \A k \in 1 .. Len(g) : g[k] \in Operation
      /\ \A i \in 1 .. 2 : v[i] \in Nat
  BY DEF Group, Values
<1> DEFINE r == Semaphores!Apply(v, g)
<1>1. r = IF Len(g) = 0 THEN Before(v)
          ELSE IF Len(g) = 1 THEN After(Before(v), g[1])
          ELSE After(After(Before(v), g[1]), g[2])
  BY <1>0, ApplyGroup
<1>2. r.blocked = << >>
  OBVIOUS
<1> HIDE DEF r
<1>3. CASE Len(g) = 0
  BY <1>0, <1>1, <1>3, Shares DEF Before, r
<1>4. CASE Len(g) = 1
  <2>1. r = After(Before(v), g[1]) /\ g[1] \in Operation
    BY <1>0, <1>1, <1>4
  <2> DEFINE w == [v EXCEPT ![g[1].num + 1] = v[g[1].num + 1] + g[1].op]
  <2>2. v[g[1].num + 1] + g[1].op \in Nat /\ r = Before(w)
    BY <1>2, <2>1, AfterOne DEF Before
  <2>3. g[1].num + 1 \in 1 .. 2 /\ g[1].op \in Int
    BY <2>1 DEF Operation
  <2>4. w \in Values /\ \A i \in 1 .. 2 : w[i] = IF g[1].num + 1 = i THEN v[i] + g[1].op ELSE v[i]
    BY <2>2, <2>3 DEF Values
  <2> HIDE DEF w
  <2>5. r.sems = w
    BY <2>2 DEF Before
  <2>6. \A i \in 1 .. 2 : Share(i, g) = IF g[1].num + 1 = i THEN g[1].op ELSE 0
    BY <1>4, Shares
  <2> QED
    BY <1>0, <2>3, <2>4, <2>5, <2>6 DEF r
<1>5. CASE Len(g) = 2
  <2>0. g[1] \in Operation /\ g[2] \in Operation /\ g[1].num = 0 /\ g[2].num = 1
    BY <1>0, <1>5 DEF Group
  <2> DEFINE x == After(Before(v), g[1])  w == [v EXCEPT ![1] = v[1] + g[1].op]
  <2>1. r = After(x, g[2])
    BY <1>0, <1>1, <1>5
  <2>2. x.blocked = << >>
    BY <1>2, <2>1 DEF After
  <2>3. v[1] + g[1].op \in Nat /\ x = Before(w)
    BY <2>0, <2>2, AfterOne DEF Before
  <2>4. w \in Values /\ w[1] = v[1] + g[1].op /\ w[2] = v[2]
    BY <2>3 DEF Values
  <2> HIDE DEF w, x
  <2> DEFINE u == [w EXCEPT ![2] = w[2] + g[2].op]
  <2>5. w[2] + g[2].op \in Nat /\ r = Before(u)
    BY <1>2, <2>0, <2>1, <2>3, <2>4, AfterOne DEF Before
  <2>6. u \in Values /\ u[1] = w[1] /\ u[2] = w[2] + g[2].op
    BY <2>4, <2>5 DEF Values
  <2> HIDE DEF u
  <2>7. r.sems = u
    BY <2>5 DEF Before
  <2>8. Share(1, g) = g[1].op /\ Share(2, g) = g[2].op
    BY <1>5, Shares
  <2> QED
    BY <2>4, <2>6, <2>7, <2>8 DEF r
<1> QED
  BY <1>0, <1>3, <1>4, <1>5

OpProgs == {"svsem_op", "svsem_demo"}

OpState == [arg : [P2 -> Seq(Operation)], sems : Values, start : Values, adj : [P2 -> Nat], done : SUBSET P2]

\* what process a has added to semaphore i so far
Effect(i, a) ==
  IF a \notin s.done THEN 0 ELSE Share(i, s.arg[a]) + IF i = 1 /\ pc[a] = "exit" THEN s.adj[a] ELSE 0

\* The groups that completed, and the adjustments taken back, are all that has changed the set.
\* svsem_demo's operations are without flags, so that it has no adjustments
OpInv ==
  prog \in OpProgs =>
    /\ pc \in [P2 -> {"parse", "semop", "completed", "exit", "failed"}]
    /\ s \in OpState
    /\ \A a \in P2 : Group(s.arg[a])
    /\ \A a \in P2 : a \in s.done <=> pc[a] \in {"completed", "exit"}
    /\ \A i \in 1 .. 2 : s.sems[i] = s.start[i] + Effect(i, "p1") + Effect(i, "p2")
    /\ prog = "svsem_demo" => \A a \in P2 : /\ s.adj[a] = 0
                                            /\ pc[a] # "parse" => \A k \in 1 .. Len(s.arg[a]) : s.arg[a][k].flags = {}

\* The arguments of the programs are groups
LEMMA OpGroups ==
  ASSUME NEW g \in Semaphores!OpArgs \cup {Semaphores!Parsed(1, "+", 1, {})}
  PROVE  Group(g)
<1> DEFINE op(n, o, f) == [num |-> n, op |-> o, flags |-> f]
<1>1. \/ g = <<op(0, -1, {})>> \o <<op(1, -1, {})>>
      \/ g = <<op(0, -1, {"u"})>> \/ g = <<op(1, 1, {})>> \/ g = <<op(0, 0, {})>> \/ g = << >>
      \/ g = <<op(0, 1, {})>> \o <<op(1, -1, {"n"})>>
  BY DEF Semaphores!OpArgs, Semaphores!Parsed, Semaphores!Op
<1>2. \A n \in {0, 1}, o \in {-1, 0, 1}, f \in SUBSET {"n", "u"} :
        op(n, o, f) \in Operation /\ op(n, o, f).num = n /\ op(n, o, f).op = o /\ op(n, o, f).flags = f
  BY DEF Operation
<1> HIDE DEF op
<1>3. ASSUME NEW x \in Operation, "u" \in x.flags => x.op <= 0
      PROVE  Group(<<x>>)
  BY <1>3 DEF Group
<1>4. ASSUME NEW x \in Operation, NEW y \in Operation, x.num = 0, y.num = 1, "u" \notin x.flags, "u" \notin y.flags
      PROVE  Group(<<x>> \o <<y>>)
  <2> DEFINE z == <<x>> \o <<y>>
  <2>1. z \in Seq(Operation) /\ Len(z) = 2 /\ z[1] = x /\ z[2] = y
    OBVIOUS
  <2> HIDE DEF z
  <2>2. \A k \in 1 .. Len(z) : k = 1 \/ k = 2
    BY <2>1
  <2>3. Group(z)
    BY <1>4, <2>1, <2>2 DEF Group
  <2> QED
    BY <2>3 DEF z
<1>5. Group(<< >>)
  BY DEF Group
<1>6. Group(<<op(0, -1, {})>> \o <<op(1, -1, {})>>) /\ Group(<<op(0, 1, {})>> \o <<op(1, -1, {"n"})>>)
  BY <1>2, <1>4
<1>7. Group(<<op(0, -1, {"u"})>>) /\ Group(<<op(1, 1, {})>>) /\ Group(<<op(0, 0, {})>>)
  BY <1>2, <1>3
<1> QED
  BY <1>1, <1>5, <1>6, <1>7

LEMMA OpStart ==
  ASSUME Semaphores!OpInit
  PROVE  OpInv
<1> PICK a1 \in Semaphores!OpArgs, a2 \in Semaphores!OpArgs, v \in 0 .. 1, pid \in OpProgs :
      Semaphores!Start(pid, [p1 |-> "parse", p2 |-> "parse"],
          [arg |-> [p1 |-> a1, p2 |-> IF pid = "svsem_demo" THEN a2 ELSE Semaphores!Parsed(1, "+", 1, {})],
           sems |-> <<v, 1>>, start |-> <<v, 1>>, adj |-> [p1 |-> 0, p2 |-> 0], done |-> {}])
  BY DEF Semaphores!OpInit, OpProgs
<1> DEFINE b == IF pid = "svsem_demo" THEN a2 ELSE Semaphores!Parsed(1, "+", 1, {})  x == <<v, 1>>
<1>1. Group(a1) /\ Group(b)
  BY OpGroups
<1>2. x \in Values
  BY DEF Values
<1>3. /\ pc = [p1 |-> "parse", p2 |-> "parse"]
      /\ s = [arg |-> [p1 |-> a1, p2 |-> b], sems |-> x, start |-> x, adj |-> [p1 |-> 0, p2 |-> 0], done |-> {}]
  BY DEF Semaphores!Start
<1> HIDE DEF b, x
<1>4. a1 \in Seq(Operation) /\ b \in Seq(Operation)
  BY <1>1 DEF Group
<1>5. s \in OpState /\ \A a \in P2 : Group(s.arg[a]) /\ s.adj[a] = 0
  BY <1>1, <1>2, <1>3, <1>4 DEF OpState, P2
<1>6. s.sems = x /\ s.start = x /\ s.done = {} /\ \A i \in 1 .. 2 : x[i] \in Nat
  BY <1>2, <1>3 DEF Values
<1>7. pc \in [P2 -> {"parse"}]
  BY <1>3 DEF P2
<1> QED
  BY <1>5, <1>6, <1>7 DEF OpInv, Effect

\* Doing a group, or failing
LEMMA SemopStep ==
  ASSUME prog \in OpProgs, prog' = prog, OpInv, NEW a \in P2, Semaphores!Semop(a)
  PROVE  OpInv'
<1> DEFINE g == s.arg[a]  r == Semaphores!Apply(s.sems, g)
           undo == {k \in DOMAIN g : "u" \in g[k].flags}
           back == IF undo = {} THEN s.adj[a] ELSE s.adj[a] - g[CHOOSE k \in undo : TRUE].op
<1>0. /\ pc \in [P2 -> {"parse", "semop", "completed", "exit", "failed"}]
      /\ s \in OpState
      /\ \A b \in P2 : Group(s.arg[b])
      /\ \A b \in P2 : b \in s.done <=> pc[b] \in {"completed", "exit"}
      /\ \A i \in 1 .. 2 : s.sems[i] = s.start[i] + Effect(i, "p1") + Effect(i, "p2")
      /\ prog = "svsem_demo" => \A b \in P2 : /\ s.adj[b] = 0
                                              /\ pc[b] # "parse" => \A k \in 1 .. Len(s.arg[b]) : s.arg[b][k].flags = {}
  BY DEF OpInv
<1>1. CASE pc[a] = "semop" /\ pc' = [pc EXCEPT ![a] = "failed"] /\ s' = s
  <2>1. \A i \in 1 .. 2, b \in P2 : Effect(i, b)' = Effect(i, b)
    BY <1>0, <1>1 DEF Effect
  <2> QED
    BY <1>0, <1>1, <2>1 DEF OpInv, P2
<1>2. CASE /\ r.blocked = << >> /\ pc[a] = "semop" /\ pc' = [pc EXCEPT ![a] = "completed"]
           /\ s' = [s EXCEPT !.sems = r.sems, !.done = @ \union {a}, !.adj[a] = back]
  <2>1. Group(g) /\ s.sems \in Values /\ s.start \in Values /\ s.adj[a] \in Nat
    BY <1>0 DEF OpState
  <2>2. r.sems \in Values /\ \A i \in 1 .. 2 : r.sems[i] = s.sems[i] + Share(i, g)
    BY <1>2, <2>1, GroupDone
  <2>3. back \in Nat
    <3>1. undo # {} => (CHOOSE k \in undo : TRUE) \in undo
      OBVIOUS
    <3>2. DOMAIN g = 1 .. Len(g) /\ \A k \in 1 .. Len(g) : g[k].op \in Int /\ ("u" \in g[k].flags => g[k].op <= 0)
      <4>1. DOMAIN g = 1 .. Len(g) /\ \A k \in 1 .. Len(g) : g[k] \in Operation
        BY <2>1 DEF Group
      <4>2. \A k \in 1 .. Len(g) : "u" \in g[k].flags => g[k].op <= 0
        BY <2>1 DEF Group
      <4> QED
        BY <4>1, <4>2 DEF Operation
    <3>3. \A k \in undo : g[k].op \in Int /\ g[k].op <= 0
      BY <3>2
    <3> QED
      BY <2>1, <3>1, <3>3
  <2>4. prog = "svsem_demo" => back = 0
    <3>1. DOMAIN g = 1 .. Len(g)
      BY <2>1 DEF Group
    <3>2. prog = "svsem_demo" => s.adj[a] = 0 /\ \A k \in 1 .. Len(g) : g[k].flags = {}
      <4> HIDE DEF back, r, undo
      <4> QED
        BY <1>0, <1>2
    <3>3. (\A k \in 1 .. Len(g) : g[k].flags = {}) => undo = {}
      BY <3>1
    <3> QED
      BY <3>2, <3>3
  <2> HIDE DEF back, r, undo
  <2> DEFINE new == [s.adj EXCEPT ![a] = back]
  <2>5. new \in [P2 -> Nat] /\ new[a] = back /\ \A b \in P2 : b # a => new[b] = s.adj[b]
    BY <1>0, <2>3 DEF OpState
  <2>6. s' = [arg |-> s.arg, sems |-> r.sems, start |-> s.start, adj |-> new, done |-> s.done \cup {a}]
    BY <1>0, <1>2 DEF OpState
  <2> HIDE DEF new
  <2>7. /\ s' \in OpState
        /\ s'.arg = s.arg /\ s'.sems = r.sems /\ s'.start = s.start /\ s'.adj = new /\ s'.done = s.done \cup {a}
    BY <1>0, <2>2, <2>5, <2>6 DEF OpState
  <2>8. \A b \in P2 : b # a => pc'[b] = pc[b]
    BY <1>0, <1>2
  <2>9. pc'[a] = "completed" /\ pc' \in [P2 -> {"parse", "semop", "completed", "exit", "failed"}]
    BY <1>0, <1>2
  <2>10. \A i \in 1 .. 2 : Effect(i, a) = 0 /\ Effect(i, a)' = Share(i, g)
    <3>1. a \notin s.done /\ a \in s'.done /\ s'.arg[a] = g
      BY <1>0, <1>2, <2>7
    <3>2. \A i \in 1 .. 2 : Share(i, g) \in Int
      BY <2>1, Shares
    <3> QED
      BY <2>9, <3>1, <3>2 DEF Effect
  <2>11. \A i \in 1 .. 2, b \in P2 : b # a => Effect(i, b)' = Effect(i, b)
    BY <2>5, <2>7, <2>8 DEF Effect
  <2>12. \A i \in 1 .. 2 : s'.sems[i] = s'.start[i] + Effect(i, "p1")' + Effect(i, "p2")'
    <3>1. \A i \in 1 .. 2, b \in P2 : Effect(i, b) \in Int
      <4>1. \A i \in 1 .. 2, b \in P2 : Share(i, s.arg[b]) \in Int /\ s.adj[b] \in Nat
        BY <1>0, Shares DEF OpState
      <4> QED
        BY <4>1 DEF Effect
    <3>2. \A i \in 1 .. 2 : Share(i, g) \in Int /\ s.start[i] \in Nat
      BY <2>1, Shares DEF Values
    <3> SUFFICES ASSUME NEW i \in 1 .. 2
                 PROVE  s'.sems[i] = s'.start[i] + Effect(i, "p1")' + Effect(i, "p2")'
      OBVIOUS
    <3>3. s'.sems[i] = s.start[i] + Effect(i, "p1") + Effect(i, "p2") + Share(i, g) /\ s'.start[i] = s.start[i]
      BY <1>0, <2>2, <2>7
    <3>4. Effect(i, "p1") \in Int /\ Effect(i, "p2") \in Int /\ Share(i, g) \in Int /\ s.start[i] \in Int
      BY <3>1, <3>2 DEF P2
    <3>5. CASE a = "p1"
      <4>1. Effect(i, "p1") = 0 /\ Effect(i, "p1")' = Share(i, g) /\ Effect(i, "p2")' = Effect(i, "p2")
        BY <2>10, <2>11, <3>5 DEF P2
      <4> QED
        BY <3>3, <3>4, <4>1
    <3>6. CASE a = "p2"
      <4>1. Effect(i, "p2") = 0 /\ Effect(i, "p2")' = Share(i, g) /\ Effect(i, "p1")' = Effect(i, "p1")
        BY <2>10, <2>11, <3>6 DEF P2
      <4> QED
        BY <3>3, <3>4, <4>1
    <3> QED
      BY <3>5, <3>6 DEF P2
  <2>13. \A b \in P2 : Group(s'.arg[b]) /\ (b \in s'.done <=> pc'[b] \in {"completed", "exit"})
    BY <1>0, <2>7, <2>8, <2>9
  <2>14. prog = "svsem_demo" => \A b \in P2 : /\ s'.adj[b] = 0
                                              /\ pc'[b] # "parse" => \A k \in 1 .. Len(s'.arg[b]) : s'.arg[b][k].flags = {}
    <3> SUFFICES ASSUME prog = "svsem_demo", NEW b \in P2
                 PROVE  /\ s'.adj[b] = 0
                        /\ pc'[b] # "parse" => \A k \in 1 .. Len(s'.arg[b]) : s'.arg[b][k].flags = {}
      OBVIOUS
    <3>1. /\ s.adj[b] = 0
          /\ pc[b] # "parse" => \A k \in 1 .. Len(s.arg[b]) : s.arg[b][k].flags = {}
      BY <1>0
    <3>2. s'.adj[b] = 0
      BY <2>4, <2>5, <2>7, <3>1
    <3>3. pc[a] # "parse" /\ (pc'[b] # "parse" => pc[b] # "parse")
      BY <1>2, <2>8
    <3> QED
      BY <2>7, <3>1, <3>2, <3>3
  <2> QED
    BY <2>7, <2>9, <2>12, <2>13, <2>14 DEF OpInv
<1> QED
  BY <1>1, <1>2 DEF Semaphores!Semop, Semaphores!Do, Semaphores!Go, Semaphores!Walk

\* A process that does not do a group: it keeps its share, unless it takes back what SEM_UNDO promises
LEMMA OpMove ==
  ASSUME prog \in OpProgs, prog' = prog, OpInv, NEW a \in P2, pc[a] \in {"parse", "completed"},
         NEW place \in {"semop", "failed", "exit"}, pc' = [pc EXCEPT ![a] = place],
         pc[a] = "completed" <=> place = "exit",
         \/ s' = s /\ (prog = "svsem_op" => place # "exit") /\ (prog = "svsem_demo" => place = "exit")
         \/ s' = [s EXCEPT !.sems[1] = @ + s.adj[a]] /\ place = "exit"
         \/ /\ place # "exit"
            /\ \E g \in Seq(Operation) : /\ Group(g) /\ \A k \in 1 .. Len(g) : g[k].flags = {}
                                         /\ s' = [s EXCEPT !.arg[a] = g]
  PROVE  OpInv'
<1>0. /\ pc \in [P2 -> {"parse", "semop", "completed", "exit", "failed"}]
      /\ s \in OpState
      /\ \A b \in P2 : Group(s.arg[b])
      /\ \A b \in P2 : b \in s.done <=> pc[b] \in {"completed", "exit"}
      /\ \A i \in 1 .. 2 : s.sems[i] = s.start[i] + Effect(i, "p1") + Effect(i, "p2")
      /\ prog = "svsem_demo" => \A b \in P2 : /\ s.adj[b] = 0
                                              /\ pc[b] # "parse" => \A k \in 1 .. Len(s.arg[b]) : s.arg[b][k].flags = {}
  BY DEF OpInv
<1>1. /\ pc' \in [P2 -> {"parse", "semop", "completed", "exit", "failed"}] /\ pc'[a] = place
      /\ \A b \in P2 : b # a => pc'[b] = pc[b]
  BY <1>0
<1>2. \A i \in 1 .. 2, b \in P2 : Share(i, s.arg[b]) \in Int /\ s.adj[b] \in Nat /\ Effect(i, b) \in Int
  <2>1. \A i \in 1 .. 2, b \in P2 : Share(i, s.arg[b]) \in Int /\ s.adj[b] \in Nat
    BY <1>0, Shares DEF OpState
  <2> QED
    BY <2>1 DEF Effect
<1>3. CASE s' = s /\ (prog = "svsem_op" => place # "exit") /\ (prog = "svsem_demo" => place = "exit")
  <2>1. \A i \in 1 .. 2, b \in P2 : b # a => Effect(i, b)' = Effect(i, b)
    BY <1>1, <1>3 DEF Effect
  <2>2. \A i \in 1 .. 2 : Effect(i, a)' = Effect(i, a)
    <3>1. CASE place # "exit"
      <4>1. a \notin s.done /\ a \notin s'.done
        BY <1>0, <1>3, <3>1
      <4> QED
        BY <4>1 DEF Effect
    <3>2. CASE place = "exit"
      <4>1. prog = "svsem_demo" /\ s' = s
        BY <1>3, <3>2 DEF OpProgs
      <4>2. s.adj[a] = 0
        BY <1>0, <4>1
      <4>3. Share(1, s.arg[a]) \in Int /\ Share(2, s.arg[a]) \in Int
        BY <1>2
      <4> QED
        BY <4>1, <4>2, <4>3 DEF Effect
    <3> QED
      BY <3>1, <3>2
  <2>3. \A i \in 1 .. 2 : s'.sems[i] = s'.start[i] + Effect(i, "p1")' + Effect(i, "p2")'
    BY <1>0, <1>3, <2>1, <2>2 DEF P2
  <2>4. \A b \in P2 : b \in s'.done <=> pc'[b] \in {"completed", "exit"}
    BY <1>0, <1>1, <1>3
  <2>5. prog = "svsem_demo" => \A b \in P2 : pc'[b] # "parse" => pc[b] # "parse"
    BY <1>0, <1>1, <1>3
  <2> QED
    BY <1>0, <1>1, <1>3, <2>3, <2>4, <2>5 DEF OpInv
<1>4. CASE s' = [s EXCEPT !.sems[1] = @ + s.adj[a]] /\ place = "exit"
  <2> DEFINE new == [s.sems EXCEPT ![1] = s.sems[1] + s.adj[a]]
  <2>1. s.sems \in Values /\ s.start \in Values
    BY <1>0 DEF OpState
  <2>2. s.sems[1] \in Nat /\ s.sems[2] \in Nat /\ s.start[1] \in Nat /\ s.start[2] \in Nat
    BY <2>1 DEF Values
  <2>3. new \in Values /\ new[1] = s.sems[1] + s.adj[a] /\ new[2] = s.sems[2]
    BY <1>2, <2>1, <2>2, SMTT(30) DEF Values
  <2>4. s' = [s EXCEPT !.sems = new]
    BY <1>4
  <2> HIDE DEF new
  <2>5. /\ s' \in OpState /\ s'.arg = s.arg /\ s'.sems = new /\ s'.start = s.start /\ s'.adj = s.adj /\ s'.done = s.done
    BY <1>0, <2>3, <2>4 DEF OpState
  <2>6. \A i \in 1 .. 2, b \in P2 : b # a => Effect(i, b)' = Effect(i, b)
    BY <1>1, <2>5 DEF Effect
  <2>7. Effect(1, a)' = Effect(1, a) + s.adj[a] /\ Effect(2, a)' = Effect(2, a)
    <3>1. a \in s.done /\ a \in s'.done /\ pc[a] # "exit" /\ pc'[a] = "exit"
      BY <1>0, <1>1, <1>4, <2>5
    <3> QED
      BY <1>2, <2>5, <3>1 DEF Effect
  <2>8. /\ s'.sems[1] = s'.start[1] + Effect(1, "p1")' + Effect(1, "p2")'
        /\ s'.sems[2] = s'.start[2] + Effect(2, "p1")' + Effect(2, "p2")'
    <3>1. /\ s.sems[1] = s.start[1] + Effect(1, "p1") + Effect(1, "p2")
          /\ s.sems[2] = s.start[2] + Effect(2, "p1") + Effect(2, "p2")
      BY <1>0
    <3>2. /\ Effect(1, "p1") \in Int /\ Effect(1, "p2") \in Int /\ Effect(2, "p1") \in Int /\ Effect(2, "p2") \in Int
          /\ s.adj[a] \in Nat
      BY <1>2 DEF P2
    <3>3. CASE a = "p1"
      <4>1. Effect(1, "p2")' = Effect(1, "p2") /\ Effect(2, "p2")' = Effect(2, "p2")
        BY <2>6, <3>3 DEF P2
      <4>2. Effect(1, "p1")' = Effect(1, "p1") + s.adj[a] /\ Effect(2, "p1")' = Effect(2, "p1")
        BY <2>7, <3>3
      <4>3. /\ s'.sems[1] = s.sems[1] + s.adj[a] /\ s'.start[1] = s.start[1]
            /\ s'.sems[2] = s.sems[2] /\ s'.start[2] = s.start[2]
        BY <2>3, <2>5
      <4>4. s'.sems[2] = s'.start[2] + Effect(2, "p1")' + Effect(2, "p2")'
        BY <3>1, <4>1, <4>2, <4>3
      <4>5. s'.sems[1] = s'.start[1] + Effect(1, "p1")' + Effect(1, "p2")'
        <5>1. s'.sems[1] = s.start[1] + Effect(1, "p1") + Effect(1, "p2") + s.adj[a]
          BY <3>1, <4>3
        <5>2. s.start[1] \in Int /\ s.adj[a] \in Int
          BY <2>2, <3>2
        <5> DEFINE w == s.start[1]  x == Effect(1, "p1")  y == Effect(1, "p2")  z == s.adj[a]
        <5>3. w \in Int /\ x \in Int /\ y \in Int /\ z \in Int
          BY <3>2, <5>2
        <5>4. s'.sems[1] = w + x + y + z /\ s'.start[1] = w
          BY <4>3, <5>1
        <5>5. \/ Effect(1, "p1")' = x + z /\ Effect(1, "p2")' = y
              \/ Effect(1, "p1")' = x /\ Effect(1, "p2")' = y + z
          BY <4>1, <4>2
        <5> HIDE DEF w, x, y, z
        <5>6. w + x + y + z = w + (x + z) + y /\ w + x + y + z = w + x + (y + z)
          BY <5>3
        <5> QED
          BY <5>4, <5>5, <5>6
      <4> QED
        BY <4>4, <4>5
    <3>4. CASE a = "p2"
      <4>1. Effect(1, "p1")' = Effect(1, "p1") /\ Effect(2, "p1")' = Effect(2, "p1")
        BY <2>6, <3>4 DEF P2
      <4>2. Effect(1, "p2")' = Effect(1, "p2") + s.adj[a] /\ Effect(2, "p2")' = Effect(2, "p2")
        BY <2>7, <3>4
      <4>3. /\ s'.sems[1] = s.sems[1] + s.adj[a] /\ s'.start[1] = s.start[1]
            /\ s'.sems[2] = s.sems[2] /\ s'.start[2] = s.start[2]
        BY <2>3, <2>5
      <4>4. s'.sems[2] = s'.start[2] + Effect(2, "p1")' + Effect(2, "p2")'
        BY <3>1, <4>1, <4>2, <4>3
      <4>5. s'.sems[1] = s'.start[1] + Effect(1, "p1")' + Effect(1, "p2")'
        <5>1. s'.sems[1] = s.start[1] + Effect(1, "p1") + Effect(1, "p2") + s.adj[a]
          BY <3>1, <4>3
        <5>2. s.start[1] \in Int /\ s.adj[a] \in Int
          BY <2>2, <3>2
        <5> DEFINE w == s.start[1]  x == Effect(1, "p1")  y == Effect(1, "p2")  z == s.adj[a]
        <5>3. w \in Int /\ x \in Int /\ y \in Int /\ z \in Int
          BY <3>2, <5>2
        <5>4. s'.sems[1] = w + x + y + z /\ s'.start[1] = w
          BY <4>3, <5>1
        <5>5. \/ Effect(1, "p1")' = x + z /\ Effect(1, "p2")' = y
              \/ Effect(1, "p1")' = x /\ Effect(1, "p2")' = y + z
          BY <4>1, <4>2
        <5> HIDE DEF w, x, y, z
        <5>6. w + x + y + z = w + (x + z) + y /\ w + x + y + z = w + x + (y + z)
          BY <5>3
        <5> QED
          BY <5>4, <5>5, <5>6
      <4> QED
        BY <4>4, <4>5
    <3> QED
      BY <3>3, <3>4 DEF P2
  <2>9. \A b \in P2 : b \in s'.done <=> pc'[b] \in {"completed", "exit"}
    BY <1>0, <1>1, <1>4, <2>5
  <2>10. \A b \in P2 : Group(s'.arg[b])
    BY <1>0, <2>5
  <2>11. \A b \in P2 : pc'[b] # "parse" => b = a \/ pc[b] # "parse"
    BY <1>1
  <2>12. pc[a] # "parse"
    BY <1>4
  <2>13. prog = "svsem_demo" => \A b \in P2 : /\ s'.adj[b] = 0
                                              /\ pc'[b] # "parse" => \A k \in 1 .. Len(s'.arg[b]) : s'.arg[b][k].flags = {}
    BY <1>0, <2>5, <2>11, <2>12
  <2> QED
    BY <1>1, <2>5, <2>8, <2>9, <2>10, <2>13 DEF OpInv
<1>5. ASSUME place # "exit", NEW g \in Seq(Operation), Group(g), \A k \in 1 .. Len(g) : g[k].flags = {},
             s' = [s EXCEPT !.arg[a] = g]
      PROVE  OpInv'
  <2> DEFINE new == [s.arg EXCEPT ![a] = g]
  <2>1. new \in [P2 -> Seq(Operation)] /\ new[a] = g /\ \A b \in P2 : b # a => new[b] = s.arg[b]
    BY <1>0 DEF OpState
  <2>2. s' = [s EXCEPT !.arg = new]
    BY <1>5
  <2> HIDE DEF new
  <2>3. /\ s' \in OpState /\ s'.arg = new /\ s'.sems = s.sems /\ s'.start = s.start /\ s'.adj = s.adj /\ s'.done = s.done
    BY <1>0, <2>1, <2>2 DEF OpState
  <2>4. a \notin s.done
    BY <1>0, <1>5
  <2>5. \A i \in 1 .. 2 : Effect(i, a)' = Effect(i, a)
    BY <2>3, <2>4 DEF Effect
  <2>6. \A i \in 1 .. 2, b \in P2 : b # a => Effect(i, b)' = Effect(i, b)
    BY <1>1, <2>1, <2>3 DEF Effect
  <2>7. \A i \in 1 .. 2 : s'.sems[i] = s'.start[i] + Effect(i, "p1")' + Effect(i, "p2")'
    <3>1. \A i \in 1 .. 2, b \in P2 : Effect(i, b)' = Effect(i, b)
      BY <2>5, <2>6
    <3> QED
      BY <1>0, <2>3, <3>1 DEF P2
  <2>8. \A b \in P2 : b \in s'.done <=> pc'[b] \in {"completed", "exit"}
    BY <1>0, <1>1, <1>5, <2>3
  <2>9. \A b \in P2 : Group(s'.arg[b])
    BY <1>0, <1>5, <2>1, <2>3
  <2>10. prog = "svsem_demo" => \A b \in P2 : /\ s'.adj[b] = 0
                                              /\ pc'[b] # "parse" => \A k \in 1 .. Len(s'.arg[b]) : s'.arg[b][k].flags = {}
    BY <1>0, <1>1, <1>5, <2>1, <2>3
  <2> QED
    BY <1>1, <2>3, <2>7, <2>8, <2>9, <2>10 DEF OpInv
<1> QED
  BY <1>3, <1>4, <1>5

\* A step of svsem_op or svsem_demo
LEMMA OpStep ==
  ASSUME prog \in OpProgs, prog' = prog, OpInv, NEW a \in DOMAIN pc, Semaphores!Step(a)
  PROVE  OpInv'
<1>0. a \in P2 /\ s \in OpState /\ \A b \in P2 : Group(s.arg[b])
  BY DEF OpInv
<1>1. ASSUME prog = "svsem_op"
      PROVE  OpInv'
  <2>1. Semaphores!svsem_op(a)
    BY <1>1, SemaphoresStepOf
  <2>2. CASE Semaphores!Walk(a, "parse", IF s.arg[a] = << >> THEN "failed" ELSE "semop")
    BY <1>0, <1>1, <2>2, OpMove DEF Semaphores!Walk, Semaphores!Go
  <2>3. CASE Semaphores!Do(a, "completed", "exit", [s EXCEPT !.sems[1] = @ + s.adj[a]])
    BY <1>0, <1>1, <2>3, OpMove DEF Semaphores!Do, Semaphores!Go
  <2> QED
    BY <1>0, <2>1, <2>2, <2>3, SemopStep DEF Semaphores!svsem_op
<1>2. ASSUME prog = "svsem_demo"
      PROVE  OpInv'
  <2>1. Semaphores!svsem_demo(a)
    BY <1>2, SemaphoresStepOf
  <2> DEFINE g == IF s.arg[a] = << >> THEN s.arg[a] ELSE <<Semaphores!Op(0, s.arg[a][1].op, {})>>
             place == IF s.arg[a] = << >> THEN "failed" ELSE "semop"
  <2>2. CASE pc[a] = "parse" /\ pc' = [pc EXCEPT ![a] = place] /\ s' = [s EXCEPT !.arg[a] = g]
    <3>1. /\ g \in Seq(Operation) /\ Group(g) /\ \A k \in 1 .. Len(g) : g[k].flags = {}
      <4>1. CASE s.arg[a] = << >>
        BY <1>0, <4>1 DEF Group
      <4>2. CASE s.arg[a] # << >>
        <5>1. s.arg[a] \in Seq(Operation) /\ s.arg[a][1] \in Operation
          BY <1>0, <4>2 DEF Group
        <5> DEFINE o == Semaphores!Op(0, s.arg[a][1].op, {})
        <5>2. o \in Operation /\ o.flags = {}
          BY <5>1 DEF Semaphores!Op, Operation
        <5> HIDE DEF o
        <5>3. Group(<<o>>) /\ <<o>> \in Seq(Operation) /\ \A k \in 1 .. Len(<<o>>) : <<o>>[k].flags = {}
          BY <5>2 DEF Group
        <5>4. g = <<o>>
          BY <4>2 DEF o
        <5> QED
          BY <5>3, <5>4
      <4> QED
        BY <4>1, <4>2
    <3>2. place \in {"semop", "failed", "exit"} /\ place # "exit"
      OBVIOUS
    <3> HIDE DEF g, place
    <3> QED
      BY <1>0, <1>2, <2>2, <3>1, <3>2, OpMove
  <2>3. CASE pc[a] = "completed" /\ pc' = [pc EXCEPT ![a] = "exit"] /\ s' = s
    BY <1>0, <1>2, <2>3, OpMove
  <2> QED
    BY <1>0, <2>1, <2>2, <2>3, SemopStep DEF Semaphores!svsem_demo, Semaphores!Do, Semaphores!Go, Semaphores!Walk
<1> QED
  BY <1>1, <1>2 DEF OpProgs

\* A group is done as a whole
LEMMA OpDone ==
  ASSUME OpInv
  PROVE  Semaphores!AllOrNothing
<1> SUFFICES ASSUME prog \in OpProgs
             PROVE  Semaphores!AllOrNothing
  BY DEF Semaphores!AllOrNothing, OpProgs
<1>1. \A i \in 1 .. 2, a \in P2 : Semaphores!Total(i, a) = Share(i, s.arg[a])
  BY DEF Semaphores!Total, Share
<1>2. \A i \in 1 .. 2 : s.sems[i] = s.start[i] + Effect(i, "p1") + Effect(i, "p2") /\ s.sems[i] \in Nat
  BY DEF OpInv, OpState, Values
<1> QED
  BY <1>1, <1>2 DEF Semaphores!AllOrNothing, Effect, P2

-----------------------------------------------------------------------------
(* event_flags.c *)

FlagState == [flag : {0, 1}, cleared : BOOLEAN, eintr : Nat, sawSet : BOOLEAN, isSet : BOOLEAN]

\* The flag is clear exactly between clearEventFlag and setEventFlag
FlagInv ==
  prog = "event_flags" =>
    /\ pc \in [P2 -> {"clear", "set", "exit", "wait", "state"}]
    /\ pc["p1"] \in {"clear", "set", "exit"} /\ pc["p2"] \in {"wait", "state", "exit"}
    /\ s \in FlagState
    /\ s.flag = IF pc["p1"] = "set" THEN 1 ELSE 0
    /\ s.cleared <=> pc["p1"] # "clear"
    /\ pc["p2"] # "wait" => s.sawSet
    /\ pc["p2"] = "exit" => s.isSet \/ pc["p1"] # "clear"

LEMMA FlagStart ==
  ASSUME Semaphores!FlagInit
  PROVE  FlagInv
<1> DEFINE f == FALSE
<1>1. /\ pc = [p1 |-> "clear", p2 |-> "wait"]
      /\ s = [flag |-> 0, cleared |-> f, eintr |-> 0, sawSet |-> f, isSet |-> f] /\ ~f /\ f \in BOOLEAN
  BY DEF Semaphores!FlagInit, Semaphores!Start
<1> HIDE DEF f
<1>2. s \in FlagState /\ s.flag = 0 /\ ~s.cleared
  BY <1>1 DEF FlagState
<1>3. pc \in [P2 -> {"clear", "wait"}] /\ pc["p1"] = "clear" /\ pc["p2"] = "wait"
  BY <1>1 DEF P2
<1> QED
  BY <1>2, <1>3 DEF FlagInv

LEMMA FlagStep ==
  ASSUME prog = "event_flags", prog' = prog, FlagInv, NEW a \in DOMAIN pc, Semaphores!Step(a)
  PROVE  FlagInv'
<1>0. /\ pc \in [P2 -> {"clear", "set", "exit", "wait", "state"}]
      /\ pc["p1"] \in {"clear", "set", "exit"} /\ pc["p2"] \in {"wait", "state", "exit"}
      /\ s \in FlagState
      /\ s.flag = IF pc["p1"] = "set" THEN 1 ELSE 0
      /\ s.cleared <=> pc["p1"] # "clear"
      /\ pc["p2"] # "wait" => s.sawSet
      /\ pc["p2"] = "exit" => s.isSet \/ pc["p1"] # "clear"
      /\ a = "p1" \/ a = "p2"
  BY DEF FlagInv, P2
<1> DEFINE t == TRUE
<1>t. t \in BOOLEAN /\ t
  OBVIOUS
<1>1. \/ a = "p2" /\ pc["p2"] = "wait" /\ pc' = [pc EXCEPT !["p2"] = "state"] /\ s' = [s EXCEPT !.sawSet = t] /\ s.flag = 0
      \/ a = "p2" /\ pc["p2"] = "wait" /\ pc' = [pc EXCEPT !["p2"] = "wait"] /\ s' = [s EXCEPT !.eintr = @ + 1]
      \/ a = "p2" /\ pc["p2"] = "state" /\ pc' = [pc EXCEPT !["p2"] = "exit"] /\ s' = [s EXCEPT !.isSet = s.flag = 0]
      \/ a = "p1" /\ pc["p1"] = "clear" /\ pc' = [pc EXCEPT !["p1"] = "set"] /\ s' = [s EXCEPT !.flag = 1, !.cleared = t]
      \/ a = "p1" /\ pc["p1"] = "set" /\ pc' = [pc EXCEPT !["p1"] = "exit"] /\ s' = [s EXCEPT !.flag = 0]
  <2>1. Semaphores!event_flags(a)
    BY SemaphoresStepOf
  <2>2. a # "p2" => a = "p1"
    BY <1>0
  <2> QED
    BY <2>1, <2>2, Zenon DEF Semaphores!event_flags, Semaphores!waitForEventFlag, Semaphores!Do, Semaphores!Go,
       Semaphores!getFlagState, Semaphores!clearEventFlag, Semaphores!setEventFlag
<1> HIDE DEF t
<1>2. CASE pc["p2"] = "wait" /\ pc' = [pc EXCEPT !["p2"] = "state"] /\ s' = [s EXCEPT !.sawSet = t] /\ s.flag = 0
  <2>1. s' \in FlagState /\ s'.flag = s.flag /\ s'.cleared = s.cleared /\ s'.sawSet /\ s'.isSet = s.isSet
    BY <1>0, <1>t, <1>2 DEF FlagState
  <2> QED
    BY <1>0, <1>2, <2>1 DEF FlagInv, P2
<1>3. CASE pc["p2"] = "wait" /\ pc' = [pc EXCEPT !["p2"] = "wait"] /\ s' = [s EXCEPT !.eintr = @ + 1]
  <2>1. s' \in FlagState /\ s'.flag = s.flag /\ s'.cleared = s.cleared /\ s'.sawSet = s.sawSet /\ s'.isSet = s.isSet
    BY <1>0, <1>3 DEF FlagState
  <2> QED
    BY <1>0, <1>3, <2>1 DEF FlagInv, P2
<1>4. CASE pc["p2"] = "state" /\ pc' = [pc EXCEPT !["p2"] = "exit"] /\ s' = [s EXCEPT !.isSet = s.flag = 0]
  <2> DEFINE z == s.flag = 0
  <2>1. z \in BOOLEAN /\ (~z => pc["p1"] = "set")
    BY <1>0
  <2>2. s' = [s EXCEPT !.isSet = z]
    BY <1>4
  <2> HIDE DEF z
  <2>3. s' \in FlagState /\ s'.flag = s.flag /\ s'.cleared = s.cleared /\ s'.sawSet = s.sawSet /\ s'.isSet = z
    BY <1>0, <2>1, <2>2 DEF FlagState
  <2> QED
    BY <1>0, <1>4, <2>1, <2>3 DEF FlagInv, P2
<1>5. CASE pc["p1"] = "clear" /\ pc' = [pc EXCEPT !["p1"] = "set"] /\ s' = [s EXCEPT !.flag = 1, !.cleared = t]
  <2>1. s' = [flag |-> 1, cleared |-> t, eintr |-> s.eintr, sawSet |-> s.sawSet, isSet |-> s.isSet]
    BY <1>0, <1>5 DEF FlagState
  <2>2. s' \in FlagState /\ s'.flag = 1 /\ s'.cleared /\ s'.sawSet = s.sawSet /\ s'.isSet = s.isSet
    BY <1>0, <1>t, <2>1 DEF FlagState
  <2> QED
    BY <1>0, <1>5, <2>2 DEF FlagInv, P2
<1>6. CASE pc["p1"] = "set" /\ pc' = [pc EXCEPT !["p1"] = "exit"] /\ s' = [s EXCEPT !.flag = 0]
  <2>1. s' \in FlagState /\ s'.flag = 0 /\ s'.cleared = s.cleared /\ s'.sawSet = s.sawSet /\ s'.isSet = s.isSet
    BY <1>0, <1>6 DEF FlagState
  <2> QED
    BY <1>0, <1>6, <2>1 DEF FlagInv, P2
<1> QED
  BY <1>1, <1>2, <1>3, <1>4, <1>5, <1>6

-----------------------------------------------------------------------------
(* svsem_create.c, svsem_setall.c *)

Vals == {<<3>>, <<3, 4>>}

SetState == [flags : SUBSET {"c", "x"}, numKeyFlags : 0 .. 2, nsems : 0 .. 2, numSems : 1 .. 2, vals : Vals,
             sems : Vals \cup {<< >>}, created : BOOLEAN, shown : Vals \cup {<< >>}]

\* A set that has been found has semaphores, and their number does not change
SetInv ==
  prog = "svsem_create" =>
    /\ pc \in [P2 -> {"parse", "semget", "stat", "setall", "mon", "exit", "failed"}]
    /\ s \in SetState
    /\ pc["p2"] \in {"setall", "mon", "exit"} => s.nsems = Len(s.vals)
    /\ s.sems # << >> => s.sems = s.vals /\ pc["p2"] \in {"mon", "exit"}
    /\ s.created => s.nsems = s.numSems

LEMMA SetStart ==
  ASSUME Semaphores!SetInit
  PROVE  SetInv
<1> PICK flags \in SUBSET {"c", "x"}, keys \in 0 .. 2, exists \in BOOLEAN, n \in 1 .. 2, vals \in Vals :
      Semaphores!Start("svsem_create", [p1 |-> "parse", p2 |-> "stat"],
          [flags |-> flags, numKeyFlags |-> keys, nsems |-> IF exists THEN 2 ELSE 0, numSems |-> n, vals |-> vals,
           sems |-> << >>, created |-> FALSE, shown |-> << >>])
  BY DEF Semaphores!SetInit, Vals
<1> DEFINE f == FALSE  e == << >>  m == IF exists THEN 2 ELSE 0
<1>1. f \in BOOLEAN /\ ~f /\ e = << >> /\ m \in 0 .. 2
  OBVIOUS
<1>2. /\ pc = [p1 |-> "parse", p2 |-> "stat"]
      /\ s = [flags |-> flags, numKeyFlags |-> keys, nsems |-> m, numSems |-> n, vals |-> vals,
              sems |-> e, created |-> f, shown |-> e]
  BY DEF Semaphores!Start
<1> HIDE DEF f, e, m
<1>3. e \in Vals \cup {<< >>}
  BY <1>1
<1>4. s \in SetState /\ s.sems = << >> /\ ~s.created
  BY <1>1, <1>2, <1>3 DEF SetState
<1>5. pc \in [P2 -> {"parse", "stat"}] /\ pc["p2"] = "stat"
  BY <1>2 DEF P2
<1> QED
  BY <1>4, <1>5 DEF SetInv

LEMMA SetStep ==
  ASSUME prog = "svsem_create", prog' = prog, SetInv, NEW a \in DOMAIN pc, Semaphores!Step(a)
  PROVE  SetInv'
<1>0. /\ pc \in [P2 -> {"parse", "semget", "stat", "setall", "mon", "exit", "failed"}]
      /\ s \in SetState
      /\ pc["p2"] \in {"setall", "mon", "exit"} => s.nsems = Len(s.vals)
      /\ s.sems # << >> => s.sems = s.vals /\ pc["p2"] \in {"mon", "exit"}
      /\ s.created => s.nsems = s.numSems
  BY DEF SetInv
<1>v. \A v \in Vals : Len(v) # 0 /\ v # << >>
  BY DEF Vals
<1>t. s.numSems \in 0 .. 2 /\ s.vals \in Vals /\ s.sems \in Vals \cup {<< >>} /\ Len(s.vals) # 0 /\ << >> \notin Vals
  BY <1>0, <1>v DEF SetState
<1> DEFINE t == TRUE
<1>b. t \in BOOLEAN /\ t
  OBVIOUS
<1> USE DEF Semaphores!Do, Semaphores!Go, Semaphores!Walk
<1>1. \/ \E from \in {"parse", "semget"}, to \in {"semget", "failed", "exit"} :
           pc["p1"] = from /\ pc' = [pc EXCEPT !["p1"] = to] /\ s' = s
      \/ \E to \in {"setall", "failed"} :
           /\ pc["p2"] = "stat" /\ pc' = [pc EXCEPT !["p2"] = to] /\ s' = s
           /\ to = "setall" => s.nsems = Len(s.vals)
      \/ s.nsems = 0 /\ pc["p1"] = "semget" /\ pc' = [pc EXCEPT !["p1"] = "exit"]
           /\ s' = [s EXCEPT !.nsems = s.numSems, !.created = t]
      \/ pc["p2"] = "setall" /\ pc' = [pc EXCEPT !["p2"] = "mon"] /\ s' = [s EXCEPT !.sems = s.vals]
      \/ pc["p2"] = "mon" /\ pc' = [pc EXCEPT !["p2"] = "exit"] /\ s' = [s EXCEPT !.shown = s.sems]
  <2>1. Semaphores!svsem_create(a) \/ Semaphores!svsem_setall(a) \/ Semaphores!svsem_mon(a)
    BY SemaphoresStepOf
  <2>2. ASSUME Semaphores!svsem_setall(a)
        PROVE  \/ \E to \in {"setall", "failed"} :
                    /\ pc["p2"] = "stat" /\ pc' = [pc EXCEPT !["p2"] = to] /\ s' = s
                    /\ to = "setall" => s.nsems = Len(s.vals)
               \/ pc["p2"] = "setall" /\ pc' = [pc EXCEPT !["p2"] = "mon"] /\ s' = [s EXCEPT !.sems = s.vals]
    BY <2>2, Zenon DEF Semaphores!svsem_setall
  <2>3. ASSUME Semaphores!svsem_create(a)
        PROVE  \/ \E from \in {"parse", "semget"}, to \in {"semget", "failed", "exit"} :
                    pc["p1"] = from /\ pc' = [pc EXCEPT !["p1"] = to] /\ s' = s
               \/ s.nsems = 0 /\ pc["p1"] = "semget" /\ pc' = [pc EXCEPT !["p1"] = "exit"]
                    /\ s' = [s EXCEPT !.nsems = s.numSems, !.created = t]
    BY <2>3, Zenon DEF Semaphores!svsem_create
  <2> QED
    BY <2>1, <2>2, <2>3, Zenon DEF Semaphores!svsem_mon
<1> HIDE DEF t
<1>2. CASE \E from \in {"parse", "semget"}, to \in {"semget", "failed", "exit"} :
             pc["p1"] = from /\ pc' = [pc EXCEPT !["p1"] = to] /\ s' = s
  BY <1>0, <1>2 DEF SetInv, P2
<1>3. CASE \E to \in {"setall", "failed"} :
             /\ pc["p2"] = "stat" /\ pc' = [pc EXCEPT !["p2"] = to] /\ s' = s
             /\ to = "setall" => s.nsems = Len(s.vals)
  BY <1>0, <1>3 DEF SetInv, P2
<1>4. CASE s.nsems = 0 /\ pc["p1"] = "semget" /\ pc' = [pc EXCEPT !["p1"] = "exit"]
           /\ s' = [s EXCEPT !.nsems = s.numSems, !.created = t]
  <2>1. s' = [flags |-> s.flags, numKeyFlags |-> s.numKeyFlags, nsems |-> s.numSems, numSems |-> s.numSems, vals |-> s.vals,
              sems |-> s.sems, created |-> t, shown |-> s.shown]
    BY <1>0, <1>4 DEF SetState
  <2>2. s' \in SetState /\ s'.nsems = s.numSems /\ s'.numSems = s.numSems /\ s'.vals = s.vals /\ s'.sems = s.sems
    BY <1>0, <1>t, <1>b, <2>1 DEF SetState
  <2>3. pc["p2"] \notin {"setall", "mon", "exit"}
    BY <1>0, <1>t, <1>4
  <2> QED
    BY <1>0, <1>4, <2>2, <2>3 DEF SetInv, P2
<1>5. CASE pc["p2"] = "setall" /\ pc' = [pc EXCEPT !["p2"] = "mon"] /\ s' = [s EXCEPT !.sems = s.vals]
  <2>1. s' \in SetState /\ s'.nsems = s.nsems /\ s'.numSems = s.numSems /\ s'.vals = s.vals /\ s'.sems = s.vals
        /\ s'.created = s.created
    BY <1>0, <1>t, <1>5 DEF SetState
  <2> QED
    BY <1>0, <1>5, <2>1 DEF SetInv, P2
<1>6. CASE pc["p2"] = "mon" /\ pc' = [pc EXCEPT !["p2"] = "exit"] /\ s' = [s EXCEPT !.shown = s.sems]
  <2>1. s' \in SetState /\ s'.nsems = s.nsems /\ s'.numSems = s.numSems /\ s'.vals = s.vals /\ s'.sems = s.sems
        /\ s'.created = s.created
    BY <1>0, <1>t, <1>6 DEF SetState
  <2> QED
    BY <1>0, <1>6, <2>1 DEF SetInv, P2
<1> QED
  BY <1>1, <1>2, <1>3, <1>4, <1>5, <1>6

-----------------------------------------------------------------------------
(* All programs of svsem/ *)

SemaphoresInv == GoodInv /\ BadInv /\ OpInv /\ FlagInv /\ SetInv

LEMMA SemaphoresInvInit ==
  ASSUME Semaphores!Init
  PROVE  SemaphoresInv
<1>1. CASE Semaphores!RaceInit
  <2>1. prog \in Semaphores!InitProgs
    BY <1>1 DEF Semaphores!RaceInit, Semaphores!Start
  <2> QED
    BY <1>1, <2>1, RaceInit DEF SemaphoresInv, OpInv, FlagInv, SetInv, OpProgs, Semaphores!InitProgs
<1>2. CASE Semaphores!OpInit
  <2>1. prog \in OpProgs
    BY <1>2 DEF Semaphores!OpInit, Semaphores!Start, OpProgs
  <2> QED
    BY <1>2, <2>1, OpStart DEF SemaphoresInv, GoodInv, BadInv, FlagInv, SetInv, OpProgs
<1>3. CASE Semaphores!FlagInit
  <2>1. prog = "event_flags"
    BY <1>3 DEF Semaphores!FlagInit, Semaphores!Start
  <2> QED
    BY <1>3, <2>1, FlagStart DEF SemaphoresInv, GoodInv, BadInv, OpInv, SetInv, OpProgs
<1>4. CASE Semaphores!SetInit
  <2>1. prog = "svsem_create"
    BY <1>4 DEF Semaphores!SetInit, Semaphores!Start
  <2> QED
    BY <1>4, <2>1, SetStart DEF SemaphoresInv, GoodInv, BadInv, OpInv, FlagInv, OpProgs
<1> QED
  BY <1>1, <1>2, <1>3, <1>4 DEF Semaphores!Init

LEMMA SemaphoresInvStep ==
  ASSUME SemaphoresInv, prog \in Semaphores!Programs, prog' = prog,
         (\E a \in DOMAIN pc : Semaphores!Step(a)) \/ Semaphores!Env
  PROVE  SemaphoresInv'
<1>0. Semaphores!Env => prog = "svsem_good_init"
  BY DEF Semaphores!Env, Semaphores!CreatorKilled
<1>1. prog = "svsem_good_init" => GoodInv'
  BY GoodStep DEF SemaphoresInv
<1>2. prog = "svsem_bad_init" => BadInv'
  BY <1>0, BadStep DEF SemaphoresInv
<1>3. prog \in OpProgs => OpInv'
  BY <1>0, OpStep DEF SemaphoresInv, OpProgs
<1>4. prog = "event_flags" => FlagInv'
  BY <1>0, FlagStep DEF SemaphoresInv
<1>5. prog = "svsem_create" => SetInv'
  BY <1>0, SetStep DEF SemaphoresInv
<1>6. /\ prog # "svsem_good_init" => GoodInv'
      /\ prog # "svsem_bad_init" => BadInv'
      /\ prog \notin OpProgs => OpInv'
      /\ prog # "event_flags" => FlagInv'
      /\ prog # "svsem_create" => SetInv'
  BY Zenon DEF GoodInv, BadInv, OpInv, FlagInv, SetInv, OpProgs
<1> QED
  BY <1>1, <1>2, <1>3, <1>4, <1>5, <1>6 DEF SemaphoresInv

LEMMA SemaphoresInvStutter ==
  ASSUME SemaphoresInv, UNCHANGED vars
  PROVE  SemaphoresInv'
<1>1. prog' = prog /\ pc' = pc /\ s' = s
  BY DEF vars
<1>2. \A i \in 1 .. 2, a \in P2 : Effect(i, a)' = Effect(i, a)
  BY <1>1 DEF Effect
<1>3. OpInv => OpInv'
  BY <1>1, <1>2 DEF OpInv, P2, OpProgs
<1> QED
  BY <1>1, <1>3 DEF SemaphoresInv, GoodInv, BadInv, FlagInv, SetInv

\* What the programs of svsem/ promise
LEMMA SemaphoresInvSafe ==
  ASSUME SemaphoresInv
  PROVE  Semaphores!Safe
<1>1. Semaphores!FlagsWork
  BY DEF SemaphoresInv, FlagInv, Semaphores!FlagsWork
<1>2. Semaphores!SetAll
  BY DEF SemaphoresInv, SetInv, SetState, Semaphores!SetAll
<1> QED
  BY <1>1, <1>2, RaceInitialized, OpDone DEF SemaphoresInv, Semaphores!Safe

-----------------------------------------------------------------------------
(* pmsg/: message notification *)

NotifyState == [queue : Nat, missed : BOOLEAN, sent : Int, read : Int, reg : BOOLEAN, pending : BOOLEAN,
                gotSig : BOOLEAN, toStart : Nat, big : BOOLEAN]

NotifyPlaces == {"start", "sigsuspend", "sigwaitinfo", "reregister", "drain", "if", "sleep", "pause", "failed", "mq_send",
                 "exit", "absent"}

One(b) == IF b THEN 1 ELSE 0

\* p is about to register
Registering == pc["p"] = "reregister" \/ (pc["p"] = "start" /\ ~s.gotSig)

\* There is one registration: it stands, or a message has used it up and the signal, the flag, the
\* thread, or the program on its way to register again, stand for it
Registrations ==
  One(Registering) + One(s.reg) + One(s.pending) + One(s.gotSig) + s.toStart
    + One(pc["n1"] = "reregister") + One(pc["n2"] = "reregister")

NotifyInv ==
  prog \in Ipc!NotifyProgs =>
    /\ pc \in [{"p", "q", "n1", "n2"} -> NotifyPlaces]
    /\ s \in NotifyState
    /\ s.read + s.queue = s.sent
    /\ s.gotSig => prog \in Ipc!GotSigProgs
    /\ pc["p"] = "failed" => s.big /\ prog = "mq_notify_siginfo"
    /\ pc["n1"] \in {"absent", "reregister", "drain"} /\ pc["n2"] \in {"absent", "reregister", "drain"}
    /\ Registrations = 1
    /\ pc["p"] = "start" => s.missed \/ s.queue = 0
    /\ pc["p"] = "start" /\ prog \in Ipc!GotSigProgs => s.gotSig
    /\ s.reg /\ Ipc!Promised /\ pc["p"] \notin {"start", "drain", "failed"} /\ pc["n1"] # "drain" /\ pc["n2"] # "drain"
         => s.queue = 0

LEMMA NotifyStart ==
  ASSUME Ipc!NotifyInit
  PROVE  NotifyInv
<1> PICK p \in Ipc!NotifyProgs, n \in 0 .. 1, big \in BOOLEAN :
      Ipc!Start(p, [p |-> "start", q |-> "mq_send", n1 |-> "absent", n2 |-> "absent"],
          [queue |-> n, missed |-> n > 0, sent |-> n, read |-> 0, reg |-> FALSE, pending |-> FALSE,
           gotSig |-> p \in Ipc!GotSigProgs, toStart |-> 0, big |-> big])
  BY DEF Ipc!NotifyInit
<1> DEFINE f == FALSE  g == p \in Ipc!GotSigProgs  m == n > 0
<1>1. f \in BOOLEAN /\ g \in BOOLEAN /\ m \in BOOLEAN /\ ~f /\ (g <=> prog \in Ipc!GotSigProgs) /\ (~m => n = 0) /\ n \in Nat
  BY DEF Ipc!Start
<1>2. /\ pc = [p |-> "start", q |-> "mq_send", n1 |-> "absent", n2 |-> "absent"]
      /\ s = [queue |-> n, missed |-> m, sent |-> n, read |-> 0, reg |-> f, pending |-> f,
              gotSig |-> g, toStart |-> 0, big |-> big]
  BY DEF Ipc!Start
<1> HIDE DEF f, g, m
<1>3. /\ s \in NotifyState /\ s.queue = n /\ s.missed = m /\ s.sent = n /\ s.read = 0 /\ ~s.reg /\ ~s.pending /\ s.gotSig = g
      /\ s.toStart = 0
  BY <1>1, <1>2 DEF NotifyState
<1>4. /\ pc \in [{"p", "q", "n1", "n2"} -> NotifyPlaces] /\ pc["p"] = "start"
      /\ pc["n1"] = "absent" /\ pc["n2"] = "absent"
  BY <1>2 DEF NotifyPlaces
<1>5. Registrations = 1
  BY <1>1, <1>3, <1>4 DEF Registrations, Registering, One
<1> QED
  BY <1>1, <1>3, <1>4, <1>5 DEF NotifyInv

\* The type of the state, in the form the steps below use
LEMMA NotifyFacts ==
  ASSUME NotifyInv, prog \in Ipc!NotifyProgs
  PROVE  /\ pc \in [{"p", "q", "n1", "n2"} -> NotifyPlaces]
         /\ s \in NotifyState
         /\ s.read + s.queue = s.sent
         /\ s.gotSig => prog \in Ipc!GotSigProgs
         /\ pc["p"] = "failed" => s.big /\ prog = "mq_notify_siginfo"
         /\ pc["n1"] \in {"absent", "reregister", "drain"} /\ pc["n2"] \in {"absent", "reregister", "drain"}
         /\ Registrations = 1
         /\ pc["p"] = "start" => s.missed \/ s.queue = 0
         /\ pc["p"] = "start" /\ prog \in Ipc!GotSigProgs => s.gotSig
         /\ s.reg /\ Ipc!Promised /\ pc["p"] \notin {"start", "drain", "failed"} /\ pc["n1"] # "drain" /\ pc["n2"] # "drain"
              => s.queue = 0
         /\ s.queue \in Nat /\ s.read \in Int /\ s.sent \in Int /\ s.toStart \in Nat
         /\ s.reg \in BOOLEAN /\ s.pending \in BOOLEAN /\ s.gotSig \in BOOLEAN /\ s.missed \in BOOLEAN /\ s.big \in BOOLEAN
  BY DEF NotifyInv, NotifyState

\* Registering uses up what stood for the registration, so that no other one stands
LEMMA NotifyRegister ==
  ASSUME prog \in Ipc!NotifyProgs, prog' = prog, NotifyInv,
         NEW a \in {"p", "n1", "n2"}, NEW to \in {"sigsuspend", "sigwaitinfo", "drain", "pause"},
         NEW from \in {"start", "reregister"}, a # "p" => from = "reregister" /\ to = "drain",
         from = "reregister" => to = "drain",
         from = "start" => prog \notin Ipc!GotSigProgs,
         prog = "mq_notify_via_thread" => to = "drain",
         Ipc!mq_notify(a, from, to)
  PROVE  NotifyInv'
<1> DEFINE t == TRUE
<1>t. t \in BOOLEAN /\ t
  OBVIOUS
<1>1. pc[a] = from /\ pc' = [pc EXCEPT ![a] = IF s.reg THEN "failed" ELSE to] /\ s' = [s EXCEPT !.reg = t]
  BY Zenon DEF Ipc!mq_notify, Ipc!Do, Ipc!Go
<1> HIDE DEF t
<1>2. ~s.reg
  BY <1>1, NotifyFacts DEF Registrations, Registering, One
<1>3. /\ s' \in NotifyState /\ s'.queue = s.queue /\ s'.missed = s.missed /\ s'.sent = s.sent /\ s'.read = s.read /\ s'.reg
      /\ s'.pending = s.pending /\ s'.gotSig = s.gotSig /\ s'.toStart = s.toStart /\ s'.big = s.big
  BY <1>1, <1>t, NotifyFacts DEF NotifyState
<1>4. /\ pc' \in [{"p", "q", "n1", "n2"} -> NotifyPlaces]
      /\ pc'[a] = to /\ \A b \in {"p", "q", "n1", "n2"} : b # a => pc'[b] = pc[b]
  BY <1>1, <1>2, NotifyFacts DEF NotifyPlaces
<1>5. Registrations' = 1
  BY <1>1, <1>2, <1>3, <1>4, NotifyFacts DEF Registrations, Registering, One
<1>6. /\ pc'["p"] = "failed" => pc["p"] = "failed"
      /\ pc'["p"] = "start" => pc["p"] = "start"
      /\ pc'["n1"] \in {"absent", "reregister", "drain"} /\ pc'["n2"] \in {"absent", "reregister", "drain"}
  BY <1>4, NotifyFacts
<1>7. Ipc!Promised' <=> Ipc!Promised
  BY <1>3 DEF Ipc!Promised
<1>8. Ipc!Promised /\ to # "drain" => s.queue = 0
  BY <1>1, NotifyFacts DEF Ipc!Promised
<1>9. /\ s'.reg /\ Ipc!Promised' /\ pc'["p"] \notin {"start", "drain", "failed"} /\ pc'["n1"] # "drain" /\ pc'["n2"] # "drain"
           => s'.queue = 0
  BY <1>3, <1>4, <1>7, <1>8
<1> QED
  BY <1>3, <1>4, <1>5, <1>6, <1>9, NotifyFacts DEF NotifyInv, Ipc!GotSigProgs

\* A message: if it finds the queue empty, it uses up the registration
LEMMA NotifySend ==
  ASSUME prog \in Ipc!NotifyProgs, prog' = prog, NotifyInv, pc' = pc, s' = Ipc!mq_send(s)
  PROVE  NotifyInv'
<1> DEFINE notify == s.reg /\ s.queue = 0
           m == s.missed \/ pc["p"] = "start"
           r == s.reg /\ ~notify
           d == s.pending \/ (notify /\ prog \in Ipc!SignalProgs)
           n == IF notify /\ prog \in Ipc!ThreadProgs THEN s.toStart + 1 ELSE s.toStart
           c == s.queue + 1
           w == s.sent + 1
<1>1. /\ m \in BOOLEAN /\ r \in BOOLEAN /\ d \in BOOLEAN /\ n \in Nat /\ c \in Nat /\ w \in Int
  BY NotifyFacts
<1>2. s' = [s EXCEPT !.queue = c, !.sent = w, !.reg = r, !.missed = m, !.pending = d, !.toStart = n]
  BY Zenon DEF Ipc!mq_send
<1>3. s = [queue |-> s.queue, missed |-> s.missed, sent |-> s.sent, read |-> s.read, reg |-> s.reg, pending |-> s.pending,
           gotSig |-> s.gotSig, toStart |-> s.toStart, big |-> s.big]
  BY NotifyFacts DEF NotifyState
<1> HIDE DEF m, r, d, n, c, w
<1>4. s' = [queue |-> c, missed |-> m, sent |-> w, read |-> s.read, reg |-> r, pending |-> d,
            gotSig |-> s.gotSig, toStart |-> n, big |-> s.big]
  BY <1>2, <1>3
<1>5. /\ s' \in NotifyState /\ s'.queue = c /\ s'.missed = m /\ s'.sent = w /\ s'.read = s.read /\ s'.reg = r
      /\ s'.pending = d /\ s'.gotSig = s.gotSig /\ s'.toStart = n /\ s'.big = s.big
  BY <1>1, <1>4, NotifyFacts DEF NotifyState
<1>6. c = s.queue + 1 /\ w = s.sent + 1
  BY DEF c, w
<1>7. Registrations' = 1
  <2>1. One(r) + One(d) + n = One(s.reg) + One(s.pending) + s.toStart
    <3>1. CASE notify
      <4>0. s.reg /\ r = FALSE /\ s.toStart = 0 /\ ~s.pending
        BY <3>1, NotifyFacts DEF r, Registrations, One
      <4>1. CASE prog \in Ipc!SignalProgs
        <5>1. prog \notin Ipc!ThreadProgs
          BY <4>1 DEF Ipc!SignalProgs, Ipc!ThreadProgs
        <5>2. d /\ n = s.toStart
          BY <3>1, <4>1, <5>1 DEF d, n
        <5> QED
          BY <4>0, <5>2 DEF One
      <4>2. CASE prog \in Ipc!ThreadProgs
        <5>1. prog \notin Ipc!SignalProgs
          BY <4>2 DEF Ipc!SignalProgs, Ipc!ThreadProgs
        <5>2. ~d /\ n = s.toStart + 1
          BY <3>1, <4>0, <4>2, <5>1 DEF d, n
        <5> QED
          BY <4>0, <5>2 DEF One
      <4> QED
        BY <4>1, <4>2 DEF Ipc!NotifyProgs
    <3>2. CASE ~notify
      <4>1. (r <=> s.reg) /\ (d <=> s.pending) /\ n = s.toStart
        BY <3>2 DEF r, d, n
      <4> QED
        BY <4>1 DEF One
    <3> QED
      BY <3>1, <3>2
  <2>2. One(Registering') = One(Registering)
    BY <1>5 DEF Registering
  <2>3. One(Registering) + One(s.reg) + One(s.pending) + One(s.gotSig) + s.toStart
          + One(pc["n1"] = "reregister") + One(pc["n2"] = "reregister") = 1
    BY NotifyFacts DEF Registrations
  <2>4. Registrations' = One(Registering) + One(r) + One(d) + One(s.gotSig) + n
                           + One(pc["n1"] = "reregister") + One(pc["n2"] = "reregister")
    BY <1>5, <2>2 DEF Registrations
  <2>5. \A b \in BOOLEAN : One(b) \in Int
    BY DEF One
  <2>6. /\ One(Registering) \in Int /\ One(s.gotSig) \in Int /\ One(pc["n1"] = "reregister") \in Int
        /\ One(pc["n2"] = "reregister") \in Int
        /\ One(r) \in Int /\ One(d) \in Int /\ One(s.reg) \in Int /\ One(s.pending) \in Int
    BY <1>1, <2>5, NotifyFacts DEF Registering
  <2> QED
    BY <1>1, <2>1, <2>3, <2>4, <2>6, NotifyFacts
<1>8. Ipc!Promised' => Ipc!Promised
  <2>1. ~m => ~s.missed
    BY DEF m
  <2> QED
    BY <1>5, <2>1 DEF Ipc!Promised
<1>9. r => s.reg /\ s.queue # 0
  BY NotifyFacts DEF r
<1>10. pc["p"] = "start" => m
  BY DEF m
<1>11. s'.read + s'.queue = s'.sent
  BY <1>5, <1>6, NotifyFacts
<1> QED
  BY <1>5, <1>7, <1>8, <1>9, <1>10, <1>11, NotifyFacts DEF NotifyInv

\* Receiving a message
LEMMA NotifyReceive ==
  ASSUME prog \in Ipc!NotifyProgs, prog' = prog, NotifyInv, NEW a \in {"p", "n1", "n2"}, pc[a] = "drain",
         pc' = [pc EXCEPT ![a] = "drain"], s.queue > 0, s' = [s EXCEPT !.queue = @ - 1, !.read = @ + 1]
  PROVE  NotifyInv'
<1> DEFINE c == s.queue - 1  w == s.read + 1
<1>1. c \in Nat /\ w \in Int /\ c + w = s.queue + s.read
  BY NotifyFacts
<1>2. s' = [s EXCEPT !.queue = c, !.read = w]
  OBVIOUS
<1> HIDE DEF c, w
<1>3. s' = [queue |-> c, missed |-> s.missed, sent |-> s.sent, read |-> w, reg |-> s.reg, pending |-> s.pending,
            gotSig |-> s.gotSig, toStart |-> s.toStart, big |-> s.big]
  BY <1>2, NotifyFacts DEF NotifyState
<1>4. /\ s' \in NotifyState /\ s'.queue = c /\ s'.missed = s.missed /\ s'.sent = s.sent /\ s'.read = w /\ s'.reg = s.reg
      /\ s'.pending = s.pending /\ s'.gotSig = s.gotSig /\ s'.toStart = s.toStart /\ s'.big = s.big
  <2>1. /\ s'.queue = c /\ s'.missed = s.missed /\ s'.sent = s.sent /\ s'.read = w /\ s'.reg = s.reg
        /\ s'.pending = s.pending /\ s'.gotSig = s.gotSig /\ s'.toStart = s.toStart /\ s'.big = s.big
    BY ONLY <1>3
  <2>2. /\ s.missed \in BOOLEAN /\ s.sent \in Int /\ s.reg \in BOOLEAN /\ s.pending \in BOOLEAN
        /\ s.gotSig \in BOOLEAN /\ s.toStart \in Nat /\ s.big \in BOOLEAN
    BY NotifyFacts
  <2>3. s' \in NotifyState
    BY ONLY <1>1, <1>3, <2>2 DEF NotifyState
  <2> QED
    BY <2>1, <2>3
<1>5. pc' = pc
  BY NotifyFacts
<1>6. Registrations' = Registrations
  BY <1>4, <1>5 DEF Registrations, Registering
<1>7. s'.read + s'.queue = s'.sent
  BY <1>1, <1>4, NotifyFacts
<1>8. pc["p"] # "start" \/ a # "p"
  OBVIOUS
<1>9. a = "p" \/ a = "n1" \/ a = "n2"
  OBVIOUS
<1>10. pc["p"] = "start" => s.missed \/ c = 0
  <2>1. s.queue # 0
    BY NotifyFacts
  <2> QED
    BY <2>1, NotifyFacts
<1> QED
  BY <1>4, <1>5, <1>6, <1>7, <1>9, <1>10, NotifyFacts DEF NotifyInv

\* p, or a thread, goes on, with nothing changed but its place
LEMMA NotifyMove ==
  ASSUME prog \in Ipc!NotifyProgs, prog' = prog, NotifyInv, NEW a \in {"p", "n1", "n2"}, NEW to \in NotifyPlaces,
         pc' = [pc EXCEPT ![a] = to], s' = s,
         \/ /\ pc[a] = "drain" /\ to \in {"sigsuspend", "sigwaitinfo", "sleep", "pause", "absent"}
            /\ s.queue = 0 /\ (a # "p" => to = "absent")
         \/ /\ a = "p" /\ pc["p"] = "start" /\ to = "if" /\ prog \in Ipc!GotSigProgs /\ s.gotSig
         \/ /\ a = "p" /\ pc["p"] = "sleep" /\ to = "if"
         \/ /\ a = "p" /\ pc["p"] = "if" /\ to = "sleep"
         \/ /\ a = "p" /\ pc["p"] = "drain" /\ to = "failed" /\ s.big /\ prog = "mq_notify_siginfo"
  PROVE  NotifyInv'
<1>1. /\ pc' \in [{"p", "q", "n1", "n2"} -> NotifyPlaces]
      /\ pc'[a] = to /\ \A b \in {"p", "q", "n1", "n2"} : b # a => pc'[b] = pc[b]
  BY NotifyFacts
<1>2. Ipc!Promised' <=> Ipc!Promised
  BY DEF Ipc!Promised
<1>3. /\ to # "reregister" /\ to # "start" /\ pc[a] # "reregister"
      /\ pc[a] = "start" => s.gotSig
  OBVIOUS
<1>4. /\ One(Registering)' = One(Registering)
      /\ One(pc["n1"] = "reregister")' = One(pc["n1"] = "reregister")
      /\ One(pc["n2"] = "reregister")' = One(pc["n2"] = "reregister")
  BY <1>1, <1>3 DEF Registering, One
<1>5. Registrations' = Registrations
  BY <1>4 DEF Registrations
<1>6. s.reg /\ pc[a] = "start" => FALSE
  BY <1>3, NotifyFacts DEF Registrations, Registering, One
<1>7. a # "p" => to = "absent"
  OBVIOUS
<1>8. to = "failed" => s.big /\ prog = "mq_notify_siginfo"
  OBVIOUS
<1>9. pc[a] = "drain" => s.queue = 0 \/ to = "failed"
  OBVIOUS
<1> QED
  BY <1>1, <1>2, <1>3, <1>5, <1>6, <1>7, <1>8, <1>9, NotifyFacts DEF NotifyInv

\* p takes the signal, or the flag, and is about to register
LEMMA NotifyTake ==
  ASSUME prog \in Ipc!NotifyProgs, prog' = prog, NotifyInv, pc' = [pc EXCEPT !["p"] = "reregister"],
         NEW f \in BOOLEAN, ~f,
         \/ pc["p"] \in {"sigsuspend", "sigwaitinfo"} /\ s.pending /\ s' = [s EXCEPT !.pending = f]
         \/ pc["p"] = "if" /\ s.gotSig /\ s' = [s EXCEPT !.gotSig = f]
  PROVE  NotifyInv'
<1>1. /\ pc' \in [{"p", "q", "n1", "n2"} -> NotifyPlaces]
      /\ pc'["p"] = "reregister" /\ \A b \in {"p", "q", "n1", "n2"} : b # "p" => pc'[b] = pc[b]
  BY NotifyFacts DEF NotifyPlaces
<1>2. CASE pc["p"] \in {"sigsuspend", "sigwaitinfo"} /\ s.pending /\ s' = [s EXCEPT !.pending = f]
  <2>1. /\ s' \in NotifyState /\ s'.queue = s.queue /\ s'.missed = s.missed /\ s'.sent = s.sent /\ s'.read = s.read
        /\ s'.reg = s.reg /\ ~s'.pending /\ s'.gotSig = s.gotSig /\ s'.toStart = s.toStart /\ s'.big = s.big
    BY <1>2, NotifyFacts DEF NotifyState
  <2>2. Registrations' = 1 /\ ~s.reg
    BY <1>1, <1>2, <2>1, NotifyFacts DEF Registrations, Registering, One
  <2> QED
    BY <1>1, <1>2, <2>1, <2>2, NotifyFacts DEF NotifyInv
<1>3. CASE pc["p"] = "if" /\ s.gotSig /\ s' = [s EXCEPT !.gotSig = f]
  <2>1. /\ s' \in NotifyState /\ s'.queue = s.queue /\ s'.missed = s.missed /\ s'.sent = s.sent /\ s'.read = s.read
        /\ s'.reg = s.reg /\ s'.pending = s.pending /\ ~s'.gotSig /\ s'.toStart = s.toStart /\ s'.big = s.big
    BY <1>3, NotifyFacts DEF NotifyState
  <2>2. Registrations' = 1 /\ ~s.reg
    BY <1>1, <1>3, <2>1, NotifyFacts DEF Registrations, Registering, One
  <2> QED
    BY <1>1, <1>3, <2>1, <2>2, NotifyFacts DEF NotifyInv
<1> QED
  BY <1>2, <1>3

\* The kernel starts the thread of a notification, which is about to register
LEMMA NotifyThread ==
  ASSUME prog \in Ipc!NotifyProgs, prog' = prog, NotifyInv, NEW a \in {"n1", "n2"}, pc[a] = "absent",
         pc' = [pc EXCEPT ![a] = "reregister"], s.toStart > 0, s' = [s EXCEPT !.toStart = @ - 1]
  PROVE  NotifyInv'
<1>1. /\ pc' \in [{"p", "q", "n1", "n2"} -> NotifyPlaces]
      /\ pc'[a] = "reregister" /\ \A b \in {"p", "q", "n1", "n2"} : b # a => pc'[b] = pc[b]
  BY NotifyFacts DEF NotifyPlaces
<1> DEFINE n == s.toStart - 1
<1>2. n \in Nat /\ n + 1 = s.toStart
  BY NotifyFacts
<1>3. s' = [s EXCEPT !.toStart = n]
  OBVIOUS
<1> HIDE DEF n
<1>4. /\ s' \in NotifyState /\ s'.queue = s.queue /\ s'.missed = s.missed /\ s'.sent = s.sent /\ s'.read = s.read
      /\ s'.reg = s.reg /\ s'.pending = s.pending /\ s'.gotSig = s.gotSig /\ s'.toStart = n /\ s'.big = s.big
  BY <1>2, <1>3, NotifyFacts DEF NotifyState
<1>5. ~s.reg
  <2>1. \A b : One(b) \in Nat
    BY DEF One
  <2>2. /\ One(Registering) \in Nat /\ One(s.pending) \in Nat /\ One(s.gotSig) \in Nat
        /\ One(pc["n1"] = "reregister") \in Nat /\ One(pc["n2"] = "reregister") \in Nat
    BY <2>1
  <2>3. s.reg => One(s.reg) = 1
    BY DEF One
  <2>4. Registrations = 1 /\ s.toStart \in Nat
    BY NotifyFacts
  <2> QED
    BY <1>2, <2>2, <2>3, <2>4 DEF Registrations
<1>6. Registrations' = 1
  <2>1. One(Registering)' = One(Registering)
    BY <1>1, <1>4 DEF Registering, One
  <2>2. One(pc["n1"] = "reregister")' + One(pc["n2"] = "reregister")'
          = One(pc["n1"] = "reregister") + One(pc["n2"] = "reregister") + 1
    <3>1. CASE a = "n1"
      BY <1>1, <3>1 DEF One
    <3>2. CASE a = "n2"
      BY <1>1, <3>2 DEF One
    <3> QED
      BY <3>1, <3>2
  <2>3. Registrations' = One(Registering) + One(s.reg) + One(s.pending) + One(s.gotSig) + n
                           + (One(pc["n1"] = "reregister")' + One(pc["n2"] = "reregister")')
    BY <1>2, <1>4, <2>1 DEF Registrations, One
  <2>4. Registrations = One(Registering) + One(s.reg) + One(s.pending) + One(s.gotSig) + s.toStart
                           + (One(pc["n1"] = "reregister") + One(pc["n2"] = "reregister"))
    BY <1>2 DEF Registrations, One
  <2> QED
    BY <1>2, <2>2, <2>3, <2>4, NotifyFacts DEF One
<1>7. Ipc!Promised' <=> Ipc!Promised
  BY <1>4 DEF Ipc!Promised
<1>8. pc'["p"] = pc["p"]
  BY <1>1
<1> QED
  BY <1>1, <1>4, <1>5, <1>6, <1>7, <1>8, NotifyFacts DEF NotifyInv

\* The handler: the flag stands for the signal that was pending
LEMMA NotifyHandler ==
  ASSUME prog \in Ipc!GotSigProgs, prog' = prog, NotifyInv, NEW a, Ipc!Handler(a)
  PROVE  NotifyInv'
<1> DEFINE f == FALSE  t == TRUE
<1>1. f \in BOOLEAN /\ ~f /\ t \in BOOLEAN /\ t /\ prog \in Ipc!NotifyProgs
  BY DEF Ipc!NotifyProgs, Ipc!SignalProgs, Ipc!GotSigProgs
<1>2. s.pending /\ pc' = pc /\ s' = [s EXCEPT !.pending = f, !.gotSig = t] /\ ~Ipc!Gone("p")
  BY Zenon DEF Ipc!Handler
<1> HIDE DEF f, t
<1>3. s' = [queue |-> s.queue, missed |-> s.missed, sent |-> s.sent, read |-> s.read, reg |-> s.reg, pending |-> f,
            gotSig |-> t, toStart |-> s.toStart, big |-> s.big]
  BY <1>1, <1>2, NotifyFacts DEF NotifyState
<1>4. /\ s' \in NotifyState /\ s'.queue = s.queue /\ s'.missed = s.missed /\ s'.sent = s.sent /\ s'.read = s.read
      /\ s'.reg = s.reg /\ ~s'.pending /\ s'.gotSig /\ s'.toStart = s.toStart /\ s'.big = s.big
  BY <1>1, <1>3, NotifyFacts DEF NotifyState
<1>5. Registrations' = 1 /\ ~s.reg
  BY <1>1, <1>2, <1>4, NotifyFacts DEF Registrations, Registering, One
<1> QED
  BY <1>1, <1>2, <1>4, <1>5, NotifyFacts DEF NotifyInv

\* The step of a program is the one of its name
LEMMA IpcStepOf ==
  ASSUME NEW a, Ipc!Step(a)
  PROVE  /\ prog = "mq_notify_sig" => Ipc!mq_notify_sig(a) \/ (a = "q" /\ Ipc!Sender)
         /\ prog = "mq_notify_siginfo" => Ipc!mq_notify_siginfo(a) \/ (a = "q" /\ Ipc!Sender)
         /\ prog = "mq_notify_sigwaitinfo" => Ipc!mq_notify_sigwaitinfo(a) \/ (a = "q" /\ Ipc!Sender)
         /\ prog = "mq_notify_via_signal" => Ipc!mq_notify_via_signal(a) \/ (a = "q" /\ Ipc!Sender)
         /\ prog = "mq_notify_thread" => Ipc!mq_notify_thread(a) \/ (a = "q" /\ Ipc!Sender)
         /\ prog = "mq_notify_via_thread" => Ipc!mq_notify_via_thread(a) \/ (a = "q" /\ Ipc!Sender)
         /\ prog = "pmsg" => Ipc!pmsg(a)
         /\ prog = "psem" => Ipc!psem(a)
         /\ prog = "pshm" => Ipc!pshm(a)
<1>1. Ipc!Sender => prog \in Ipc!NotifyProgs
  BY DEF Ipc!Sender
<1>2. "pmsg" \notin Ipc!NotifyProgs /\ "psem" \notin Ipc!NotifyProgs /\ "pshm" \notin Ipc!NotifyProgs
  BY DEF Ipc!NotifyProgs, Ipc!SignalProgs, Ipc!ThreadProgs
<1> QED
  BY <1>1, <1>2 DEF Ipc!Step, Ipc!mq_notify_sig, Ipc!mq_notify_siginfo, Ipc!mq_notify_sigwaitinfo, Ipc!mq_notify_via_signal,
     Ipc!mq_notify_thread, Ipc!mq_notify_via_thread, Ipc!pmsg, Ipc!psem, Ipc!pshm

\* The sender
LEMMA SenderStep ==
  ASSUME prog \in Ipc!NotifyProgs, prog' = prog, NotifyInv, Ipc!Sender
  PROVE  NotifyInv'
<1>1. CASE pc["q"] = "mq_send" /\ pc' = [pc EXCEPT !["q"] = "mq_send"] /\ s' = Ipc!mq_send(s)
  <2>1. pc' = pc
    BY <1>1, NotifyFacts
  <2> QED
    BY <1>1, <2>1, NotifySend
<1>2. CASE pc' = [pc EXCEPT !["q"] = "exit"] /\ s' = s
  <2>1. /\ pc' \in [{"p", "q", "n1", "n2"} -> NotifyPlaces]
        /\ pc'["p"] = pc["p"] /\ pc'["n1"] = pc["n1"] /\ pc'["n2"] = pc["n2"]
    BY <1>2, NotifyFacts DEF NotifyPlaces
  <2>2. Registrations' = Registrations
    BY <1>2, <2>1 DEF Registrations, Registering
  <2>3. Ipc!Promised' <=> Ipc!Promised
    BY <1>2 DEF Ipc!Promised
  <2> QED
    BY <1>2, <2>1, <2>2, <2>3, NotifyFacts DEF NotifyInv
<1> QED
  BY <1>1, <1>2, Zenon DEF Ipc!Sender, Ipc!Do, Ipc!Go, Ipc!Walk

\* Draining the queue
LEMMA ReceiveStep ==
  ASSUME prog \in Ipc!NotifyProgs, prog' = prog, NotifyInv, NEW a \in {"p", "n1", "n2"},
         NEW to \in {"sigsuspend", "sigwaitinfo", "sleep", "pause", "absent"}, a # "p" => to = "absent",
         Ipc!Receive(a, "drain", to)
  PROVE  NotifyInv'
<1>1. CASE pc[a] = "drain" /\ pc' = [pc EXCEPT ![a] = "drain"] /\ s.queue > 0 /\ s' = [s EXCEPT !.queue = @ - 1, !.read = @ + 1]
  BY <1>1, NotifyReceive
<1>2. CASE pc[a] = "drain" /\ pc' = [pc EXCEPT ![a] = to] /\ s.queue = 0 /\ s' = s
  <2>1. to \in NotifyPlaces
    BY DEF NotifyPlaces
  <2> QED
    BY <1>2, <2>1, NotifyMove
<1> QED
  BY <1>1, <1>2, Zenon DEF Ipc!Receive, Ipc!Do, Ipc!Go, Ipc!Walk

\* The two programs that wait for the blocked signal
LEMMA SuspendStep ==
  ASSUME prog' = prog, NotifyInv, NEW wait \in {"sigsuspend", "sigwaitinfo"},
         prog \in {"mq_notify_sig", "mq_notify_sigwaitinfo"},
         \/ Ipc!mq_notify("p", "start", wait)
         \/ Ipc!Do("p", wait, "reregister", [s EXCEPT !.pending = FALSE]) /\ s.pending
         \/ Ipc!Reregister("p", "reregister", "drain", wait)
  PROVE  NotifyInv'
<1>0. /\ prog \in Ipc!NotifyProgs /\ prog \notin Ipc!GotSigProgs /\ prog # "mq_notify_via_thread"
  BY DEF Ipc!NotifyProgs, Ipc!SignalProgs, Ipc!GotSigProgs
<1> DEFINE f == FALSE
<1>1. f \in BOOLEAN /\ ~f
  OBVIOUS
<1>2. \/ Ipc!mq_notify("p", "start", wait)
      \/ pc["p"] = wait /\ pc' = [pc EXCEPT !["p"] = "reregister"] /\ s.pending /\ s' = [s EXCEPT !.pending = f]
      \/ Ipc!mq_notify("p", "reregister", "drain")
      \/ Ipc!Receive("p", "drain", wait)
  BY Zenon DEF Ipc!Do, Ipc!Go, Ipc!Reregister
<1> HIDE DEF f
<1>3. CASE Ipc!mq_notify("p", "start", wait)
  BY ONLY <1>0, <1>3, prog' = prog, NotifyInv, wait \in {"sigsuspend", "sigwaitinfo"}, NotifyRegister
<1>4. CASE pc["p"] = wait /\ pc' = [pc EXCEPT !["p"] = "reregister"] /\ s.pending /\ s' = [s EXCEPT !.pending = f]
  BY ONLY <1>0, <1>1, <1>4, prog' = prog, NotifyInv, wait \in {"sigsuspend", "sigwaitinfo"}, NotifyTake
<1>5. CASE Ipc!mq_notify("p", "reregister", "drain")
  BY ONLY <1>0, <1>5, prog' = prog, NotifyInv, NotifyRegister
<1>6. CASE Ipc!Receive("p", "drain", wait)
  BY ONLY <1>0, <1>6, prog' = prog, NotifyInv, wait \in {"sigsuspend", "sigwaitinfo"}, ReceiveStep
<1> QED
  BY <1>2, <1>3, <1>4, <1>5, <1>6

\* The two programs with a handler that sets gotSig
LEMMA GotSigStep ==
  ASSUME prog' = prog, NotifyInv, prog \in Ipc!GotSigProgs, Ipc!GotSigLoop
  PROVE  NotifyInv'
<1>0. prog \in Ipc!NotifyProgs /\ prog # "mq_notify_via_thread"
  BY DEF Ipc!NotifyProgs, Ipc!SignalProgs, Ipc!GotSigProgs
<1> DEFINE f == FALSE
<1>1. f \in BOOLEAN /\ ~f
  OBVIOUS
<1>2. \/ pc["p"] = "start" /\ pc' = [pc EXCEPT !["p"] = "if"] /\ s' = s
      \/ pc["p"] = "sleep" /\ pc' = [pc EXCEPT !["p"] = "if"] /\ s' = s
      \/ pc["p"] = "if" /\ pc' = [pc EXCEPT !["p"] = "sleep"] /\ s' = s
      \/ pc["p"] = "if" /\ pc' = [pc EXCEPT !["p"] = "reregister"] /\ s.gotSig /\ s' = [s EXCEPT !.gotSig = f]
      \/ Ipc!mq_notify("p", "reregister", "drain")
      \/ Ipc!Receive("p", "drain", "sleep")
  BY Zenon DEF Ipc!GotSigLoop, Ipc!Walk, Ipc!Do, Ipc!Go, Ipc!Reregister
<1> HIDE DEF f
<1>3. CASE pc["p"] = "start" /\ pc' = [pc EXCEPT !["p"] = "if"] /\ s' = s
  <2>1. s.gotSig
    BY <1>0, <1>3, NotifyFacts DEF NotifyInv
  <2> QED
    BY <1>0, <1>3, <2>1, NotifyMove DEF NotifyPlaces
<1>4. CASE pc["p"] = "sleep" /\ pc' = [pc EXCEPT !["p"] = "if"] /\ s' = s
  BY <1>0, <1>4, NotifyMove DEF NotifyPlaces
<1>5. CASE pc["p"] = "if" /\ pc' = [pc EXCEPT !["p"] = "sleep"] /\ s' = s
  BY <1>0, <1>5, NotifyMove DEF NotifyPlaces
<1>6. CASE pc["p"] = "if" /\ pc' = [pc EXCEPT !["p"] = "reregister"] /\ s.gotSig /\ s' = [s EXCEPT !.gotSig = f]
  BY <1>0, <1>1, <1>6, NotifyTake
<1>7. CASE Ipc!mq_notify("p", "reregister", "drain")
  BY <1>0, <1>7, NotifyRegister
<1>8. CASE Ipc!Receive("p", "drain", "sleep")
  BY <1>0, <1>8, ReceiveStep
<1> QED
  BY <1>2, <1>3, <1>4, <1>5, <1>6, <1>7, <1>8

\* A thread of a notification
LEMMA NotifyThreadStep ==
  ASSUME prog' = prog, NotifyInv, prog \in Ipc!ThreadProgs, NEW a \in {"n1", "n2"}, Ipc!threadFunc(a)
  PROVE  NotifyInv'
<1>0. prog \in Ipc!NotifyProgs
  BY DEF Ipc!NotifyProgs
<1>1. \/ pc[a] = "absent" /\ pc' = [pc EXCEPT ![a] = "reregister"] /\ s' = [s EXCEPT !.toStart = @ - 1] /\ s.toStart > 0
      \/ Ipc!mq_notify(a, "reregister", "drain")
      \/ Ipc!Receive(a, "drain", "absent")
  BY Zenon DEF Ipc!threadFunc, Ipc!Do, Ipc!Go, Ipc!Reregister
<1> QED
  BY <1>0, <1>1, NotifyThread, NotifyRegister, ReceiveStep

\* Every step of the programs that are notified
LEMMA NotifyStep ==
  ASSUME prog \in Ipc!NotifyProgs, prog' = prog, NotifyInv, NEW a \in DOMAIN pc, Ipc!Step(a)
  PROVE  NotifyInv'
<1>1. CASE Ipc!Sender
  BY <1>1, SenderStep
<1>2. CASE prog = "mq_notify_sig" /\ Ipc!mq_notify_sig(a)
  BY <1>2, SuspendStep, Zenon DEF Ipc!mq_notify_sig
<1>3. CASE prog = "mq_notify_sigwaitinfo" /\ Ipc!mq_notify_sigwaitinfo(a)
  BY <1>3, SuspendStep, Zenon DEF Ipc!mq_notify_sigwaitinfo
<1>4. CASE prog = "mq_notify_via_signal" /\ Ipc!mq_notify_via_signal(a)
  BY <1>4, GotSigStep, NotifyHandler DEF Ipc!mq_notify_via_signal, Ipc!GotSigProgs
<1>5. CASE prog = "mq_notify_siginfo" /\ Ipc!mq_notify_siginfo(a)
  <2>1. prog \in Ipc!GotSigProgs
    BY <1>5 DEF Ipc!GotSigProgs
  <2>2. CASE s.big /\ pc["p"] = "drain" /\ Ipc!Walk("p", "drain", "failed")
    BY <1>5, <2>2, NotifyMove DEF Ipc!Walk, Ipc!Go, NotifyPlaces
  <2> QED
    BY <1>5, <2>1, <2>2, GotSigStep, NotifyHandler DEF Ipc!mq_notify_siginfo
<1>6. CASE prog = "mq_notify_thread" /\ Ipc!mq_notify_thread(a)
  <2>1. prog \in Ipc!ThreadProgs /\ prog \notin Ipc!GotSigProgs /\ prog # "mq_notify_via_thread"
    BY <1>6 DEF Ipc!ThreadProgs, Ipc!GotSigProgs
  <2>2. CASE Ipc!mq_notify("p", "start", "pause")
    BY <2>1, <2>2, NotifyRegister
  <2> QED
    BY <1>6, <2>1, <2>2, NotifyThreadStep DEF Ipc!mq_notify_thread
<1>7. CASE prog = "mq_notify_via_thread" /\ Ipc!mq_notify_via_thread(a)
  <2>1. prog \in Ipc!ThreadProgs /\ prog \notin Ipc!GotSigProgs
    BY <1>7 DEF Ipc!ThreadProgs, Ipc!GotSigProgs
  <2>2. CASE Ipc!mq_notify("p", "start", "drain")
    BY <2>1, <2>2, NotifyRegister
  <2>3. CASE Ipc!Receive("p", "drain", "pause")
    BY <2>3, ReceiveStep
  <2> QED
    BY <1>7, <2>1, <2>2, <2>3, NotifyThreadStep DEF Ipc!mq_notify_via_thread, Ipc!Reregister
<1>8. /\ prog = "mq_notify_sig" => Ipc!mq_notify_sig(a) \/ Ipc!Sender
      /\ prog = "mq_notify_siginfo" => Ipc!mq_notify_siginfo(a) \/ Ipc!Sender
      /\ prog = "mq_notify_sigwaitinfo" => Ipc!mq_notify_sigwaitinfo(a) \/ Ipc!Sender
      /\ prog = "mq_notify_via_signal" => Ipc!mq_notify_via_signal(a) \/ Ipc!Sender
      /\ prog = "mq_notify_thread" => Ipc!mq_notify_thread(a) \/ Ipc!Sender
      /\ prog = "mq_notify_via_thread" => Ipc!mq_notify_via_thread(a) \/ Ipc!Sender
  BY IpcStepOf
<1> QED
  BY <1>1, <1>2, <1>3, <1>4, <1>5, <1>6, <1>7, <1>8 DEF Ipc!NotifyProgs, Ipc!SignalProgs, Ipc!ThreadProgs

\* A message that waits is announced
LEMMA NotifyKept ==
  ASSUME NotifyInv
  PROVE  Ipc!Notified
<1> SUFFICES ASSUME prog \in Ipc!NotifyProgs
             PROVE  Ipc!Notified
  BY DEF Ipc!Notified
<1>1. ~\E a \in {"n1", "n2"} : pc[a] = "failed"
  BY NotifyFacts
<1>2. ASSUME s.queue > 0, Ipc!Promised, pc["p"] \notin {"start", "if", "reregister", "drain", "failed"},
             ~s.pending, ~s.gotSig, ~(s.toStart > 0), \A a \in {"n1", "n2"} : pc[a] \notin {"reregister", "drain"}
      PROVE  FALSE
  <2>1. s.reg
    BY <1>2, NotifyFacts DEF Registrations, Registering, One
  <2>2. s.queue = 0
    BY <1>2, <2>1, NotifyFacts
  <2> QED
    BY <1>2, <2>2
<1> QED
  BY <1>1, <1>2, NotifyFacts DEF Ipc!Notified

-----------------------------------------------------------------------------
(* pmsg/: senders and receivers on one queue *)

\* PosixIpc has its own copy of FiniteSets
LEMMA IpcCardinality ==
  \A S : Ipc!Cardinality(S) = Cardinality(S)
  BY DEF Ipc!Cardinality, Cardinality

Prios == Nat \ {0}

\* The size of an interval
LEMMA IntervalSize ==
  ASSUME NEW n \in Nat
  PROVE  IsFiniteSet(1 .. n) /\ Cardinality(1 .. n) = n
<1>1. n \in Int /\ 1 \in Int /\ (1 > n <=> n = 0) /\ n - 1 + 1 = n
  OBVIOUS
<1>2. IsFiniteSet(1 .. n) /\ Cardinality(1 .. n) = IF 1 > n THEN 0 ELSE n - 1 + 1
  BY <1>1, FS_Interval
<1> QED
  BY <1>1, <1>2

\* The length of a concatenation
LEMMA Joined ==
  ASSUME NEW x \in Seq(Prios), NEW y \in Seq(Prios)
  PROVE  x \o y \in Seq(Prios) /\ Len(x \o y) = Len(x) + Len(y)
  BY ConcatProperties

\* A part of a sequence
LEMMA Part ==
  ASSUME NEW q \in Seq(Prios), NEW i \in 1 .. Len(q) + 1, NEW j \in i - 1 .. Len(q)
  PROVE  SubSeq(q, i, j) \in Seq(Prios) /\ Len(SubSeq(q, i, j)) = j - i + 1
  BY SubSeqProperties

\* Inserting a message makes the queue longer by one
LEMMA Inserted ==
  ASSUME NEW queue \in Seq(Prios), NEW m \in Prios
  PROVE  Ipc!Insert(queue, m) \in Seq(Prios) /\ Len(Ipc!Insert(queue, m)) = Len(queue) + 1
<1> DEFINE S == {i \in 1 .. Len(queue) : queue[i] >= m}  n == Ipc!Cardinality(S)
<1>0. Len(queue) \in Nat
  OBVIOUS
<1>1. n \in 0 .. Len(queue)
  <2>1. IsFiniteSet(1 .. Len(queue)) /\ Cardinality(1 .. Len(queue)) = Len(queue)
    BY <1>0, IntervalSize
  <2>2. S \subseteq 1 .. Len(queue)
    OBVIOUS
  <2>3. n = Cardinality(S)
    BY IpcCardinality
  <2> HIDE DEF n, S
  <2>4. IsFiniteSet(S) /\ Cardinality(S) <= Cardinality(1 .. Len(queue))
    BY <2>1, <2>2, FS_Subset
  <2>5. Cardinality(S) \in Nat
    BY <2>4, FS_CardinalityType
  <2> QED
    BY <1>0, <2>1, <2>3, <2>4, <2>5
<1>2. Ipc!Insert(queue, m) = SubSeq(queue, 1, n) \o <<m>> \o SubSeq(queue, n + 1, Len(queue))
  BY Zenon DEF Ipc!Insert
<1> HIDE DEF n
<1> DEFINE x == SubSeq(queue, 1, n)  y == <<m>>  z == SubSeq(queue, n + 1, Len(queue))
<1>3. x \in Seq(Prios) /\ Len(x) = n
  <2>1. 1 \in 1 .. Len(queue) + 1 /\ n \in 1 - 1 .. Len(queue) /\ n - 1 + 1 = n
    BY <1>0, <1>1
  <2> QED
    BY <2>1, Part
<1>4. z \in Seq(Prios) /\ Len(z) = Len(queue) - n
  <2>1. n + 1 \in 1 .. Len(queue) + 1 /\ Len(queue) \in (n + 1) - 1 .. Len(queue) /\ Len(queue) - (n + 1) + 1 = Len(queue) - n
    BY <1>0, <1>1
  <2> QED
    BY <2>1, Part
<1>5. y \in Seq(Prios) /\ Len(y) = 1
  OBVIOUS
<1>6. Ipc!Insert(queue, m) = (x \o y) \o z
  BY <1>2, Zenon
<1> HIDE DEF x, y, z
<1>7. x \o y \in Seq(Prios) /\ Len(x \o y) = Len(x) + Len(y)
  BY <1>3, <1>5, Joined
<1>8. (x \o y) \o z \in Seq(Prios) /\ Len((x \o y) \o z) = Len(x \o y) + Len(z)
  BY <1>4, <1>7, Joined
<1>9. Len(x \o y) + Len(z) = Len(queue) + 1
  BY <1>0, <1>1, <1>3, <1>4, <1>5, <1>7
<1> QED
  BY <1>6, <1>8, <1>9

Senders == {"q1", "q2"}
Receivers == {"r1", "r2"}
PmsgActors == {"c", "u"} \cup Senders \cup Receivers

PmsgState == [opts : SUBSET {"c", "x", "m"}, nonblock : BOOLEAN, name : BOOLEAN, max : 0 .. 2, queue : Seq(Prios),
              got : [Receivers -> Nat], sentq : SUBSET Senders, attrs : 0 .. 2]

Got == {r \in Receivers : s.got[r] > 0}

\* Who has sent, or received, has ended; nobody has the queue open before it is created
PmsgInv ==
  prog = "pmsg" =>
    /\ pc \in [PmsgActors -> {"mq_open", "unlink", "getattr", "send", "receive", "exit", "failed"}]
    /\ s \in PmsgState
    /\ Cardinality(s.sentq) = Len(s.queue) + Cardinality(Got)
    /\ Len(s.queue) <= s.max
    /\ \A q \in Senders : q \in s.sentq <=> pc[q] = "exit"
    /\ \A r \in Receivers : s.got[r] > 0 <=> pc[r] = "exit"
    /\ pc["c"] = "mq_open" => pc["u"] = "unlink" /\ (~s.name => s.max = 0)

\* A set of at most two
LEMMA SmallSets ==
  /\ \A S \in SUBSET Senders : IsFiniteSet(S) /\ Cardinality(S) \in Nat
  /\ \A S \in SUBSET Receivers : IsFiniteSet(S) /\ Cardinality(S) \in Nat
  /\ Cardinality({}) = 0
  /\ \A S \in SUBSET Senders, x \in Senders : x \notin S => Cardinality(S \cup {x}) = Cardinality(S) + 1
  /\ \A S \in SUBSET Receivers, x \in Receivers : x \notin S => Cardinality(S \cup {x}) = Cardinality(S) + 1
<1>1. IsFiniteSet(Senders) /\ IsFiniteSet(Receivers)
  <2>1. IsFiniteSet({"q1"} \cup {"q2"}) /\ IsFiniteSet({"r1"} \cup {"r2"})
    BY FS_Singleton, FS_Union
  <2>2. Senders = {"q1"} \cup {"q2"} /\ Receivers = {"r1"} \cup {"r2"}
    BY DEF Senders, Receivers
  <2> QED
    BY <2>1, <2>2
<1>2. /\ \A S \in SUBSET Senders : IsFiniteSet(S) /\ Cardinality(S) \in Nat
      /\ \A S \in SUBSET Receivers : IsFiniteSet(S) /\ Cardinality(S) \in Nat
  BY <1>1, FS_Subset, FS_CardinalityType
<1> QED
  BY <1>2, FS_EmptySet, FS_AddElement

LEMMA PmsgStart ==
  ASSUME Ipc!QueueInit
  PROVE  PmsgInv
<1> PICK opts \in SUBSET {"c", "x", "m"}, exists \in BOOLEAN, nonblock \in BOOLEAN :
      Ipc!Start("pmsg", [c |-> "mq_open", q1 |-> "mq_open", q2 |-> "mq_open", r1 |-> "mq_open", r2 |-> "mq_open", u |-> "unlink"],
          [opts |-> opts, nonblock |-> nonblock, name |-> exists, max |-> IF exists THEN 2 ELSE 0,
           queue |-> << >>, got |-> [r \in {"r1", "r2"} |-> 0], sentq |-> {}, attrs |-> 0])
  BY DEF Ipc!QueueInit
<1> DEFINE m == IF exists THEN 2 ELSE 0  g == [r \in {"r1", "r2"} |-> 0]  e == << >>
<1>1. /\ m \in 0 .. 2 /\ (~exists => m = 0) /\ e \in Seq(Prios) /\ Len(e) = 0
      /\ g \in [Receivers -> Nat] /\ \A r \in Receivers : g[r] = 0
  BY DEF Receivers
<1>2. /\ pc = [c |-> "mq_open", q1 |-> "mq_open", q2 |-> "mq_open", r1 |-> "mq_open", r2 |-> "mq_open", u |-> "unlink"]
      /\ s = [opts |-> opts, nonblock |-> nonblock, name |-> exists, max |-> m, queue |-> e, got |-> g, sentq |-> {}, attrs |-> 0]
  BY DEF Ipc!Start
<1> HIDE DEF m, g, e
<1>3. s \in PmsgState /\ s.queue = e /\ s.got = g /\ s.sentq = {} /\ s.max = m /\ s.name = exists
  BY <1>1, <1>2 DEF PmsgState
<1>4. /\ pc \in [PmsgActors -> {"mq_open", "unlink"}] /\ pc["u"] = "unlink"
      /\ \A a \in Senders \cup Receivers : pc[a] = "mq_open"
  BY <1>2 DEF PmsgActors, Senders, Receivers
<1>5. Got = {}
  BY <1>1, <1>3 DEF Got
<1> QED
  BY <1>1, <1>3, <1>4, <1>5, SmallSets DEF PmsgInv

PmsgPlaces == {"mq_open", "unlink", "getattr", "send", "receive", "exit", "failed"}

LEMMA PmsgFacts ==
  ASSUME prog = "pmsg", PmsgInv
  PROVE  /\ pc \in [PmsgActors -> PmsgPlaces] /\ s \in PmsgState
         /\ s.queue \in Seq(Prios) /\ Len(s.queue) \in Nat /\ s.max \in 0 .. 2 /\ s.name \in BOOLEAN /\ s.nonblock \in BOOLEAN
         /\ s.got \in [Receivers -> Nat] /\ s.sentq \in SUBSET Senders /\ s.attrs \in 0 .. 2 /\ s.opts \in SUBSET {"c", "x", "m"}
         /\ Cardinality(s.sentq) = Len(s.queue) + Cardinality(Got)
         /\ Len(s.queue) <= s.max
         /\ \A q \in Senders : q \in s.sentq <=> pc[q] = "exit"
         /\ \A r \in Receivers : s.got[r] > 0 <=> pc[r] = "exit"
         /\ pc["c"] = "mq_open" => pc["u"] = "unlink" /\ (~s.name => s.max = 0)
  BY DEF PmsgInv, PmsgState, PmsgPlaces

\* A step that neither sends nor receives
LEMMA PmsgKept ==
  ASSUME prog = "pmsg", prog' = prog, PmsgInv, pc' \in [PmsgActors -> PmsgPlaces], s' \in PmsgState,
         s'.queue = s.queue, s'.got = s.got, s'.sentq = s.sentq, s.max <= s'.max,
         \A a \in Senders \cup Receivers : pc'[a] = "exit" <=> pc[a] = "exit",
         pc'["c"] = "mq_open" => pc'["u"] = "unlink" /\ (~s'.name => s'.max = 0)
  PROVE  PmsgInv'
<1>1. s'.max \in Int /\ s.max \in Int /\ Len(s.queue) <= s'.max
  BY PmsgFacts DEF PmsgState
<1>2. Got' = Got
  BY DEF Got
<1> QED
  BY <1>1, <1>2, PmsgFacts DEF PmsgInv, PmsgPlaces

\* An actor goes on
LEMMA PmsgGo ==
  ASSUME prog = "pmsg", prog' = prog, PmsgInv, NEW a \in PmsgActors, NEW to \in PmsgPlaces, pc[a] # "exit",
         a = "u" => pc["c"] # "mq_open", a # "u" => to # "exit", to # "mq_open", pc' = [pc EXCEPT ![a] = to], s' = s
  PROVE  PmsgInv'
<1>1. /\ pc' \in [PmsgActors -> PmsgPlaces] /\ pc'[a] = to /\ \A b \in PmsgActors : b # a => pc'[b] = pc[b]
  BY PmsgFacts
<1>2. \A b \in Senders \cup Receivers : pc'[b] = "exit" <=> pc[b] = "exit"
  BY <1>1 DEF PmsgActors, Senders, Receivers
<1>3. pc'["c"] = "mq_open" => a # "u" /\ pc["c"] = "mq_open" /\ pc'["u"] = pc["u"]
  BY <1>1 DEF PmsgActors
<1> QED
  BY <1>1, <1>2, <1>3, PmsgFacts, PmsgKept

LEMMA PmsgCreate ==
  ASSUME prog = "pmsg", prog' = prog, PmsgInv, Ipc!pmsg_create("c")
  PROVE  PmsgInv'
<1> DEFINE t == TRUE  m == IF "m" \in s.opts THEN 1 ELSE 2
           ok == IF s.name THEN ~{"c", "x"} \subseteq s.opts ELSE "c" \in s.opts
           to == IF ok THEN "exit" ELSE "failed"
<1>1. t \in BOOLEAN /\ t /\ m \in 1 .. 2 /\ to \in {"exit", "failed"}
  OBVIOUS
<1>2. /\ pc["c"] = "mq_open" /\ pc' = [pc EXCEPT !["c"] = to]
      /\ s' = IF ok /\ ~s.name THEN [s EXCEPT !.name = t, !.max = m] ELSE s
  BY Zenon DEF Ipc!pmsg_create, Ipc!Do, Ipc!Go
<1> HIDE DEF t, m, ok, to
<1>3. /\ s' \in PmsgState /\ s'.queue = s.queue /\ s'.got = s.got /\ s'.sentq = s.sentq
      /\ s'.max = s.max \/ (~s.name /\ s'.max \in 1 .. 2)
  <2>1. s' = s \/ (~s.name /\ s' = [s EXCEPT !.name = t, !.max = m])
    BY <1>2, Zenon
  <2>2. CASE ~s.name /\ s' = [s EXCEPT !.name = t, !.max = m]
    <3>1. s = [opts |-> s.opts, nonblock |-> s.nonblock, name |-> s.name, max |-> s.max, queue |-> s.queue, got |-> s.got,
               sentq |-> s.sentq, attrs |-> s.attrs]
      BY PmsgFacts DEF PmsgState
    <3>2. s' = [opts |-> s.opts, nonblock |-> s.nonblock, name |-> t, max |-> m, queue |-> s.queue, got |-> s.got,
                sentq |-> s.sentq, attrs |-> s.attrs]
      BY ONLY <2>2, <3>1
    <3>3. m \in 0 .. 2
      BY <1>1
    <3> QED
      BY <1>1, <2>2, <3>2, <3>3, PmsgFacts DEF PmsgState
  <2> QED
    BY <2>1, <2>2, PmsgFacts
<1>4. pc' \in [PmsgActors -> PmsgPlaces] /\ pc'["c"] # "mq_open" /\ \A a \in PmsgActors : a # "c" => pc'[a] = pc[a]
  BY <1>1, <1>2, PmsgFacts DEF PmsgActors, PmsgPlaces
<1>5. s.max <= s'.max
  BY <1>2, <1>3, PmsgFacts
<1>6. \A a \in Senders \cup Receivers : pc'[a] = "exit" <=> pc[a] = "exit"
  BY <1>4 DEF PmsgActors, Senders, Receivers
<1> QED
  BY <1>3, <1>4, <1>5, <1>6, PmsgKept

LEMMA PmsgSend ==
  ASSUME prog = "pmsg", prog' = prog, PmsgInv, NEW a \in Senders,
         pc[a] = "send", pc' = [pc EXCEPT ![a] = "exit"], Len(s.queue) < s.max,
         s' = [s EXCEPT !.queue = Ipc!Insert(@, Ipc!Prio(a)), !.sentq = @ \union {a}]
  PROVE  PmsgInv'
<1>1. Ipc!Prio(a) \in Prios
  BY DEF Ipc!Prio, Prios
<1> DEFINE queue == Ipc!Insert(s.queue, Ipc!Prio(a))  sentq == s.sentq \cup {a}
<1>2. queue \in Seq(Prios) /\ Len(queue) = Len(s.queue) + 1
  BY <1>1, PmsgFacts, Inserted
<1>3. sentq \in SUBSET Senders /\ Cardinality(sentq) = Cardinality(s.sentq) + 1
  BY PmsgFacts, SmallSets
<1>4. s' = [s EXCEPT !.queue = queue, !.sentq = sentq]
  BY Zenon
<1>5. \A q \in Senders : q \in sentq <=> q = a \/ q \in s.sentq
  OBVIOUS
<1> HIDE DEF queue, sentq
<1>6. s' \in PmsgState /\ s'.queue = queue /\ s'.got = s.got /\ s'.sentq = sentq /\ s'.max = s.max /\ s'.name = s.name
  BY <1>2, <1>3, <1>4, PmsgFacts, ZenonT(60) DEF PmsgState
<1>7. pc' \in [PmsgActors -> PmsgPlaces] /\ pc'[a] = "exit" /\ \A b \in PmsgActors : b # a => pc'[b] = pc[b]
  BY PmsgFacts DEF PmsgActors, PmsgPlaces
<1>8. Got' = Got
  BY <1>6 DEF Got
<1>9. Cardinality(Got) \in Nat /\ Cardinality(s.sentq) \in Nat
  BY PmsgFacts, SmallSets DEF Got
<1>10. Cardinality(s'.sentq) = Len(s'.queue) + Cardinality(Got') /\ Len(s'.queue) <= s'.max
  <2> DEFINE l == Len(s.queue)  k == Cardinality(s.sentq)  g == Cardinality(Got)
  <2>1. l \in Nat /\ k \in Nat /\ g \in Nat /\ k = l + g /\ s.max \in Int /\ l < s.max
    BY <1>9, PmsgFacts
  <2>2. Len(s'.queue) = l + 1 /\ Cardinality(s'.sentq) = k + 1 /\ Cardinality(Got') = g /\ s'.max = s.max
    BY <1>2, <1>3, <1>6, <1>8
  <2> HIDE DEF l, k, g
  <2> QED
    BY ONLY <2>1, <2>2
<1>11. \A q \in Senders : q \in s'.sentq <=> pc'[q] = "exit"
  BY <1>5, <1>6, <1>7, PmsgFacts DEF PmsgActors
<1>12. \A r \in Receivers : s'.got[r] > 0 <=> pc'[r] = "exit"
  BY <1>6, <1>7, PmsgFacts DEF PmsgActors, Senders, Receivers
<1>13. pc'["c"] = pc["c"] /\ pc'["u"] = pc["u"]
  BY <1>7 DEF PmsgActors, Senders
<1> QED
  BY <1>6, <1>7, <1>10, <1>11, <1>12, <1>13, PmsgFacts DEF PmsgInv, PmsgPlaces

LEMMA PmsgReceive ==
  ASSUME prog = "pmsg", prog' = prog, PmsgInv, NEW a \in Receivers,
         pc[a] = "receive", pc' = [pc EXCEPT ![a] = "exit"], s.queue # << >>,
         s' = [s EXCEPT !.got[a] = Head(s.queue), !.queue = Tail(@)]
  PROVE  PmsgInv'
<1> DEFINE queue == Tail(s.queue)  m == Head(s.queue)  got == [s.got EXCEPT ![a] = m]
<1>1. queue \in Seq(Prios) /\ Len(queue) = Len(s.queue) - 1 /\ m \in Prios
  BY PmsgFacts
<1>2. s' = [s EXCEPT !.got = got, !.queue = queue]
  BY Zenon
<1>3. m \in Nat /\ m > 0
  BY <1>1 DEF Prios
<1> HIDE DEF m, queue
<1>4. got \in [Receivers -> Nat] /\ got[a] > 0 /\ \A r \in Receivers : r # a => got[r] = s.got[r]
  BY <1>3, PmsgFacts
<1> HIDE DEF got
<1>5. s' = [opts |-> s.opts, nonblock |-> s.nonblock, name |-> s.name, max |-> s.max, queue |-> queue, got |-> got,
            sentq |-> s.sentq, attrs |-> s.attrs]
  <2>1. s = [opts |-> s.opts, nonblock |-> s.nonblock, name |-> s.name, max |-> s.max, queue |-> s.queue, got |-> s.got,
             sentq |-> s.sentq, attrs |-> s.attrs]
    BY PmsgFacts DEF PmsgState
  <2> QED
    BY ONLY <1>2, <2>1
<1>6. s' \in PmsgState /\ s'.queue = queue /\ s'.got = got /\ s'.sentq = s.sentq /\ s'.max = s.max /\ s'.name = s.name
  <2>1. /\ queue \in Seq(Prios) /\ got \in [Receivers -> Nat] /\ s.max \in 0 .. 2 /\ s.name \in BOOLEAN /\ s.nonblock \in BOOLEAN
        /\ s.sentq \in SUBSET Senders /\ s.attrs \in 0 .. 2 /\ s.opts \in SUBSET {"c", "x", "m"}
    BY <1>1, <1>4, PmsgFacts
  <2> QED
    BY ONLY <1>5, <2>1 DEF PmsgState
<1>7. pc' \in [PmsgActors -> PmsgPlaces] /\ pc'[a] = "exit" /\ \A b \in PmsgActors : b # a => pc'[b] = pc[b]
  BY PmsgFacts DEF PmsgActors, PmsgPlaces
<1>8. Got' = Got \cup {a} /\ a \notin Got /\ Got \in SUBSET Receivers
  BY <1>4, <1>6, PmsgFacts DEF Got
<1>9. Cardinality(Got') = Cardinality(Got) + 1 /\ Cardinality(Got) \in Nat
  BY <1>8, SmallSets
<1>10. Cardinality(s'.sentq) = Len(s'.queue) + Cardinality(Got') /\ Len(s'.queue) <= s'.max
  BY <1>1, <1>6, <1>9, PmsgFacts
<1>11. \A q \in Senders : q \in s'.sentq <=> pc'[q] = "exit"
  BY <1>6, <1>7, PmsgFacts DEF PmsgActors, Senders, Receivers
<1>12. \A r \in Receivers : s'.got[r] > 0 <=> pc'[r] = "exit"
  BY <1>4, <1>6, <1>7, PmsgFacts DEF PmsgActors
<1>13. pc'["c"] = pc["c"] /\ pc'["u"] = pc["u"]
  BY <1>7 DEF PmsgActors, Receivers
<1> QED
  BY <1>6, <1>7, <1>10, <1>11, <1>12, <1>13, PmsgFacts DEF PmsgInv, PmsgPlaces

\* What shows the attributes, and removes the name
LEMMA PmsgShow ==
  ASSUME prog = "pmsg", prog' = prog, PmsgInv, Ipc!pmsg_getattr("u") \/ Ipc!pmsg_unlink("u")
  PROVE  PmsgInv'
<1> DEFINE f == FALSE  n == IF s.name THEN s.max ELSE 0
           open == IF s.name THEN "getattr" ELSE "failed"  close == IF s.name THEN "exit" ELSE "failed"
<1>1. f \in BOOLEAN /\ n \in 0 .. 2 /\ open \in PmsgPlaces /\ close \in PmsgPlaces /\ open # "unlink" /\ close # "unlink"
  BY PmsgFacts DEF PmsgPlaces
<1>2. \/ pc["u"] = "unlink" /\ Ipc!Gone("c") /\ pc' = [pc EXCEPT !["u"] = open] /\ s' = [s EXCEPT !.attrs = n]
      \/ pc["u"] = "getattr" /\ pc' = [pc EXCEPT !["u"] = close] /\ s' = [s EXCEPT !.name = f]
  BY Zenon DEF Ipc!pmsg_getattr, Ipc!pmsg_unlink, Ipc!Do, Ipc!Go
<1> HIDE DEF f, n, open, close
<1>3. s' \in PmsgState /\ s'.queue = s.queue /\ s'.got = s.got /\ s'.sentq = s.sentq /\ s'.max = s.max
  BY <1>1, <1>2, PmsgFacts DEF PmsgState
<1>4. pc' \in [PmsgActors -> PmsgPlaces] /\ \A a \in PmsgActors : a # "u" => pc'[a] = pc[a]
  BY <1>1, <1>2, PmsgFacts DEF PmsgActors
<1>5. pc["c"] # "mq_open"
  BY <1>2, PmsgFacts DEF Ipc!Gone, Ipc!Final
<1>6. pc'["c"] # "mq_open" /\ \A a \in Senders \cup Receivers : pc'[a] = "exit" <=> pc[a] = "exit"
  BY <1>4, <1>5 DEF PmsgActors, Senders, Receivers
<1>7. s.max <= s'.max
  BY <1>3, PmsgFacts
<1> QED
  BY <1>3, <1>4, <1>6, <1>7, PmsgKept

LEMMA PmsgStep ==
  ASSUME prog = "pmsg", prog' = prog, PmsgInv, NEW a \in DOMAIN pc, Ipc!Step(a)
  PROVE  PmsgInv'
<1>1. Ipc!pmsg(a)
  BY IpcStepOf
<1>2. CASE Ipc!pmsg_create(a)
  BY <1>2, PmsgCreate DEF Ipc!pmsg_create
<1>3. CASE Ipc!pmsg_send(a)
  <2>1. a \in Senders
    BY <1>3 DEF Ipc!pmsg_send, Senders
  <2>2. \/ pc[a] = "mq_open" /\ pc' = [pc EXCEPT ![a] = IF s.name THEN "send" ELSE "failed"] /\ s' = s
        \/ /\ pc[a] = "send" /\ pc' = [pc EXCEPT ![a] = "exit"] /\ Len(s.queue) < s.max
           /\ s' = [s EXCEPT !.queue = Ipc!Insert(@, Ipc!Prio(a)), !.sentq = @ \union {a}]
        \/ pc[a] = "send" /\ pc' = [pc EXCEPT ![a] = "failed"] /\ s' = s
    BY <1>3, Zenon DEF Ipc!pmsg_send, Ipc!Opened, Ipc!Walk, Ipc!Do, Ipc!Go
  <2> QED
    BY <2>1, <2>2, PmsgSend, PmsgGo DEF Senders, PmsgActors, PmsgPlaces
<1>4. CASE Ipc!pmsg_receive(a)
  <2>1. a \in Receivers
    BY <1>4 DEF Ipc!pmsg_receive, Receivers
  <2>2. \/ pc[a] = "mq_open" /\ pc' = [pc EXCEPT ![a] = IF s.name THEN "receive" ELSE "failed"] /\ s' = s
        \/ /\ pc[a] = "receive" /\ pc' = [pc EXCEPT ![a] = "exit"] /\ s.queue # << >>
           /\ s' = [s EXCEPT !.got[a] = Head(s.queue), !.queue = Tail(@)]
        \/ pc[a] = "receive" /\ pc' = [pc EXCEPT ![a] = "failed"] /\ s' = s
    BY <1>4, Zenon DEF Ipc!pmsg_receive, Ipc!Opened, Ipc!Walk, Ipc!Do, Ipc!Go
  <2> QED
    BY <2>1, <2>2, PmsgReceive, PmsgGo DEF Receivers, PmsgActors, PmsgPlaces
<1>5. CASE Ipc!pmsg_getattr(a) \/ Ipc!pmsg_unlink(a)
  BY <1>5, PmsgShow DEF Ipc!pmsg_getattr, Ipc!pmsg_unlink
<1> QED
  BY <1>1, <1>2, <1>3, <1>4, <1>5 DEF Ipc!pmsg

LEMMA PmsgSafe ==
  ASSUME PmsgInv
  PROVE  Ipc!QueueKept
<1> SUFFICES ASSUME prog = "pmsg" PROVE Ipc!QueueKept
  BY DEF Ipc!QueueKept
<1>1. Got = {r \in {"r1", "r2"} : s.got[r] > 0}
  BY DEF Got, Receivers
<1>2. \A r \in {"r1", "r2"} : pc[r] = "exit" => s.got[r] > 0
  BY PmsgFacts DEF Receivers
<1> QED
  BY <1>1, <1>2, PmsgFacts, IpcCardinality DEF Ipc!QueueKept

-----------------------------------------------------------------------------
(* psem/: named semaphores *)

SemUsers == {"w", "t", "y", "v"}
PsemActors == SemUsers \cup {"u", "c"}
PsemPlaces == {"sem_open", "unlink", "getvalue", "sem", "exit", "failed"}

PsemState == [excl : BOOLEAN, name : 0 .. 2, value : [1 .. 2 -> Nat], init : [1 .. 2 -> Int], sem : [SemUsers -> 0 .. 2],
              posts : [1 .. 2 -> Int], taken : [1 .. 2 -> Int], shown : Nat]

Counted(o) == s.value[o] = s.init[o] + s.posts[o] - s.taken[o]

\* The second object is new when the name is created again: nobody has it before
PsemInv ==
  prog = "psem" =>
    /\ pc \in [PsemActors -> PsemPlaces]
    /\ s \in PsemState
    /\ Counted(1) /\ Counted(2)
    /\ \A a \in SemUsers : pc[a] = "sem" => s.sem[a] \in {1, 2}
    /\ pc["c"] = "sem_open" => /\ s.name # 2 /\ \A a \in SemUsers : s.sem[a] # 2
                               /\ s.posts[2] = 0 /\ s.taken[2] = 0

LEMMA PsemFacts ==
  ASSUME prog = "psem", PsemInv
  PROVE  /\ pc \in [PsemActors -> PsemPlaces] /\ s \in PsemState
         /\ s.excl \in BOOLEAN /\ s.name \in 0 .. 2 /\ s.value \in [1 .. 2 -> Nat] /\ s.init \in [1 .. 2 -> Int]
         /\ s.sem \in [SemUsers -> 0 .. 2] /\ s.posts \in [1 .. 2 -> Int] /\ s.taken \in [1 .. 2 -> Int] /\ s.shown \in Nat
         /\ Counted(1) /\ Counted(2)
         /\ \A a \in SemUsers : pc[a] = "sem" => s.sem[a] \in {1, 2}
         /\ pc["c"] = "sem_open" => /\ s.name # 2 /\ \A a \in SemUsers : s.sem[a] # 2
                                    /\ s.posts[2] = 0 /\ s.taken[2] = 0
  BY DEF PsemInv, PsemState

LEMMA PsemStart ==
  ASSUME Ipc!SemInit
  PROVE  PsemInv
<1> PICK excl \in BOOLEAN, v \in 0 .. 1 :
      Ipc!Start("psem", [w |-> "sem_open", t |-> "sem_open", y |-> "sem_open", v |-> "sem_open", u |-> "unlink", c |-> "sem_open"],
          [excl |-> excl, name |-> 1, value |-> <<v, 0>>, init |-> <<v, 0>>, sem |-> [a \in {"w", "t", "y", "v"} |-> 0],
           posts |-> <<0, 0>>, taken |-> <<0, 0>>, shown |-> 0])
  BY DEF Ipc!SemInit
<1> DEFINE value == <<v, 0>>  none == <<0, 0>>  sem == [a \in {"w", "t", "y", "v"} |-> 0]
<1>1. /\ value \in [1 .. 2 -> Nat] /\ value \in [1 .. 2 -> Int] /\ none \in [1 .. 2 -> Int]
      /\ value[1] = v /\ value[2] = 0 /\ none[1] = 0 /\ none[2] = 0 /\ v \in Int
      /\ sem \in [SemUsers -> 0 .. 2] /\ \A a \in SemUsers : sem[a] = 0
  BY DEF SemUsers
<1>2. /\ pc = [w |-> "sem_open", t |-> "sem_open", y |-> "sem_open", v |-> "sem_open", u |-> "unlink", c |-> "sem_open"]
      /\ s = [excl |-> excl, name |-> 1, value |-> value, init |-> value, sem |-> sem, posts |-> none, taken |-> none, shown |-> 0]
  BY DEF Ipc!Start
<1> HIDE DEF value, none, sem
<1>3. s \in PsemState /\ s.name = 1 /\ s.value = value /\ s.init = value /\ s.sem = sem /\ s.posts = none /\ s.taken = none
  BY <1>1, <1>2 DEF PsemState
<1>4. pc \in [PsemActors -> PsemPlaces] /\ \A a \in SemUsers : pc[a] = "sem_open"
  BY <1>2 DEF PsemActors, PsemPlaces, SemUsers
<1>5. Counted(1) /\ Counted(2)
  BY <1>1, <1>3 DEF Counted
<1> QED
  BY <1>1, <1>3, <1>4, <1>5 DEF PsemInv

\* A user goes on and the objects stay as they are
LEMMA PsemFails ==
  ASSUME prog = "psem", prog' = prog, PsemInv, NEW a \in SemUsers, pc' = [pc EXCEPT ![a] = "failed"], s' = s
  PROVE  PsemInv'
<1>1. pc' \in [PsemActors -> PsemPlaces] /\ pc'[a] = "failed" /\ \A b \in PsemActors : b # a => pc'[b] = pc[b]
  BY PsemFacts DEF PsemActors, PsemPlaces
<1>2. Counted(1)' /\ Counted(2)'
  BY PsemFacts DEF Counted
<1>3. pc'["c"] = pc["c"] /\ \A b \in SemUsers : b # a => pc'[b] = pc[b]
  BY <1>1 DEF PsemActors, SemUsers
<1> QED
  BY <1>1, <1>2, <1>3, PsemFacts DEF PsemInv

\* A user opens the semaphore that has the name
LEMMA PsemOpen ==
  ASSUME prog = "psem", prog' = prog, PsemInv, NEW a \in SemUsers, Ipc!SemOpen(a)
  PROVE  PsemInv'
<1> DEFINE to == IF s.name = 0 THEN "failed" ELSE "sem"
           sem == [s.sem EXCEPT ![a] = s.name]
<1>1. to \in PsemPlaces /\ (to = "sem" => s.name \in {1, 2})
  BY PsemFacts DEF PsemPlaces
<1>2. pc' = [pc EXCEPT ![a] = to] /\ s' = [s EXCEPT !.sem = sem]
  BY Zenon DEF Ipc!SemOpen, Ipc!Do, Ipc!Go
<1>3. sem \in [SemUsers -> 0 .. 2] /\ sem[a] = s.name /\ \A b \in SemUsers : b # a => sem[b] = s.sem[b]
  BY PsemFacts
<1> HIDE DEF to, sem
<1>4. /\ s' \in PsemState /\ s'.name = s.name /\ s'.value = s.value /\ s'.init = s.init /\ s'.sem = sem /\ s'.posts = s.posts
      /\ s'.taken = s.taken
  BY <1>2, <1>3, PsemFacts DEF PsemState
<1>5. pc' \in [PsemActors -> PsemPlaces] /\ pc'[a] = to /\ pc'["c"] = pc["c"] /\ \A b \in SemUsers : b # a => pc'[b] = pc[b]
  BY <1>1, <1>2, PsemFacts DEF PsemActors, SemUsers
<1>6. Counted(1)' /\ Counted(2)'
  BY <1>4, PsemFacts DEF Counted
<1>7. \A b \in SemUsers : pc'[b] = "sem" => s'.sem[b] \in {1, 2}
  BY <1>1, <1>3, <1>4, <1>5, PsemFacts
<1>8. pc'["c"] = "sem_open" => s'.name # 2 /\ (\A b \in SemUsers : s'.sem[b] # 2) /\ s'.posts[2] = 0 /\ s'.taken[2] = 0
  BY <1>3, <1>4, <1>5, PsemFacts
<1> QED
  BY <1>4, <1>5, <1>6, <1>7, <1>8 DEF PsemInv

\* A user waits for, or posts, the object it has open
LEMMA PsemChange ==
  ASSUME prog = "psem", prog' = prog, PsemInv, NEW a \in SemUsers, pc[a] = "sem", pc' = [pc EXCEPT ![a] = "exit"],
         s' \in PsemState, s'.name = s.name, s'.sem = s.sem,
         \A i \in 1 .. 2 : s'.value[i] = s'.init[i] + s'.posts[i] - s'.taken[i],
         s.sem[a] = 1 => s'.posts[2] = s.posts[2] /\ s'.taken[2] = s.taken[2]
  PROVE  PsemInv'
<1>1. s.sem[a] \in 1 .. 2 /\ (pc["c"] = "sem_open" => s.sem[a] = 1)
  BY PsemFacts
<1>2. pc' \in [PsemActors -> PsemPlaces] /\ pc'[a] = "exit" /\ pc'["c"] = pc["c"] /\ \A b \in SemUsers : b # a => pc'[b] = pc[b]
  BY PsemFacts DEF PsemActors, SemUsers, PsemPlaces
<1>3. Counted(1)' /\ Counted(2)'
  BY DEF Counted
<1> QED
  BY <1>1, <1>2, <1>3, PsemFacts DEF PsemInv

\* Its value is one less, or one more
LEMMA PsemTaken ==
  ASSUME prog = "psem", PsemInv, NEW o \in 1 .. 2
  PROVE  /\ s.value[o] > 0 =>
              /\ [s.value EXCEPT ![o] = @ - 1] \in [1 .. 2 -> Nat] /\ [s.taken EXCEPT ![o] = @ + 1] \in [1 .. 2 -> Int]
              /\ \A i \in 1 .. 2 : [s.value EXCEPT ![o] = @ - 1][i] = s.init[i] + s.posts[i] - [s.taken EXCEPT ![o] = @ + 1][i]
              /\ o = 1 => [s.taken EXCEPT ![o] = @ + 1][2] = s.taken[2]
         /\ [s.value EXCEPT ![o] = @ + 1] \in [1 .. 2 -> Nat] /\ [s.posts EXCEPT ![o] = @ + 1] \in [1 .. 2 -> Int]
         /\ \A i \in 1 .. 2 : [s.value EXCEPT ![o] = @ + 1][i] = s.init[i] + [s.posts EXCEPT ![o] = @ + 1][i] - s.taken[i]
         /\ o = 1 => [s.posts EXCEPT ![o] = @ + 1][2] = s.posts[2]
<1> DEFINE value == s.value  posts == s.posts  taken == s.taken  init == s.init
<1>1. /\ value \in [1 .. 2 -> Nat] /\ init \in [1 .. 2 -> Int] /\ posts \in [1 .. 2 -> Int] /\ taken \in [1 .. 2 -> Int]
      /\ value[1] = init[1] + posts[1] - taken[1] /\ value[2] = init[2] + posts[2] - taken[2]
  BY PsemFacts DEF Counted
<1> HIDE DEF value, posts, taken, init
<1>2. value[o] > 0 =>
        /\ [value EXCEPT ![o] = @ - 1] \in [1 .. 2 -> Nat] /\ [taken EXCEPT ![o] = @ + 1] \in [1 .. 2 -> Int]
        /\ \A i \in 1 .. 2 : [value EXCEPT ![o] = @ - 1][i] = init[i] + posts[i] - [taken EXCEPT ![o] = @ + 1][i]
        /\ o = 1 => [taken EXCEPT ![o] = @ + 1][2] = taken[2]
  BY <1>1
<1>3. /\ [value EXCEPT ![o] = @ + 1] \in [1 .. 2 -> Nat] /\ [posts EXCEPT ![o] = @ + 1] \in [1 .. 2 -> Int]
      /\ \A i \in 1 .. 2 : [value EXCEPT ![o] = @ + 1][i] = init[i] + [posts EXCEPT ![o] = @ + 1][i] - taken[i]
      /\ o = 1 => [posts EXCEPT ![o] = @ + 1][2] = posts[2]
  BY <1>1
<1> QED
  BY <1>2, <1>3, Zenon DEF value, posts, taken, init

LEMMA PsemCount ==
  ASSUME prog = "psem", prog' = prog, PsemInv, NEW a \in SemUsers, pc[a] = "sem", pc' = [pc EXCEPT ![a] = "exit"],
         NEW o, o = s.sem[a],
         \/ s' = [s EXCEPT !.value[o] = @ - 1, !.taken[o] = @ + 1] /\ s.value[o] > 0
         \/ s' = [s EXCEPT !.value[o] = @ + 1, !.posts[o] = @ + 1]
  PROVE  PsemInv'
<1>0. s = [excl |-> s.excl, name |-> s.name, value |-> s.value, init |-> s.init, sem |-> s.sem, posts |-> s.posts,
           taken |-> s.taken, shown |-> s.shown]
  BY ONLY PsemInv, prog = "psem", PsemFacts DEF PsemState
<1>1. o \in 1 .. 2 /\ s.posts \in [1 .. 2 -> Int] /\ s.taken \in [1 .. 2 -> Int]
  BY ONLY PsemInv, prog = "psem", PsemFacts, pc[a] = "sem", a \in SemUsers, o = s.sem[a]
<1> DEFINE less == [s.value EXCEPT ![o] = @ - 1]  more == [s.value EXCEPT ![o] = @ + 1]
           taken == [s.taken EXCEPT ![o] = @ + 1]  posts == [s.posts EXCEPT ![o] = @ + 1]
<1>2. /\ s.value[o] > 0 =>
           /\ less \in [1 .. 2 -> Nat] /\ taken \in [1 .. 2 -> Int]
           /\ \A i \in 1 .. 2 : less[i] = s.init[i] + s.posts[i] - taken[i]
           /\ o = 1 => taken[2] = s.taken[2]
      /\ more \in [1 .. 2 -> Nat] /\ posts \in [1 .. 2 -> Int]
      /\ \A i \in 1 .. 2 : more[i] = s.init[i] + posts[i] - s.taken[i]
      /\ o = 1 => posts[2] = s.posts[2]
  BY ONLY PsemInv, prog = "psem", PsemTaken, <1>1
<1>3. \/ s' = [s EXCEPT !.value = less, !.taken = taken] /\ s.value[o] > 0
      \/ s' = [s EXCEPT !.value = more, !.posts = posts]
  BY Zenon
<1> HIDE DEF less, more, taken, posts
<1>4. \/ s' = [s EXCEPT !.value = less, !.posts = s.posts, !.taken = taken] /\ s.value[o] > 0
      \/ s' = [s EXCEPT !.value = more, !.posts = posts, !.taken = s.taken]
  BY ONLY <1>0, <1>3
<1>5. CASE s' = [s EXCEPT !.value = less, !.posts = s.posts, !.taken = taken] /\ s.value[o] > 0
  <2>1. s' = [excl |-> s.excl, name |-> s.name, value |-> less, init |-> s.init, sem |-> s.sem, posts |-> s.posts,
              taken |-> taken, shown |-> s.shown]
    BY ONLY <1>0, <1>5
  <2>2. s' \in PsemState /\ s'.name = s.name /\ s'.sem = s.sem /\ s'.value = less /\ s'.init = s.init /\ s'.posts = s.posts /\ s'.taken = taken
    BY ONLY <1>1, <1>2, <1>5, <2>1, prog = "psem", PsemInv, PsemFacts DEF PsemState
  <2>3. /\ \A i \in 1 .. 2 : s'.value[i] = s'.init[i] + s'.posts[i] - s'.taken[i]
        /\ s.sem[a] = 1 => s'.posts[2] = s.posts[2] /\ s'.taken[2] = s.taken[2]
    BY ONLY <1>2, <1>5, <2>2, o = s.sem[a]
  <2> QED
    BY ONLY <2>2, <2>3, prog = "psem", prog' = prog, PsemInv, a \in SemUsers, pc[a] = "sem", pc' = [pc EXCEPT ![a] = "exit"],
       PsemChange
<1>6. CASE s' = [s EXCEPT !.value = more, !.posts = posts, !.taken = s.taken]
  <2>1. s' = [excl |-> s.excl, name |-> s.name, value |-> more, init |-> s.init, sem |-> s.sem, posts |-> posts,
              taken |-> s.taken, shown |-> s.shown]
    BY ONLY <1>0, <1>6
  <2>2. s' \in PsemState /\ s'.name = s.name /\ s'.sem = s.sem /\ s'.value = more /\ s'.init = s.init /\ s'.posts = posts /\ s'.taken = s.taken
    BY ONLY <1>1, <1>2, <1>6, <2>1, prog = "psem", PsemInv, PsemFacts DEF PsemState
  <2>3. /\ \A i \in 1 .. 2 : s'.value[i] = s'.init[i] + s'.posts[i] - s'.taken[i]
        /\ s.sem[a] = 1 => s'.posts[2] = s.posts[2] /\ s'.taken[2] = s.taken[2]
    BY ONLY <1>2, <1>6, <2>2, o = s.sem[a]
  <2> QED
    BY ONLY <2>2, <2>3, prog = "psem", prog' = prog, PsemInv, a \in SemUsers, pc[a] = "sem", pc' = [pc EXCEPT ![a] = "exit"],
       PsemChange
<1> QED
  BY <1>4, <1>5, <1>6

\* Creating the name again makes the second object
LEMMA PsemCreate ==
  ASSUME prog = "psem", prog' = prog, PsemInv, Ipc!psem_create("c")
  PROVE  PsemInv'
<1> DEFINE to == IF s.name # 0 /\ s.excl THEN "failed" ELSE "exit"
           value == [s.value EXCEPT ![2] = 1]  init == [s.init EXCEPT ![2] = 1]
<1>1. to \in {"failed", "exit"}
  OBVIOUS
<1>2. /\ pc["c"] = "sem_open" /\ pc' = [pc EXCEPT !["c"] = to]
      /\ s' = IF s.name # 0 THEN s ELSE [s EXCEPT !.name = 2, !.value = value, !.init = init]
  BY Zenon DEF Ipc!psem_create, Ipc!Do, Ipc!Go
<1>3. /\ value \in [1 .. 2 -> Nat] /\ init \in [1 .. 2 -> Int]
      /\ value[1] = s.value[1] /\ value[2] = 1 /\ init[1] = s.init[1] /\ init[2] = 1
  BY PsemFacts
<1> HIDE DEF to, value, init
<1>4. pc' \in [PsemActors -> PsemPlaces] /\ pc'["c"] # "sem_open" /\ \A a \in SemUsers : pc'[a] = pc[a]
  BY <1>1, <1>2, PsemFacts DEF PsemActors, PsemPlaces, SemUsers
<1>5. CASE s' = s
  <2>1. Counted(1)' /\ Counted(2)'
    BY <1>5, PsemFacts DEF Counted
  <2> QED
    BY <1>4, <1>5, <2>1, PsemFacts DEF PsemInv
<1>6. CASE s.name = 0 /\ s' = [s EXCEPT !.name = 2, !.value = value, !.init = init]
  <2>1. s = [excl |-> s.excl, name |-> s.name, value |-> s.value, init |-> s.init, sem |-> s.sem, posts |-> s.posts,
             taken |-> s.taken, shown |-> s.shown]
    BY PsemFacts DEF PsemState
  <2>2. s' = [excl |-> s.excl, name |-> 2, value |-> value, init |-> init, sem |-> s.sem, posts |-> s.posts,
              taken |-> s.taken, shown |-> s.shown]
    BY ONLY <1>6, <2>1
  <2>3. s' \in PsemState /\ s'.value = value /\ s'.init = init /\ s'.sem = s.sem /\ s'.posts = s.posts /\ s'.taken = s.taken
    BY <1>3, <2>2, PsemFacts DEF PsemState
  <2>4. Counted(1)'
    BY <1>3, <2>3, PsemFacts DEF Counted
  <2>5. Counted(2)'
    BY <1>2, <1>3, <2>3, PsemFacts DEF Counted
  <2> QED
    BY <1>4, <2>3, <2>4, <2>5, PsemFacts DEF PsemInv
<1> QED
  BY <1>2, <1>5, <1>6

\* Removing the name, and showing a value
LEMMA PsemShow ==
  ASSUME prog = "psem", prog' = prog, PsemInv, Ipc!psem_unlink("u") \/ Ipc!psem_getvalue("u")
  PROVE  PsemInv'
<1> DEFINE to == IF s.name = 0 THEN "failed" ELSE "exit"
           shown == IF s.name = 0 THEN 0 ELSE s.value[s.name]
<1>1. to \in {"failed", "exit"} /\ shown \in Nat
  BY PsemFacts
<1>2. \/ pc' = [pc EXCEPT !["u"] = "getvalue"] /\ s' = [s EXCEPT !.name = 0]
      \/ pc' = [pc EXCEPT !["u"] = to] /\ s' = [s EXCEPT !.shown = shown]
  BY Zenon DEF Ipc!psem_unlink, Ipc!psem_getvalue, Ipc!Do, Ipc!Go
<1> HIDE DEF to, shown
<1>3. /\ s' \in PsemState /\ s'.value = s.value /\ s'.init = s.init /\ s'.sem = s.sem /\ s'.posts = s.posts /\ s'.taken = s.taken
      /\ s'.name \in {0, s.name}
  BY <1>1, <1>2, PsemFacts DEF PsemState
<1>4. pc' \in [PsemActors -> PsemPlaces] /\ pc'["c"] = pc["c"] /\ \A a \in SemUsers : pc'[a] = pc[a]
  BY <1>1, <1>2, PsemFacts DEF PsemActors, PsemPlaces, SemUsers
<1>5. Counted(1)' /\ Counted(2)'
  BY <1>3, PsemFacts DEF Counted
<1> QED
  BY <1>3, <1>4, <1>5, PsemFacts DEF PsemInv

\* A user waits, polls or posts
LEMMA PsemUse ==
  ASSUME prog = "psem", prog' = prog, PsemInv, NEW a \in SemUsers, pc[a] = "sem",
         \/ Ipc!Take(a)
         \/ Ipc!Do(a, "sem", "exit", [s EXCEPT !.value[s.sem[a]] = @ + 1, !.posts[s.sem[a]] = @ + 1])
         \/ Ipc!Walk(a, "sem", "failed")
  PROVE  PsemInv'
<1> DEFINE o == s.sem[a]
<1>1. CASE pc' = [pc EXCEPT ![a] = "failed"] /\ s' = s
  BY <1>1, PsemFails
<1>2. CASE pc' = [pc EXCEPT ![a] = "exit"] /\ s' = [s EXCEPT !.value[o] = @ - 1, !.taken[o] = @ + 1] /\ s.value[o] > 0
  BY ONLY <1>2, prog = "psem", prog' = prog, PsemInv, a \in SemUsers, pc[a] = "sem", PsemCount, Zenon
<1>3. CASE pc' = [pc EXCEPT ![a] = "exit"] /\ s' = [s EXCEPT !.value[o] = @ + 1, !.posts[o] = @ + 1]
  BY ONLY <1>3, prog = "psem", prog' = prog, PsemInv, a \in SemUsers, pc[a] = "sem", PsemCount, Zenon
<1> QED
  BY <1>1, <1>2, <1>3, Zenon DEF Ipc!Take, Ipc!Do, Ipc!Walk, Ipc!Go

LEMMA PsemStep ==
  ASSUME prog = "psem", prog' = prog, PsemInv, NEW a \in DOMAIN pc, Ipc!Step(a)
  PROVE  PsemInv'
<1>1. Ipc!psem(a)
  BY IpcStepOf
<1>2. CASE Ipc!psem_create(a)
  BY <1>2, PsemCreate DEF Ipc!psem_create
<1>3. CASE Ipc!psem_unlink(a) \/ Ipc!psem_getvalue(a)
  BY <1>3, PsemShow DEF Ipc!psem_unlink, Ipc!psem_getvalue
<1>4. CASE Ipc!psem_wait(a) \/ Ipc!psem_timedwait(a) \/ Ipc!psem_trywait(a) \/ Ipc!psem_post(a)
  <2>1. a \in SemUsers
    BY <1>4 DEF Ipc!psem_wait, Ipc!psem_timedwait, Ipc!psem_trywait, Ipc!psem_post, SemUsers
  <2>2. \/ Ipc!SemOpen(a)
        \/ /\ pc[a] = "sem"
           /\ \/ Ipc!Take(a)
              \/ Ipc!Do(a, "sem", "exit", [s EXCEPT !.value[s.sem[a]] = @ + 1, !.posts[s.sem[a]] = @ + 1])
              \/ Ipc!Walk(a, "sem", "failed")
    BY <1>4, Zenon DEF Ipc!psem_wait, Ipc!psem_timedwait, Ipc!psem_trywait, Ipc!psem_post
  <2>3. CASE Ipc!SemOpen(a)
    BY <2>1, <2>3, PsemOpen
  <2> QED
    BY <2>1, <2>2, <2>3, PsemUse, Zenon
<1> QED
  BY <1>1, <1>2, <1>3, <1>4 DEF Ipc!psem

LEMMA PsemSafe ==
  ASSUME PsemInv
  PROVE  Ipc!SemaphoreCounts
  BY PsemFacts DEF Ipc!SemaphoreCounts, Counted

-----------------------------------------------------------------------------
(* pshm/: shared memory *)

Cell == {"zero", "text"}

PshmActors == {"c", "w", "r", "u"}
PshmPlaces == {"shm_open", "ftruncate", "memcpy", "fstat", "write", "unlink", "exit", "failed", "killed"}

PshmState == [size : 0 .. 2, len : 0 .. 2, name : BOOLEAN, cells : Seq(Cell), mapped : Nat, shown : Seq(Cell),
              alone : BOOLEAN, late : BOOLEAN]

Text(n) == [i \in 1 .. n |-> "text"]

\* A writer that starts when the creator is done finds the object as it has made it, and so does a reader
PshmInv ==
  prog = "pshm" =>
    /\ pc \in [PshmActors -> PshmPlaces]
    /\ s \in PshmState
    /\ s.alone => pc["c"] = "exit"
    /\ s.late => s.alone /\ pc["w"] = "exit"
    /\ s.alone /\ pc["w"] = "memcpy" => Len(s.cells) = s.len
    /\ s.alone /\ pc["w"] = "exit" => s.cells = Text(s.len)
    /\ s.late /\ pc["r"] = "write" => s.mapped = s.len
    /\ s.late /\ pc["r"] = "exit" => s.shown = Text(s.len)
    /\ pc["w"] = "memcpy" => Len(s.cells) \in {s.len, s.size}
    /\ pc["w"] = "killed" => s.size < s.len
    /\ pc["r"] # "exit" => s.shown = << >>
    /\ Len(s.shown) <= s.mapped

LEMMA PshmFacts ==
  ASSUME prog = "pshm", PshmInv
  PROVE  /\ pc \in [PshmActors -> PshmPlaces] /\ s \in PshmState
         /\ s.size \in 0 .. 2 /\ s.len \in 0 .. 2 /\ s.name \in BOOLEAN /\ s.cells \in Seq(Cell) /\ Len(s.cells) \in Nat
         /\ s.mapped \in Nat /\ s.shown \in Seq(Cell) /\ Len(s.shown) \in Nat /\ s.alone \in BOOLEAN /\ s.late \in BOOLEAN
         /\ s.alone => pc["c"] = "exit"
         /\ s.late => s.alone /\ pc["w"] = "exit"
         /\ s.alone /\ pc["w"] = "memcpy" => Len(s.cells) = s.len
         /\ s.alone /\ pc["w"] = "exit" => s.cells = Text(s.len)
         /\ s.late /\ pc["r"] = "write" => s.mapped = s.len
         /\ s.late /\ pc["r"] = "exit" => s.shown = Text(s.len)
         /\ pc["w"] = "memcpy" => Len(s.cells) \in {s.len, s.size}
         /\ pc["w"] = "killed" => s.size < s.len
         /\ pc["r"] # "exit" => s.shown = << >>
         /\ Len(s.shown) <= s.mapped
  BY DEF PshmInv, PshmState

\* The pages of an object, resized or overwritten, and shown
LEMMA TextSeq ==
  ASSUME NEW n \in Nat
  PROVE  Text(n) \in Seq(Cell) /\ Len(Text(n)) = n
  BY DEF Text, Cell

LEMMA ResizedSeq ==
  ASSUME NEW cells \in Seq(Cell), NEW n \in Nat
  PROVE  Ipc!Resized(cells, n) \in Seq(Cell) /\ Len(Ipc!Resized(cells, n)) = n
<1>1. \A i \in 1 .. n : (IF i <= Len(cells) THEN cells[i] ELSE "zero") \in Cell
  BY DEF Cell
<1> QED
  BY <1>1 DEF Ipc!Resized

LEMMA Overwritten ==
  ASSUME NEW cells \in Seq(Cell), NEW n \in Nat
  PROVE  /\ [i \in DOMAIN cells |-> IF i <= n THEN "text" ELSE cells[i]] \in Seq(Cell)
         /\ Len([i \in DOMAIN cells |-> IF i <= n THEN "text" ELSE cells[i]]) = Len(cells)
         /\ Len(cells) = n => [i \in DOMAIN cells |-> IF i <= n THEN "text" ELSE cells[i]] = Text(n)
<1> DEFINE c == [i \in DOMAIN cells |-> IF i <= n THEN "text" ELSE cells[i]]
<1>1. \A i \in DOMAIN cells : (IF i <= n THEN "text" ELSE cells[i]) \in Cell
  BY DEF Cell
<1>2. DOMAIN cells = 1 .. Len(cells) /\ Len(cells) \in Nat
  OBVIOUS
<1>3. c \in [1 .. Len(cells) -> Cell]
  BY <1>1, <1>2
<1>4. c \in Seq(Cell) /\ Len(c) = Len(cells)
  BY <1>2, <1>3
<1>5. Len(cells) = n => c = Text(n)
  BY <1>2 DEF Text
<1> QED
  BY <1>4, <1>5

LEMMA ShownPart ==
  ASSUME NEW cells \in Seq(Cell), NEW n \in Nat
  PROVE  /\ SubSeq(cells, 1, IF n < Len(cells) THEN n ELSE Len(cells)) \in Seq(Cell)
         /\ Len(SubSeq(cells, 1, IF n < Len(cells) THEN n ELSE Len(cells))) <= n
<1> DEFINE k == IF n < Len(cells) THEN n ELSE Len(cells)
<1>1. k \in 0 .. Len(cells) /\ k <= n /\ Len(cells) \in Nat
  OBVIOUS
<1> HIDE DEF k
<1>2. SubSeq(cells, 1, k) \in Seq(Cell) /\ Len(SubSeq(cells, 1, k)) = k
  BY <1>1, SubSeqProperties
<1> QED
  BY <1>1, <1>2 DEF k

LEMMA ShownText ==
  ASSUME NEW n \in Nat
  PROVE  SubSeq(Text(n), 1, n) = Text(n)
<1>1. Text(n) \in Seq(Cell) /\ Len(Text(n)) = n
  BY TextSeq
<1>2. \A i \in 1 .. n : SubSeq(Text(n), 1, n)[i] = Text(n)[i]
  BY <1>1
<1>3. SubSeq(Text(n), 1, n) \in Seq(Cell) /\ Len(SubSeq(Text(n), 1, n)) = n
  BY <1>1
<1> QED
  BY <1>1, <1>2, <1>3, SeqEqual

LEMMA PshmStart ==
  ASSUME Ipc!ShmInit
  PROVE  PshmInv
<1> PICK n \in 0 .. 2, len \in 0 .. 2 :
      Ipc!Start("pshm", [c |-> "shm_open", w |-> "shm_open", r |-> "shm_open", u |-> "unlink"],
          [size |-> n, len |-> len, name |-> FALSE, cells |-> << >>, mapped |-> 0, shown |-> << >>, alone |-> FALSE,
           late |-> FALSE])
  BY DEF Ipc!ShmInit
<1> DEFINE f == FALSE  e == << >>
<1>1. f \in BOOLEAN /\ ~f /\ e = << >> /\ e \in Seq(Cell) /\ Len(e) = 0
  OBVIOUS
<1>2. /\ pc = [c |-> "shm_open", w |-> "shm_open", r |-> "shm_open", u |-> "unlink"]
      /\ s = [size |-> n, len |-> len, name |-> f, cells |-> e, mapped |-> 0, shown |-> e, alone |-> f, late |-> f]
  BY DEF Ipc!Start
<1> HIDE DEF f, e
<1>3. s \in PshmState /\ ~s.alone /\ ~s.late /\ s.shown = e /\ s.mapped = 0
  BY <1>1, <1>2 DEF PshmState
<1>4. pc \in [PshmActors -> PshmPlaces] /\ pc["c"] = "shm_open" /\ pc["w"] = "shm_open" /\ pc["r"] = "shm_open"
  BY <1>2 DEF PshmActors, PshmPlaces
<1> QED
  BY <1>1, <1>3, <1>4 DEF PshmInv

LEMMA PshmLengths ==
  ASSUME prog = "pshm", PshmInv
  PROVE  s.size \in Nat /\ s.len \in Nat /\ s.cells \in Seq(Cell)
<1>1. 0 .. 2 \subseteq Nat
  OBVIOUS
<1> QED
  BY <1>1, PshmFacts

\* The creator
LEMMA PshmCreate ==
  ASSUME prog = "pshm", prog' = prog, PshmInv, Ipc!pshm_create("c")
  PROVE  PshmInv'
<1> DEFINE t == TRUE  cells == Ipc!Resized(s.cells, s.size)
<1>1. t \in BOOLEAN
  OBVIOUS
<1>2. cells \in Seq(Cell) /\ Len(cells) = s.size
  BY PshmFacts, PshmLengths, ResizedSeq
<1>3. \/ pc["c"] = "shm_open" /\ pc' = [pc EXCEPT !["c"] = "ftruncate"] /\ s' = [s EXCEPT !.name = t]
      \/ pc["c"] = "ftruncate" /\ pc' = [pc EXCEPT !["c"] = "exit"] /\ s' = [s EXCEPT !.cells = cells]
  BY Zenon DEF Ipc!pshm_create, Ipc!Do, Ipc!Go
<1> HIDE DEF t, cells
<1>4. ~s.alone /\ ~s.late
  BY <1>3, PshmFacts
<1>5. /\ s' \in PshmState /\ s'.size = s.size /\ s'.len = s.len /\ s'.cells \in {s.cells, cells} /\ s'.mapped = s.mapped
      /\ s'.shown = s.shown /\ s'.alone = s.alone /\ s'.late = s.late
  BY <1>1, <1>2, <1>3, PshmFacts DEF PshmState
<1>6. /\ pc' \in [PshmActors -> PshmPlaces] /\ pc'["w"] = pc["w"] /\ pc'["r"] = pc["r"]
  BY <1>3, PshmFacts DEF PshmActors, PshmPlaces
<1> QED
  BY <1>2, <1>4, <1>5, <1>6, PshmFacts DEF PshmInv

\* The writer
LEMMA PshmWrite ==
  ASSUME prog = "pshm", prog' = prog, PshmInv, Ipc!pshm_write("w")
  PROVE  PshmInv'
<1> DEFINE b == pc["c"] = "exit"
           open == IF s.name THEN "ftruncate" ELSE "failed"
           cut == IF s.len = 0 THEN "failed" ELSE "memcpy"
           end == IF Len(s.cells) < s.len THEN "killed" ELSE "exit"
           resized == Ipc!Resized(s.cells, s.len)
           text == [i \in DOMAIN s.cells |-> IF i <= s.len THEN "text" ELSE s.cells[i]]
<1>1. /\ b \in BOOLEAN /\ (b => pc["c"] = "exit")
      /\ open \in {"ftruncate", "failed"} /\ cut \in {"failed", "memcpy"}
      /\ end \in {"killed", "exit"} /\ (end = "killed" <=> Len(s.cells) < s.len)
  OBVIOUS
<1>2. resized \in Seq(Cell) /\ Len(resized) = s.len
  BY PshmFacts, PshmLengths, ResizedSeq
<1>3. text \in Seq(Cell) /\ Len(text) = Len(s.cells) /\ (Len(s.cells) = s.len => text = Text(s.len))
  BY PshmFacts, PshmLengths, Overwritten
<1>4. \/ pc["w"] = "shm_open" /\ pc' = [pc EXCEPT !["w"] = open] /\ s' = [s EXCEPT !.alone = b]
      \/ pc["w"] = "ftruncate" /\ pc' = [pc EXCEPT !["w"] = cut] /\ s' = [s EXCEPT !.cells = resized]
      \/ pc["w"] = "memcpy" /\ pc' = [pc EXCEPT !["w"] = end] /\ s' = [s EXCEPT !.cells = text]
  BY Zenon DEF Ipc!pshm_write, Ipc!Do, Ipc!Go
<1> HIDE DEF b, open, cut, end, resized, text
<1>5. ~s.late
  BY <1>4, PshmFacts
<1>6. CASE pc["w"] = "shm_open" /\ pc' = [pc EXCEPT !["w"] = open] /\ s' = [s EXCEPT !.alone = b]
  <2>1. /\ s' \in PshmState /\ s'.cells = s.cells /\ s'.shown = s.shown /\ s'.mapped = s.mapped /\ s'.alone = b /\ s'.late = s.late
    BY <1>1, <1>6, PshmFacts DEF PshmState
  <2>2. /\ pc' \in [PshmActors -> PshmPlaces] /\ pc'["c"] = pc["c"] /\ pc'["w"] \in {"ftruncate", "failed"} /\ pc'["r"] = pc["r"]
    BY <1>1, <1>6, PshmFacts DEF PshmActors, PshmPlaces
  <2> QED
    BY <1>1, <1>5, <2>1, <2>2, PshmFacts DEF PshmInv
<1>7. CASE pc["w"] = "ftruncate" /\ pc' = [pc EXCEPT !["w"] = cut] /\ s' = [s EXCEPT !.cells = resized]
  <2>1. /\ s' \in PshmState /\ s'.cells = resized /\ s'.shown = s.shown /\ s'.mapped = s.mapped /\ s'.alone = s.alone
        /\ s'.late = s.late /\ s'.len = s.len
    BY <1>2, <1>7, PshmFacts DEF PshmState
  <2>2. /\ pc' \in [PshmActors -> PshmPlaces] /\ pc'["c"] = pc["c"] /\ pc'["w"] \in {"memcpy", "failed"} /\ pc'["r"] = pc["r"]
    BY <1>1, <1>7, PshmFacts DEF PshmActors, PshmPlaces
  <2> QED
    BY <1>2, <1>5, <2>1, <2>2, PshmFacts DEF PshmInv
<1>8. CASE pc["w"] = "memcpy" /\ pc' = [pc EXCEPT !["w"] = end] /\ s' = [s EXCEPT !.cells = text]
  <2>1. /\ s' \in PshmState /\ s'.cells = text /\ s'.shown = s.shown /\ s'.mapped = s.mapped /\ s'.alone = s.alone
        /\ s'.late = s.late /\ s'.len = s.len /\ s'.size = s.size
    BY <1>3, <1>8, PshmFacts DEF PshmState
  <2>2. /\ pc' \in [PshmActors -> PshmPlaces] /\ pc'["c"] = pc["c"] /\ pc'["w"] = end /\ pc'["r"] = pc["r"]
    BY <1>1, <1>8, PshmFacts DEF PshmActors, PshmPlaces
  <2>3. end = "killed" => s.size < s.len
    BY <1>1, <1>8, PshmFacts
  <2> QED
    BY <1>1, <1>3, <1>5, <1>8, <2>1, <2>2, <2>3, PshmFacts DEF PshmInv
<1> QED
  BY <1>4, <1>6, <1>7, <1>8

\* The reader
LEMMA PshmRead ==
  ASSUME prog = "pshm", prog' = prog, PshmInv, Ipc!pshm_read("r")
  PROVE  PshmInv'
<1> DEFINE b == s.alone /\ pc["w"] = "exit"
           open == IF s.name THEN "fstat" ELSE "failed"
           size == Len(s.cells)
           map == IF size = 0 THEN "failed" ELSE "write"
           shown == SubSeq(s.cells, 1, IF s.mapped < Len(s.cells) THEN s.mapped ELSE Len(s.cells))
<1>1. /\ b \in BOOLEAN /\ (b => s.alone /\ pc["w"] = "exit")
      /\ open \in {"fstat", "failed"} /\ map \in {"failed", "write"} /\ size \in Nat /\ size = Len(s.cells)
  BY PshmFacts
<1>2. shown \in Seq(Cell) /\ Len(shown) <= s.mapped
  BY PshmFacts, ShownPart
<1>3. s.late /\ pc["r"] = "write" => shown = Text(s.len)
  <2> SUFFICES ASSUME s.late, pc["r"] = "write" PROVE shown = Text(s.len)
    OBVIOUS
  <2>1. s.cells = Text(s.len) /\ s.mapped = s.len /\ s.len \in Nat
    BY PshmFacts
  <2>2. Len(s.cells) = s.len
    BY <2>1, TextSeq
  <2> QED
    BY <2>1, <2>2, ShownText
<1>4. \/ pc["r"] = "shm_open" /\ pc' = [pc EXCEPT !["r"] = open] /\ s' = [s EXCEPT !.late = b]
      \/ pc["r"] = "fstat" /\ pc' = [pc EXCEPT !["r"] = map] /\ s' = [s EXCEPT !.mapped = size]
      \/ pc["r"] = "write" /\ pc' = [pc EXCEPT !["r"] = "exit"] /\ s' = [s EXCEPT !.shown = shown]
  BY Zenon DEF Ipc!pshm_read, Ipc!Do, Ipc!Go
<1> HIDE DEF b, open, size, map, shown
<1>5. CASE pc["r"] = "shm_open" /\ pc' = [pc EXCEPT !["r"] = open] /\ s' = [s EXCEPT !.late = b]
  <2>1. /\ s' \in PshmState /\ s'.cells = s.cells /\ s'.shown = s.shown /\ s'.mapped = s.mapped /\ s'.alone = s.alone
        /\ s'.late = b /\ s'.len = s.len /\ s'.size = s.size
    BY <1>1, <1>5, PshmFacts DEF PshmState
  <2>2. /\ pc' \in [PshmActors -> PshmPlaces] /\ pc'["c"] = pc["c"] /\ pc'["w"] = pc["w"] /\ pc'["r"] \in {"fstat", "failed"}
    BY <1>1, <1>5, PshmFacts DEF PshmActors, PshmPlaces
  <2> QED
    BY <1>1, <1>5, <2>1, <2>2, PshmFacts DEF PshmInv
<1>6. CASE pc["r"] = "fstat" /\ pc' = [pc EXCEPT !["r"] = map] /\ s' = [s EXCEPT !.mapped = size]
  <2>1. /\ s' \in PshmState /\ s'.cells = s.cells /\ s'.shown = s.shown /\ s'.mapped = size /\ s'.alone = s.alone
        /\ s'.late = s.late /\ s'.len = s.len /\ s'.size = s.size
    BY <1>1, <1>6, PshmFacts DEF PshmState
  <2>2. /\ pc' \in [PshmActors -> PshmPlaces] /\ pc'["c"] = pc["c"] /\ pc'["w"] = pc["w"] /\ pc'["r"] \in {"write", "failed"}
    BY <1>1, <1>6, PshmFacts DEF PshmActors, PshmPlaces
  <2>3. s.late => size = s.len
    BY <1>1, PshmFacts, PshmLengths, TextSeq
  <2>4. s.shown = << >> /\ Len(s.shown) = 0
    BY <1>6, PshmFacts
  <2> QED
    BY <1>1, <1>6, <2>1, <2>2, <2>3, <2>4, PshmFacts DEF PshmInv
<1>7. CASE pc["r"] = "write" /\ pc' = [pc EXCEPT !["r"] = "exit"] /\ s' = [s EXCEPT !.shown = shown]
  <2>1. /\ s' \in PshmState /\ s'.cells = s.cells /\ s'.shown = shown /\ s'.mapped = s.mapped /\ s'.alone = s.alone
        /\ s'.late = s.late /\ s'.len = s.len /\ s'.size = s.size
    BY <1>2, <1>7, PshmFacts DEF PshmState
  <2>2. /\ pc' \in [PshmActors -> PshmPlaces] /\ pc'["c"] = pc["c"] /\ pc'["w"] = pc["w"] /\ pc'["r"] = "exit"
    BY <1>7, PshmFacts DEF PshmActors, PshmPlaces
  <2> QED
    BY <1>2, <1>3, <1>7, <2>1, <2>2, PshmFacts DEF PshmInv
<1> QED
  BY <1>4, <1>5, <1>6, <1>7

\* Removing the name
LEMMA PshmUnlink ==
  ASSUME prog = "pshm", prog' = prog, PshmInv, Ipc!pshm_unlink("u")
  PROVE  PshmInv'
<1> DEFINE f == FALSE  to == IF s.name THEN "exit" ELSE "failed"
<1>1. f \in BOOLEAN /\ to \in {"exit", "failed"}
  OBVIOUS
<1>2. pc' = [pc EXCEPT !["u"] = to] /\ s' = [s EXCEPT !.name = f]
  BY Zenon DEF Ipc!pshm_unlink, Ipc!Do, Ipc!Go
<1> HIDE DEF f, to
<1>3. /\ s' \in PshmState /\ s'.cells = s.cells /\ s'.shown = s.shown /\ s'.mapped = s.mapped /\ s'.alone = s.alone
      /\ s'.late = s.late /\ s'.len = s.len /\ s'.size = s.size
  BY <1>1, <1>2, PshmFacts DEF PshmState
<1>4. /\ pc' \in [PshmActors -> PshmPlaces] /\ pc'["c"] = pc["c"] /\ pc'["w"] = pc["w"] /\ pc'["r"] = pc["r"]
  BY <1>1, <1>2, PshmFacts DEF PshmActors, PshmPlaces
<1> QED
  BY <1>3, <1>4, PshmFacts DEF PshmInv

LEMMA PshmStep ==
  ASSUME prog = "pshm", prog' = prog, PshmInv, NEW a \in DOMAIN pc, Ipc!Step(a)
  PROVE  PshmInv'
<1>1. Ipc!pshm(a)
  BY IpcStepOf
<1> QED
  BY <1>1, PshmCreate, PshmWrite, PshmRead, PshmUnlink DEF Ipc!pshm, Ipc!pshm_create, Ipc!pshm_write, Ipc!pshm_read, Ipc!pshm_unlink

LEMMA PshmSafe ==
  ASSUME PshmInv
  PROVE  Ipc!ShmRead
  BY PshmFacts DEF Ipc!ShmRead, Text

-----------------------------------------------------------------------------
(* All of them *)

IpcInv == NotifyInv /\ PmsgInv /\ PsemInv /\ PshmInv

LEMMA IpcNames ==
  /\ "pmsg" \notin Ipc!NotifyProgs /\ "psem" \notin Ipc!NotifyProgs /\ "pshm" \notin Ipc!NotifyProgs
  BY DEF Ipc!NotifyProgs, Ipc!SignalProgs, Ipc!ThreadProgs

LEMMA IpcInvInit ==
  ASSUME Ipc!Init
  PROVE  IpcInv
<1>1. CASE Ipc!NotifyInit
  <2>1. prog \in Ipc!NotifyProgs
    BY <1>1 DEF Ipc!NotifyInit, Ipc!Start
  <2> QED
    BY <1>1, <2>1, IpcNames, NotifyStart DEF IpcInv, PmsgInv, PsemInv, PshmInv
<1>2. CASE Ipc!QueueInit
  <2>1. prog = "pmsg"
    BY <1>2 DEF Ipc!QueueInit, Ipc!Start
  <2> QED
    BY <1>2, <2>1, IpcNames, PmsgStart DEF IpcInv, NotifyInv, PsemInv, PshmInv
<1>3. CASE Ipc!SemInit
  <2>1. prog = "psem"
    BY <1>3 DEF Ipc!SemInit, Ipc!Start
  <2> QED
    BY <1>3, <2>1, IpcNames, PsemStart DEF IpcInv, NotifyInv, PmsgInv, PshmInv
<1>4. CASE Ipc!ShmInit
  <2>1. prog = "pshm"
    BY <1>4 DEF Ipc!ShmInit, Ipc!Start
  <2> QED
    BY <1>4, <2>1, IpcNames, PshmStart DEF IpcInv, NotifyInv, PmsgInv, PsemInv
<1> QED
  BY <1>1, <1>2, <1>3, <1>4 DEF Ipc!Init

LEMMA IpcInvStep ==
  ASSUME IpcInv, prog \in Ipc!Programs, prog' = prog, NEW a \in DOMAIN pc, Ipc!Step(a)
  PROVE  IpcInv'
<1>1. NotifyInv /\ PmsgInv /\ PsemInv /\ PshmInv
  BY DEF IpcInv
<1>2. prog \in Ipc!NotifyProgs \/ prog = "pmsg" \/ prog = "psem" \/ prog = "pshm"
  BY DEF Ipc!Programs, Ipc!MustEnd
<1>3. (NotifyInv /\ PmsgInv /\ PsemInv /\ PshmInv)'
  <2>1. NotifyInv'
    BY <1>1, NotifyStep DEF NotifyInv
  <2>2. PmsgInv'
    BY <1>1, PmsgStep DEF PmsgInv
  <2>3. PsemInv'
    BY <1>1, PsemStep DEF PsemInv
  <2>4. PshmInv'
    BY <1>1, PshmStep DEF PshmInv
  <2> QED
    BY <2>1, <2>2, <2>3, <2>4
<1> QED
  BY <1>3 DEF IpcInv

LEMMA IpcInvStutter ==
  ASSUME IpcInv, UNCHANGED <<prog, pc, s>>
  PROVE  IpcInv'
  BY DEF IpcInv, NotifyInv, PmsgInv, PsemInv, PshmInv, Registrations, Registering, Ipc!Promised, Got, Counted

LEMMA IpcInvSafe ==
  ASSUME IpcInv
  PROVE  Ipc!Safe
  BY NotifyKept, PmsgSafe, PsemSafe, PshmSafe DEF IpcInv, Ipc!Safe

=============================================================================
