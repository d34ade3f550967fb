------------------------------- MODULE SvSems -------------------------------
(***************************************************************************)
(* The System V semaphore programs of svsem/: creating and initializing a  *)
(* set, groups of operations that are done together or not at all, and     *)
(* event flags.  A set is identified by its key; a new semaphore has an    *)
(* unspecified value (here 0 or 7) until SETVAL or SETALL.                 *)
(***************************************************************************)
EXTENDS Unix

CONSTANT MaxTries   \* bound: MAX_TRIES of svsem_good_init.c

-----------------------------------------------------------------------------
(* svsem_bad_init.c and svsem_good_init.c: two processes race to create,   *)
(* initialize and use one semaphore                                        *)

InitProgs == {"svsem_bad_init", "svsem_good_init"}

RaceInit ==
  \E p \in InitProgs, junk \in {0, 7} :
    Start(p, [p1 |-> "semget", p2 |-> "semget"],
          [exists |-> FALSE, val |-> junk, otime |-> 0, ops |-> 0, tries |-> [a \in {"p1", "p2"} |-> 0], lost |-> 0])

\* semget with IPC_CREAT | IPC_EXCL: one of the two creates the set
Create(a) ==
  Do(a, "semget", IF s.exists THEN "existing" ELSE "setval", [s EXCEPT !.exists = TRUE])

\* SETVAL does not change sem_otime; lost: an operation was overwritten
SetVal(a, to) == Do(a, "setval", to, [s EXCEPT !.val = 0, !.lost = s.ops])

AddOne(a) == Do(a, "semop", "exit", [s EXCEPT !.val = @ + 1, !.otime = 1, !.ops = @ + 1])

svsem_bad_init(a) ==
  /\ prog = "svsem_bad_init"
  /\ Create(a) \/ SetVal(a, "semop") \/ Walk(a, "existing", "semop") \/ AddOne(a)

\* Mutant: the other process does not wait for sem_otime
InitializedAtOnce(a) == Walk(a, "existing", "semop")

\* MAX_TRIES looks at sem_otime, one second apart; the last one decides
Initialized(a) ==
  \/ Walk(a, "existing", "semop") /\ s.otime # 0
  \/ Do(a, "existing", IF s.tries[a] + 1 < MaxTries THEN "existing" ELSE "failed", [s EXCEPT !.tries[a] = @ + 1]) /\ s.otime = 0

\* the creator's semop of 0 shows the others that the semaphore is initialized
svsem_good_init(a) ==
  /\ prog = "svsem_good_init"
  /\ \/ Create(a) \/ SetVal(a, "noop")
     \/ Do(a, "noop", "semop", [s EXCEPT !.otime = 1]) /\ s.val = 0
     \/ Initialized(a) \/ AddOne(a)

\* the creator may be killed before it has initialized the semaphore
CreatorKilled ==
  prog = "svsem_good_init" /\ \E a \in {"p1", "p2"} : pc[a] \in {"setval", "noop"} /\ Go(a, pc[a], "killed") /\ UNCHANGED s

-----------------------------------------------------------------------------
(* svsem_op.c, svsem_demo.c: semop on a set of two semaphores.  An         *)
(* argument is a list of operations with flags n and u.                    *)

Op(num, op, flags) == [num |-> num, op |-> op, flags |-> flags]

\* parseOps: =v other than =0 is an error
Parsed(num, sign, v, flags) ==
  IF sign = "=" /\ v # 0 THEN << >> ELSE <<Op(num, IF sign = "-" THEN -v ELSE v, flags)>>

OpArgs ==
  { Parsed(0, "-", 1, {}) \o Parsed(1, "-", 1, {}), Parsed(0, "-", 1, {"u"}), Parsed(1, "+", 1, {}),
    Parsed(0, "=", 0, {}), Parsed(0, "=", 1, {}), Parsed(0, "+", 1, {}) \o Parsed(1, "-", 1, {"n"}) }

OpInit ==
  \E a1, a2 \in OpArgs, v \in 0 .. 1, pid \in {"svsem_op", "svsem_demo"} :
    Start(pid, [p1 |-> "parse", p2 |-> "parse"],
          [arg |-> [p1 |-> a1, p2 |-> IF pid = "svsem_demo" THEN a2 ELSE Parsed(1, "+", 1, {})],
           sems |-> <<v, 1>>, start |-> <<v, 1>>, adj |-> [p1 |-> 0, p2 |-> 0], done |-> {}])

\* the operations one after another, on a copy; the first that cannot be done says so
Apply(sems, ops) ==
  LET done[k \in 0..Len(ops)] ==
        IF k = 0 THEN [sems |-> sems, blocked |-> << >>]
        ELSE LET r == done[k - 1]  o == ops[k]  v == r.sems[o.num + 1]
             IN  IF r.blocked # << >> THEN r
                 ELSE IF (o.op = 0 /\ v # 0) \/ v + o.op < 0 THEN [r EXCEPT !.blocked = <<o>>]
                 ELSE [r EXCEPT !.sems[o.num + 1] = v + o.op]
  IN  done[Len(ops)]

\* semop: all of the operations, or none and the process waits or, with n, fails
Semop(a) ==
  LET r == Apply(s.sems, s.arg[a])
      undo == {i \in DOMAIN s.arg[a] : "u" \in s.arg[a][i].flags}
  IN  \/ /\ r.blocked = << >>
         /\ Do(a, "semop", "completed",
               [s EXCEPT !.sems = r.sems, !.done = @ \union {a},
                         !.adj[a] = IF undo = {} THEN @ ELSE @ - s.arg[a][CHOOSE i \in undo : TRUE].op])
      \/ r.blocked # << >> /\ "n" \in r.blocked[1].flags /\ Walk(a, "semop", "failed")

\* at exit SEM_UNDO takes the adjustments back
svsem_op(a) ==
  /\ prog = "svsem_op"
  /\ \/ Walk(a, "parse", IF s.arg[a] = << >> THEN "failed" ELSE "semop")
     \/ Semop(a)
     \/ Do(a, "completed", "exit", [s EXCEPT !.sems[1] = @ + s.adj[a]])

\* one operation on the first semaphore, without flags
svsem_demo(a) ==
  /\ prog = "svsem_demo"
  /\ \/ Do(a, "parse", IF s.arg[a] = << >> THEN "failed" ELSE "semop",
           [s EXCEPT !.arg[a] = IF @ = << >> THEN @ ELSE <<Op(0, @[1].op, {})>>])
     \/ Semop(a)
     \/ Walk(a, "completed", "exit")

-----------------------------------------------------------------------------
(* event_flags.c: 0 is set, 1 is clear; waiting retries after EINTR.       *)
(* svsem_create.c, svsem_setall.c, svsem_mon.c: a set of numSems.          *)

FlagInit ==
  Start("event_flags", [p1 |-> "clear", p2 |-> "wait"], [flag |-> 0, cleared |-> FALSE, eintr |-> 0, sawSet |-> FALSE, isSet |-> FALSE])

clearEventFlag == [s EXCEPT !.flag = 1, !.cleared = TRUE]
setEventFlag   == [s EXCEPT !.flag = 0]
getFlagState   == [s EXCEPT !.isSet = s.flag = 0]

waitForEventFlag(a) ==
  \/ Do(a, "wait", "state", [s EXCEPT !.sawSet = TRUE]) /\ s.flag = 0
  \/ Do(a, "wait", "wait", [s EXCEPT !.eintr = @ + 1]) /\ s.flag # 0 /\ s.eintr < 1

event_flags(a) ==
  /\ prog = "event_flags"
  /\ IF a = "p2" THEN waitForEventFlag(a) \/ Do(a, "state", "exit", getFlagState)
     ELSE Do(a, "clear", "set", clearEventFlag) \/ Do(a, "set", "exit", setEventFlag)

SetInit ==
  \E flags \in SUBSET {"c", "x"}, keys \in 0 .. 2, exists \in BOOLEAN, n \in 1 .. 2, vals \in {<<3>>, <<3, 4>>} :
    Start("svsem_create", [p1 |-> "parse", p2 |-> "stat"],
          [flags |-> flags, numKeyFlags |-> keys, nsems |-> IF exists THEN 2 ELSE 0, numSems |-> n, vals |-> vals,
           sems |-> << >>, created |-> FALSE, shown |-> << >>])

\* exactly one of -f, -k, -p; an existing set has to be large enough and, with -x, is an error
svsem_create(a) ==
  /\ prog = "svsem_create" /\ a = "p1"
  /\ \/ Walk(a, "parse", IF s.numKeyFlags = 1 THEN "semget" ELSE "failed")
     \/ IF s.nsems = 0 THEN /\ Do(a, "semget", IF "c" \in s.flags THEN "exit" ELSE "failed",
                                  IF "c" \in s.flags THEN [s EXCEPT !.nsems = s.numSems, !.created = TRUE] ELSE s)
        ELSE Walk(a, "semget", IF {"c", "x"} \subseteq s.flags \/ s.numSems > s.nsems THEN "failed" ELSE "exit")

\* as many values as the set has semaphores
svsem_setall(a) ==
  /\ prog = "svsem_create" /\ a = "p2"
  /\ \/ Walk(a, "stat", IF s.nsems = Len(s.vals) THEN "setall" ELSE "failed")
     \/ Do(a, "setall", "mon", [s EXCEPT !.sems = s.vals])

svsem_mon(a) ==
  prog = "svsem_create" /\ a = "p2" /\ Do(a, "mon", "exit", [s EXCEPT !.shown = s.sems])

-----------------------------------------------------------------------------
Init == RaceInit \/ OpInit \/ FlagInit \/ SetInit

Step(a) ==
  \/ svsem_bad_init(a) \/ svsem_good_init(a) \/ svsem_op(a) \/ svsem_demo(a)
  \/ event_flags(a) \/ svsem_create(a) \/ svsem_setall(a) \/ svsem_mon(a)

Env == CreatorKilled

MustEnd == InitProgs \union {"event_flags", "svsem_create"}
Programs == MustEnd \cup {"svsem_op", "svsem_demo"}

\* A process waits in semop although all of its operations could be done
Outstanding ==
  /\ prog \in {"svsem_op", "svsem_demo"}
  /\ \E a \in {"p1", "p2"} : pc[a] = "semop" /\ Apply(s.sems, s.arg[a]).blocked = << >>

\* The good initialization loses no operation and starts from 0; the bad one
\* loses one when the other process operates before SETVAL
Initialization ==
  /\ prog = "svsem_good_init" => /\ s.lost = 0
                                 /\ s.ops > 0 => s.val = s.ops
  /\ prog = "svsem_bad_init" /\ (\A a \in {"p1", "p2"} : pc[a] = "exit") => s.val = s.ops - s.lost

\* A group is done as a whole: the values are the initial ones plus what completed
\* groups did, never below 0, and what SEM_UNDO promises is taken back at exit
Total(i, a) ==
  LET mine == {k \in DOMAIN s.arg[a] : s.arg[a][k].num + 1 = i}
  IN  IF mine = {} THEN 0 ELSE s.arg[a][CHOOSE k \in mine : TRUE].op
AllOrNothing ==
  prog \in {"svsem_op", "svsem_demo"} =>
    \A i \in 1 .. 2 :
      LET effect(a) == IF a \notin s.done THEN 0
                       ELSE Total(i, a) + IF i = 1 /\ pc[a] = "exit" THEN s.adj[a] ELSE 0
      IN  s.sems[i] = s.start[i] + effect("p1") + effect("p2") /\ s.sems[i] >= 0

\* Who waited for the flag goes on only while it is set, the first time or again
FlagsWork ==
  prog = "event_flags" /\ pc["p2"] = "exit" => s.sawSet /\ (s.isSet \/ (s.cleared /\ pc["p1"] = "set") \/ pc["p1"] = "exit")

\* SETALL gives every semaphore of the set a value
SetAll ==
  prog = "svsem_create" => (s.sems # << >> => Len(s.sems) = s.nsems) /\ (s.created => s.nsems = s.numSems)

Safe == Initialization /\ AllOrNothing /\ FlagsWork /\ SetAll
=============================================================================
