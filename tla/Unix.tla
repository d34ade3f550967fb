-------------------------------- MODULE Unix --------------------------------
(***************************************************************************)
(* What the models of the small C programs have in common.  Each of them   *)
(* is a handful of actors (threads, processes, handlers) that walk through *)
(* named places of the code; a module holds the programs of one topic, and *)
(* prog says which program is run.                                         *)
(***************************************************************************)
EXTENDS Integers, Sequences, FiniteSets, TLC

VARIABLES
  prog,  \* the program that is run
  pc,    \* where each of its actors is
  s      \* its variables and the kernel objects it uses, as one record

vars == <<prog, pc, s>>

\* an actor goes on, and nothing else changes with Walk
Go(a, from, to)   == pc[a] = from /\ pc' = [pc EXCEPT ![a] = to]
Walk(a, from, to) == Go(a, from, to) /\ UNCHANGED s
Do(a, from, to, st) == Go(a, from, to) /\ s' = st

\* where an actor ends, or is before it is created
Final == {"exit", "killed", "failed", "absent"}

Gone(a) == pc[a] \in Final
Dead(a) == Gone(a) /\ pc[a] # "absent"

\* an initial state: program, places and variables
Start(p, places, st) == prog = p /\ pc = places /\ s = st

\* fork or pthread_create: a goes on and creates b
Fork(a, from, to, b, at) ==
  pc[a] = from /\ pc[b] = "absent" /\ pc' = [pc EXCEPT ![a] = to, ![b] = at]

\* a mutex, lock or flag without an owner
Free == "free"
=============================================================================
