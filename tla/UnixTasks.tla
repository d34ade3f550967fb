----------------------------- MODULE UnixTasks ------------------------------
(***************************************************************************)
(* The programs about threads and processes, with their parameters.        *)
(***************************************************************************)
EXTENDS Unix

CONSTANTS
  Loops, Units, Rounds,  \* command-line arguments of the programs of threads/
  Spurious,              \* bound: wakeups of pthread_cond_wait without a signal
  Kids,                  \* the children of multi_SIGCHLD and multi_wait, one for each argument
  MaxArgs,               \* bound: argc of the programs with one child
  UserSignals            \* bound: the signals sent to the child of child_status

ASSUME ThreadsAssumption ==
  Loops \in Nat \ {0, 1} /\ Units \in Nat \ {0} /\ Rounds \in Nat /\ Spurious \in Nat

\* multi_SIGCHLD and multi_wait reject an empty list of arguments
ASSUME ProcessesAssumption ==
  /\ IsFiniteSet(Kids) /\ Kids # {} /\ "p" \notin Kids
  /\ MaxArgs \in Nat /\ UserSignals \in Nat

Threading == INSTANCE Threads
Procs     == INSTANCE Processes
=============================================================================
