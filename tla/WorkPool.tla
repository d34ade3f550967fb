------------------------------ MODULE WorkPool ------------------------------
(***************************************************************************)
(* The work pool of work.go and the main of work/main/main.go.  One        *)
(* goroutine per task calls Run, the pool's goroutines range over the      *)
(* unbuffered channel p.work, main waits for all submitters and then calls *)
(* Shutdown.                                                               *)
(***************************************************************************)
EXTENDS Integers, FiniteSets

CONSTANTS Workers,  \* the maxGoroutines goroutines started by New
          Tasks,    \* the namePrinters, each with its submitting goroutine
          NoTask    \* a worker that executes nothing

VARIABLES
  workClosed,  \* close(p.work) has been executed
  wg,          \* counter of p.wg: pool goroutines
  mainWg,      \* counter of main's wg: submitters
  spc,         \* the submitters: "run", "sent", "returned"
  current,     \* the task each worker executes
  wpc,         \* the workers: "range", "task", "done"
  mpc,         \* main: "wait", "shutdown", "waitPool", "returned"
  runs         \* how often Task() of each task has been executed

vars == <<workClosed, wg, mainWg, spc, current, wpc, mpc, runs>>

Init ==
  /\ workClosed = FALSE
  /\ wg = Cardinality(Workers)
  /\ mainWg = Cardinality(Tasks)
  /\ spc = [t \in Tasks |-> "run"]
  /\ current = [w \in Workers |-> NoTask]
  /\ wpc = [w \in Workers |-> "range"]
  /\ mpc = "wait"
  /\ runs = [t \in Tasks |-> 0]

\* p.work <- w in Run meets w := range p.work: the unbuffered channel hands
\* the task over in one step
Handover(t, w) ==
  /\ ~workClosed
  /\ spc[t] = "run" /\ spc' = [spc EXCEPT ![t] = "sent"]
  /\ wpc[w] = "range" /\ wpc' = [wpc EXCEPT ![w] = "task"]
  /\ current' = [current EXCEPT ![w] = t]
  /\ UNCHANGED <<workClosed, wg, mainWg, mpc, runs>>

\* Run has returned: wg.Done() in main's goroutine
SubmitterDone(t) ==
  /\ spc[t] = "sent" /\ spc' = [spc EXCEPT ![t] = "returned"]
  /\ mainWg' = mainWg - 1
  /\ UNCHANGED <<workClosed, wg, current, wpc, mpc, runs>>

\* w.Task() returns
Task(w) ==
  /\ wpc[w] = "task" /\ wpc' = [wpc EXCEPT ![w] = "range"]
  /\ runs' = [runs EXCEPT ![current[w]] = @ + 1]
  /\ current' = [current EXCEPT ![w] = NoTask]
  /\ UNCHANGED <<workClosed, wg, mainWg, spc, mpc>>

\* the range ends on the closed channel, p.wg.Done()
WorkerDone(w) ==
  /\ workClosed
  /\ wpc[w] = "range" /\ wpc' = [wpc EXCEPT ![w] = "done"]
  /\ wg' = wg - 1
  /\ UNCHANGED <<workClosed, mainWg, spc, current, mpc, runs>>

\* wg.Wait() in main
MainWait ==
  /\ mpc = "wait" /\ mainWg = 0 /\ mpc' = "shutdown"
  /\ UNCHANGED <<workClosed, wg, mainWg, spc, current, wpc, runs>>

\* Shutdown: close(p.work)
ShutdownClose ==
  /\ mpc = "shutdown" /\ mpc' = "waitPool"
  /\ workClosed' = TRUE
  /\ UNCHANGED <<wg, mainWg, spc, current, wpc, runs>>

\* Mutant: Shutdown does not wait for p.wg
ShutdownReturnEarly ==
  /\ mpc = "waitPool" /\ mpc' = "returned"
  /\ UNCHANGED <<workClosed, wg, mainWg, spc, current, wpc, runs>>

\* Shutdown: p.wg.Wait() returns
ShutdownReturn ==
  /\ mpc = "waitPool" /\ wg = 0 /\ mpc' = "returned"
  /\ UNCHANGED <<workClosed, wg, mainWg, spc, current, wpc, runs>>

Ended == mpc = "returned" /\ UNCHANGED vars

Next ==
  \/ \E t \in Tasks, w \in Workers : Handover(t, w)
  \/ \E t \in Tasks : SubmitterDone(t)
  \/ \E w \in Workers : Task(w) \/ WorkerDone(w)
  \/ MainWait \/ ShutdownClose \/ ShutdownReturn \/ Ended

Spec == Init /\ [][Next]_vars

-----------------------------------------------------------------------------
\* Run never meets a closed channel (a send would panic): main closes it only
\* after every submitter has returned from Run.
NoRunAfterClose == workClosed => \A t \in Tasks : spc[t] = "returned"

\* "Shutdown the work pool and wait for all existing work to be completed":
\* when Shutdown has returned every task has been executed exactly once, no
\* worker is still in a task, and main's process may exit.
ShutdownCompletesWork ==
  mpc = "returned" => /\ \A t \in Tasks : runs[t] = 1
                      /\ \A w \in Workers : wpc[w] = "done"

\* All tasks are worked off and the program ends, with fewer workers than
\* tasks too.
Terminates == <>(mpc = "returned")
=============================================================================
