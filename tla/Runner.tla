------------------------------- MODULE Runner -------------------------------
(***************************************************************************)
(* runner.go: Start runs the tasks in a goroutine of their own and selects *)
(* over r.complete and r.timeout; the goroutine looks for an interrupt     *)
(* between two tasks.  A task may take arbitrarily long.  main turns the   *)
(* result of Start into the exit status.                                   *)
(***************************************************************************)
EXTENDS Integers

CONSTANTS NTasks,   \* len(r.tasks)
          MaxSig    \* bound: interrupts the operating system sends

VARIABLES
  interrupt,  \* values buffered in r.interrupt, of capacity 1
  notified,   \* signal.Notify is in force for r.interrupt
  timeout,    \* r.timeout: "pending", "fired", "taken"
  started,    \* tasks the run loop has started
  gpc,        \* the goroutine: "check", "task", "send", "gone"
  err,        \* what run() returned, while the goroutine sends it
  spc,        \* Start: "select", "returned"
  result,     \* what Start returned
  sigs,       \* interrupts sent so far
  seenAt      \* tasks started when the first interrupt arrived, -1 if none has

vars == <<interrupt, notified, timeout, started, gpc, err, spc, result, sigs, seenAt>>

\* Start has called signal.Notify and launched the goroutine; the timer runs
\* since New and may have fired before
Init ==
  /\ interrupt = 0 /\ notified = TRUE /\ timeout \in {"pending", "fired"}
  /\ started = 0 /\ gpc = "check" /\ err = "none"
  /\ spc = "select" /\ result = "none" /\ sigs = 0 /\ seenAt = -1

\* os/signal delivers without blocking: a signal that finds the channel full
\* is dropped, one after signal.Stop goes to the default handler (not modelled)
Interrupt ==
  /\ spc = "select" /\ notified /\ sigs < MaxSig
  /\ sigs' = sigs + 1
  /\ interrupt' = 1
  /\ seenAt' = IF seenAt = -1 THEN started ELSE seenAt
  /\ UNCHANGED <<notified, timeout, started, gpc, err, spc, result>>

\* time.After(d)
TimerFires ==
  /\ timeout = "pending" /\ timeout' = "fired"
  /\ UNCHANGED <<interrupt, notified, started, gpc, err, spc, result, sigs, seenAt>>

\* gotInterrupt is true: signal.Stop, run returns ErrInterrupt
RunInterrupted ==
  /\ gpc = "check" /\ started < NTasks /\ interrupt = 1
  /\ interrupt' = 0 /\ notified' = FALSE
  /\ gpc' = "send" /\ err' = "ErrInterrupt"
  /\ UNCHANGED <<timeout, started, spc, result, sigs, seenAt>>

\* Mutant: the interrupt is looked for only before the first task
RunTaskUnchecked ==
  /\ gpc = "check" /\ started < NTasks /\ (interrupt = 0 \/ started > 0)
  /\ gpc' = "task" /\ started' = started + 1
  /\ UNCHANGED <<interrupt, notified, timeout, err, spc, result, sigs, seenAt>>

\* gotInterrupt is false: task(id) starts
RunTask ==
  /\ gpc = "check" /\ started < NTasks /\ interrupt = 0
  /\ gpc' = "task" /\ started' = started + 1
  /\ UNCHANGED <<interrupt, notified, timeout, err, spc, result, sigs, seenAt>>

TaskReturns ==
  /\ gpc = "task" /\ gpc' = "check"
  /\ UNCHANGED <<interrupt, notified, timeout, started, err, spc, result, sigs, seenAt>>

\* the range over r.tasks is exhausted: run returns nil
RunComplete ==
  /\ gpc = "check" /\ started = NTasks
  /\ gpc' = "send" /\ err' = "nil"
  /\ UNCHANGED <<interrupt, notified, timeout, started, spc, result, sigs, seenAt>>

\* case err := <-r.complete: the unbuffered send and receive meet
StartComplete ==
  /\ spc = "select" /\ gpc = "send"
  /\ spc' = "returned" /\ result' = err /\ gpc' = "gone"
  /\ UNCHANGED <<interrupt, notified, timeout, started, err, sigs, seenAt>>

\* Mutant: the timeout is noticed only once the tasks are through
StartTimeoutLate ==
  /\ spc = "select" /\ timeout = "fired" /\ gpc = "send"
  /\ spc' = "returned" /\ result' = "ErrTimeout" /\ timeout' = "taken"
  /\ UNCHANGED <<interrupt, notified, started, gpc, err, sigs, seenAt>>

\* case <-r.timeout; nobody will ever receive from r.complete again
StartTimeout ==
  /\ spc = "select" /\ timeout = "fired"
  /\ spc' = "returned" /\ result' = "ErrTimeout" /\ timeout' = "taken"
  /\ UNCHANGED <<interrupt, notified, started, gpc, err, sigs, seenAt>>

\* main exits as soon as Start has returned, which ends the goroutine
Exited == spc = "returned" /\ UNCHANGED vars

Next ==
  \/ (spc = "select") /\ (TimerFires \/ RunInterrupted \/ RunTask \/ TaskReturns \/ RunComplete)
  \/ Interrupt \/ StartComplete \/ StartTimeout \/ Exited

Spec == Init /\ [][Next]_vars

-----------------------------------------------------------------------------
\* Start returns nil only when every task has run to its end, and ErrInterrupt
\* only when an interrupt arrived and a task was left out; and an interrupt that
\* arrives while a task is still to be started is never ignored: with nil, the
\* first interrupt came during or after the last task.
ResultAgrees ==
  /\ result = "nil" => started = NTasks /\ seenAt \in {-1, NTasks}
  /\ result = "ErrInterrupt" => seenAt >= 0 /\ started < NTasks

\* Start returns although a task hangs: the timeout does not depend on the
\* goroutine.
StartReturns == <>(spc = "returned")
=============================================================================
