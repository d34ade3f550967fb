----------------------------- MODULE GoPrograms -----------------------------
(***************************************************************************)
(* The goroutine programs of the Go notes that share nothing with each     *)
(* other, for one run of the model checker: the work pool, the runner,     *)
(* Submit of the search package (chapter 7) and the feed search            *)
(* (chapter 2).  The variable program says which of them is run; the       *)
(* others stay in one of their initial states.                             *)
(***************************************************************************)
EXTENDS Integers, FiniteSets

CONSTANTS
  Workers, Tasks, NoTask,      \* of WorkPool
  NTasks, MaxSig,              \* of Runner
  Engines, Discarders,         \* of SearchSession
  Feeds, FeedTypes, MaxItems   \* of FeedSearch

ASSUME GoAssumption ==
  /\ IsFiniteSet(Workers) /\ IsFiniteSet(Tasks) /\ NoTask \notin Tasks
  /\ NTasks \in Nat /\ MaxSig \in Nat
  /\ IsFiniteSet(Engines) /\ IsFiniteSet(Discarders)
  /\ Cardinality(Discarders) >= Cardinality(Engines)
  /\ IsFiniteSet(Feeds) /\ "rss" \in FeedTypes /\ MaxItems \in Nat

VARIABLES
  program,
  workClosed, wg, mainWg, spc, current, wpc, mpc, runs,
  interrupt, notified, timeout, started, runPc, err, startPc, result, sigs, seenAt,
  searchers, first, epc, search, results, discarding, discarded, submitPc,
  feedType, waitGroup, closed, matchPc, found, sent, displayed, monitor, mainPc

WP == INSTANCE WorkPool
RN == INSTANCE Runner WITH gpc <- runPc, spc <- startPc
SS == INSTANCE SearchSession WITH mpc <- submitPc
FS == INSTANCE FeedSearch WITH gpc <- matchPc, mpc <- mainPc

wpVars == <<workClosed, wg, mainWg, spc, current, wpc, mpc, runs>>
rnVars == <<interrupt, notified, timeout, started, runPc, err, startPc, result, sigs, seenAt>>
ssVars == <<searchers, first, epc, search, results, discarding, discarded, submitPc>>
fsVars == <<feedType, waitGroup, closed, matchPc, found, sent, displayed, monitor, mainPc>>
vars   == <<program, wpVars, rnVars, ssVars, fsVars>>

Init ==
  /\ program \in {"work", "runner", "search", "feed"}
  /\ WP!Init /\ RN!Init /\ SS!Init /\ FS!Init
  /\ program # "runner" => timeout = "pending"
  /\ program # "search" => searchers = {} /\ ~first
  /\ program # "feed" => feedType = [f \in Feeds |-> "rss"]

Work   == program = "work" /\ WP!Next /\ UNCHANGED <<program, rnVars, ssVars, fsVars>>
Run    == program = "runner" /\ RN!Next /\ UNCHANGED <<program, wpVars, ssVars, fsVars>>
Search == program = "search" /\ SS!Next /\ UNCHANGED <<program, wpVars, rnVars, fsVars>>
Feed   == program = "feed" /\ FS!Next /\ UNCHANGED <<program, wpVars, rnVars, ssVars>>

Next == Work \/ Run \/ Search \/ Feed

Spec == Init /\ [][Next]_vars

Runner(A) == program = "runner" /\ A /\ UNCHANGED <<program, wpVars, ssVars, fsVars>>

\* Some goroutine that can run does, and tasks, searches and http.Get take
\* finite time (the code sets no timeout for http.Get, so this is assumed of
\* the servers).  Of the runner only this is assumed: its timer fires and the
\* select in Start is scheduled; the tasks it runs may hang.
FairSpec ==
  /\ Spec
  /\ WF_vars(Work) /\ WF_vars(Search) /\ WF_vars(Feed)
  /\ WF_vars(Runner(startPc = "select" /\ RN!TimerFires))
  /\ WF_vars(Runner(RN!StartTimeout \/ RN!StartComplete))

-----------------------------------------------------------------------------
(* The properties of the four modules, each for the runs of its program *)

\* work.go, search.go of chapter 2: a channel is closed only after the last
\* send on it, so that no goroutine panics
ChannelClosedLast == WP!NoRunAfterClose /\ FS!NoSendAfterClose

\* work.go: Shutdown returns when all work is completed
ShutdownCompletesWork == WP!ShutdownCompletesWork

\* runner.go: the result of Start agrees with what has been run, and an
\* interrupt before the last task is never ignored
ResultAgrees == RN!ResultAgrees

\* search.go of chapter 7: Submit returns all results, or exactly the first;
\* search.go of chapter 2: Run displays every result exactly once, in order
ResultsComplete == SS!ResultsComplete /\ FS!AllDisplayed

\* The programs end: the work pool shuts down, Start returns although a task
\* hangs, no searcher and no discarding goroutine of Submit stays blocked on the
\* channel, and the feed search returns although a search fails
ProgramsEnd ==
  /\ program = "search" => SS!NobodyBlocked
  /\ program = "work" => WP!Terminates
  /\ program = "runner" => RN!StartReturns
  /\ program = "feed" => FS!RunReturns
=============================================================================
