-------------------------- MODULE GoProgramsProofs --------------------------
(***************************************************************************)
(* Safety of the goroutine programs for any number of workers, tasks,      *)
(* searchers and feeds: an inductive invariant for each of them, and what  *)
(* follows for the suite; then the pool, for any number of clients and     *)
(* closers, and the reader/writer semaphore, for any number of readers.    *)
(***************************************************************************)
EXTENDS GoPrograms, MCPool, MCReaderWriter, Sequences, FiniteSetTheorems, TLAPS

-----------------------------------------------------------------------------
\* The components count with the same Cardinality as the suite.
LEMMA SameCardinality ==
  \A S : /\ WP!Cardinality(S) = Cardinality(S)
         /\ SS!Cardinality(S) = Cardinality(S)
         /\ FS!Cardinality(S) = Cardinality(S)
         /\ RW!Cardinality(S) = Cardinality(S)
  BY DEF WP!Cardinality, SS!Cardinality, FS!Cardinality, RW!Cardinality, Cardinality

-----------------------------------------------------------------------------
(* The work pool *)

WorkTypeOK ==
  /\ workClosed \in BOOLEAN /\ wg \in Int /\ mainWg \in Int
  /\ spc \in [Tasks -> {"run", "sent", "returned"}]
  /\ current \in [Workers -> Tasks \cup {NoTask}]
  /\ wpc \in [Workers -> {"range", "task", "done"}]
  /\ mpc \in {"wait", "shutdown", "waitPool", "returned"}
  /\ runs \in [Tasks -> Nat]

Submitting  == {t \in Tasks : spc[t] # "returned"}
WorkersLeft == {w \in Workers : wpc[w] # "done"}

\* the WaitGroups count who is left, and main has passed them only at zero
WaitGroups ==
  /\ mainWg = Cardinality(Submitting) /\ wg = Cardinality(WorkersLeft)
  /\ mpc # "wait" => Submitting = {}
  /\ mpc = "returned" => WorkersLeft = {}
  /\ workClosed <=> mpc \in {"waitPool", "returned"}

\* a task that was handed over is with one worker, or has been executed once
HandedOver ==
  /\ \A w \in Workers : current[w] # NoTask <=> wpc[w] = "task"
  /\ \A w, v \in Workers : current[w] # NoTask /\ current[w] = current[v] => w = v
  /\ \A t \in Tasks :
       /\ spc[t] = "run" => runs[t] = 0
       /\ \A w \in Workers : current[w] = t => runs[t] = 0 /\ spc[t] # "run"
       /\ spc[t] # "run" => runs[t] = 1 \/ \E w \in Workers : current[w] = t

WorkInv == WorkTypeOK /\ WaitGroups /\ HandedOver

LEMMA WorkInit == WP!Init => WorkInv
<1> SUFFICES ASSUME WP!Init PROVE WorkInv
  OBVIOUS
<1> USE DEF WP!Init
<1>1. Submitting = Tasks /\ WorkersLeft = Workers
  BY DEF Submitting, WorkersLeft
<1>2. Cardinality(Tasks) \in Nat /\ Cardinality(Workers) \in Nat
  BY GoAssumption, FS_CardinalityType
<1>3. wg = Cardinality(Workers) /\ mainWg = Cardinality(Tasks)
  BY SameCardinality
<1>4. wg \in Int /\ mainWg \in Int
  BY <1>2, <1>3
<1>5. WorkTypeOK
  BY <1>4 DEF WorkTypeOK
<1>6. WaitGroups
  BY <1>1, <1>3 DEF WaitGroups
<1>7. HandedOver
  BY GoAssumption DEF HandedOver
<1> QED
  BY <1>5, <1>6, <1>7 DEF WorkInv

LEMMA WorkStep == WorkInv /\ [WP!Next]_(WP!vars) => WorkInv'
<1> SUFFICES ASSUME WorkInv, [WP!Next]_(WP!vars) PROVE WorkInv'
  OBVIOUS
<1> USE GoAssumption DEF WorkInv, WorkTypeOK
<1>0. /\ IsFiniteSet(Submitting) /\ IsFiniteSet(WorkersLeft)
      /\ Cardinality(Submitting) \in Nat /\ Cardinality(WorkersLeft) \in Nat
  <2>1. Submitting \in SUBSET Tasks /\ WorkersLeft \in SUBSET Workers
    BY DEF Submitting, WorkersLeft
  <2> QED
    BY <2>1, FS_Subset, FS_CardinalityType
<1>1. ASSUME NEW t \in Tasks, NEW w \in Workers, WP!Handover(t, w) PROVE WorkInv'
  <2> USE <1>1 DEF WP!Handover
  <2>1. WorkTypeOK'
    OBVIOUS
  <2>2. Submitting' = Submitting /\ WorkersLeft' = WorkersLeft
    BY DEF Submitting, WorkersLeft
  <2>3. WaitGroups'
    BY <2>2 DEF WaitGroups
  <2>4. HandedOver'
    BY DEF HandedOver
  <2> QED
    BY <2>1, <2>3, <2>4
<1>2. ASSUME NEW t \in Tasks, WP!SubmitterDone(t) PROVE WorkInv'
  <2> USE <1>2 DEF WP!SubmitterDone
  <2>1. WorkTypeOK'
    OBVIOUS
  <2>2. t \in Submitting /\ Submitting' = Submitting \ {t} /\ WorkersLeft' = WorkersLeft
    BY DEF Submitting, WorkersLeft
  <2>3. Cardinality(Submitting') = Cardinality(Submitting) - 1
    BY <1>0, <2>2, FS_RemoveElement
  <2>4. WaitGroups'
    BY <2>2, <2>3 DEF WaitGroups
  <2>5. HandedOver'
    BY DEF HandedOver
  <2> QED
    BY <2>1, <2>4, <2>5
<1>3. ASSUME NEW w \in Workers, WP!Task(w) PROVE WorkInv'
  <2> USE <1>3 DEF WP!Task
  <2>0. current[w] \in Tasks
    BY DEF HandedOver
  <2>1. WorkTypeOK'
    BY <2>0
  <2>2. Submitting' = Submitting /\ WorkersLeft' = WorkersLeft
    BY DEF Submitting, WorkersLeft
  <2>3. WaitGroups'
    BY <2>2 DEF WaitGroups
  <2>4. HandedOver'
    BY <2>0 DEF HandedOver
  <2> QED
    BY <2>1, <2>3, <2>4
<1>4. ASSUME NEW w \in Workers, WP!WorkerDone(w) PROVE WorkInv'
  <2> USE <1>4 DEF WP!WorkerDone
  <2>1. WorkTypeOK'
    OBVIOUS
  <2>2. w \in WorkersLeft /\ WorkersLeft' = WorkersLeft \ {w} /\ Submitting' = Submitting
    BY DEF Submitting, WorkersLeft
  <2>3. Cardinality(WorkersLeft') = Cardinality(WorkersLeft) - 1
    BY <1>0, <2>2, FS_RemoveElement
  <2>4. WaitGroups'
    BY <2>2, <2>3 DEF WaitGroups
  <2>5. HandedOver'
    BY DEF HandedOver
  <2> QED
    BY <2>1, <2>4, <2>5
<1>5. ASSUME WP!MainWait \/ WP!ShutdownClose \/ WP!ShutdownReturn PROVE WorkInv'
  <2> USE <1>5 DEF WP!MainWait, WP!ShutdownClose, WP!ShutdownReturn
  <2>1. WorkTypeOK'
    OBVIOUS
  <2>2. Submitting' = Submitting /\ WorkersLeft' = WorkersLeft
    BY DEF Submitting, WorkersLeft
  <2>3. /\ Cardinality(Submitting) = 0 => Submitting = {}
        /\ Cardinality(WorkersLeft) = 0 => WorkersLeft = {}
    BY <1>0, FS_EmptySet
  <2>4. WaitGroups'
    BY <2>2, <2>3 DEF WaitGroups
  <2>5. HandedOver'
    BY DEF HandedOver
  <2> QED
    BY <2>1, <2>4, <2>5
<1>6. ASSUME UNCHANGED WP!vars PROVE WorkInv'
  BY <1>6 DEF WP!vars, WaitGroups, Submitting, WorkersLeft, HandedOver
<1> QED
  BY <1>1, <1>2, <1>3, <1>4, <1>5, <1>6 DEF WP!Next, WP!Ended

-----------------------------------------------------------------------------
(* The runner *)

RunnerTypeOK ==
  /\ interrupt \in {0, 1} /\ notified \in BOOLEAN
  /\ started \in 0..NTasks /\ seenAt \in -1..NTasks
  /\ runPc \in {"check", "task", "send", "gone"} /\ err \in {"none", "nil", "ErrInterrupt"}
  /\ startPc \in {"select", "returned"} /\ result \in {"none", "nil", "ErrInterrupt", "ErrTimeout"}

\* an interrupt is in the channel from its arrival until run looks at it, and
\* no task is started meanwhile
InterruptKept ==
  /\ interrupt = 1 => seenAt >= 0
  /\ runPc \in {"check", "task"} /\ seenAt >= 0 => interrupt = 1 /\ seenAt = started

\* what run returned agrees with what it has run
Reported(e) ==
  /\ e = "nil" => started = NTasks /\ seenAt \in {-1, NTasks}
  /\ e = "ErrInterrupt" => seenAt >= 0 /\ started < NTasks /\ ~notified

RunnerInv ==
  /\ RunnerTypeOK /\ InterruptKept
  /\ startPc = "select" => result = "none" /\ runPc # "gone"
  /\ runPc = "send" => err # "none" /\ Reported(err)
  /\ Reported(result)

LEMMA RunnerInit == RN!Init => RunnerInv
  BY GoAssumption DEF RN!Init, RunnerInv, RunnerTypeOK, InterruptKept, Reported

LEMMA RunnerStep == RunnerInv /\ [RN!Next]_(RN!vars) => RunnerInv'
<1> SUFFICES ASSUME RunnerInv, [RN!Next]_(RN!vars) PROVE RunnerInv'
  OBVIOUS
<1> USE GoAssumption DEF RunnerInv, RunnerTypeOK, InterruptKept, Reported
<1>1. CASE RN!Interrupt
  BY <1>1 DEF RN!Interrupt
<1>2. CASE RN!TimerFires
  BY <1>2 DEF RN!TimerFires
<1>3. CASE startPc = "select" /\ RN!RunInterrupted
  BY <1>3 DEF RN!RunInterrupted
<1>4. CASE startPc = "select" /\ RN!RunTask
  BY <1>4 DEF RN!RunTask
<1>5. CASE startPc = "select" /\ (RN!TaskReturns \/ RN!RunComplete)
  BY <1>5 DEF RN!TaskReturns, RN!RunComplete
<1>6. CASE RN!StartComplete \/ RN!StartTimeout
  BY <1>6 DEF RN!StartComplete, RN!StartTimeout
<1>7. CASE UNCHANGED RN!vars
  BY <1>7 DEF RN!vars
<1> QED
  BY <1>1, <1>2, <1>3, <1>4, <1>5, <1>6, <1>7 DEF RN!Next, RN!Exited

-----------------------------------------------------------------------------
(* Submit of the search package *)

SubmitTypeOK ==
  /\ searchers \in SUBSET Engines /\ first \in BOOLEAN
  /\ epc \in [Engines -> {"off", "searching", "sending", "returned"}]
  /\ search \in 0..Cardinality(searchers)
  /\ results \in SUBSET searchers /\ discarded \in SUBSET searchers

\* a result is received once, by Submit or by a goroutine that discards it
ReceivedOnce ==
  /\ \A e \in Engines : epc[e] # "off" => e \in searchers
  /\ \A e \in Engines : e \in results \cup discarded => epc[e] = "returned"
  /\ results \cap discarded = {}

\* the loop variable counts the results, except those left to the discarders
SearchCounts ==
  /\ ~first => discarding = {} /\ discarded = {} /\ Cardinality(results) = search
  /\ first /\ search > 0 => Cardinality(results) = 1
  /\ search = 0 => results = {}

SubmitInv ==
  /\ SubmitTypeOK /\ ReceivedOnce /\ SearchCounts
  /\ submitPc = "returned" => search = Cardinality(searchers)

LEMMA SubmitInit == SS!Init => SubmitInv
<1> SUFFICES ASSUME SS!Init PROVE SubmitInv
  OBVIOUS
<1> USE DEF SS!Init
<1>1. IsFiniteSet(searchers)
  BY GoAssumption, FS_Subset
<1>2. Cardinality(searchers) \in Nat /\ Cardinality({}) = 0
  BY <1>1, FS_CardinalityType, FS_EmptySet
<1> QED
  BY <1>2 DEF SubmitInv, SubmitTypeOK, ReceivedOnce, SearchCounts

LEMMA SubmitStep == SubmitInv /\ [SS!Next]_(SS!vars) => SubmitInv'
<1> SUFFICES ASSUME SubmitInv, [SS!Next]_(SS!vars) PROVE SubmitInv'
  OBVIOUS
<1> USE DEF SubmitInv, SubmitTypeOK, ReceivedOnce, SearchCounts
<1>0. /\ IsFiniteSet(searchers) /\ Cardinality(searchers) \in Nat
      /\ IsFiniteSet(results) /\ Cardinality(results) \in Nat
      /\ SS!Cardinality(searchers) = Cardinality(searchers)
  <2>1. IsFiniteSet(searchers)
    BY GoAssumption, FS_Subset
  <2> QED
    BY <2>1, FS_Subset, FS_CardinalityType, SameCardinality
<1>1. ASSUME NEW e \in Engines, SS!Launch(e) \/ SS!Found(e) PROVE SubmitInv'
  BY <1>1 DEF SS!Launch, SS!Found
<1>2. ASSUME NEW e \in Engines, SS!Receive(e) PROVE SubmitInv'
  <2> USE <1>2 DEF SS!Receive, SS!Looping
  <2>1. e \notin results /\ e \in searchers /\ search + 1 <= Cardinality(searchers)
    BY <1>0
  <2>2. Cardinality(results') = Cardinality(results) + 1
    BY <1>0, <2>1, FS_AddElement
  <2>3. search = 0 => Cardinality(results) = 0
    BY FS_EmptySet
  <2>4. SubmitTypeOK'
    BY <1>0, <2>1
  <2>5. ReceivedOnce'
    BY <2>1
  <2>6. SearchCounts'
    BY <1>0, <2>2, <2>3
  <2> QED
    BY <2>4, <2>5, <2>6
<1>3. ASSUME NEW d \in Discarders, SS!Discard(d) PROVE SubmitInv'
  BY <1>0, <1>3 DEF SS!Discard, SS!Looping
<1>4. ASSUME NEW d \in Discarders, NEW e \in Engines, SS!DiscardReceive(d, e) PROVE SubmitInv'
  BY <1>4 DEF SS!DiscardReceive
<1>5. ASSUME SS!LaunchDone \/ SS!SubmitReturn PROVE SubmitInv'
  BY <1>0, <1>5 DEF SS!LaunchDone, SS!SubmitReturn
<1>6. ASSUME UNCHANGED SS!vars PROVE SubmitInv'
  BY <1>6 DEF SS!vars
<1> QED
  BY <1>1, <1>2, <1>3, <1>4, <1>5, <1>6 DEF SS!Next, SS!CallerGoesOn

-----------------------------------------------------------------------------
(* The feed search *)

FeedTypeOK ==
  /\ waitGroup \in Int /\ closed \in BOOLEAN
  /\ matchPc \in [Feeds -> {"off", "search", "send", "done", "gone"}]
  /\ found \in [Feeds -> -1..MaxItems] /\ sent \in [Feeds -> 0..MaxItems]
  /\ displayed \in Seq(Feeds \X (1..MaxItems))
  /\ monitor \in {"off", "wait", "gone"}
  /\ mainPc \in {"load", "launch", "display", "returned", "fatal"}

Matching == {f \in Feeds : matchPc[f] # "gone"}

\* the monitor comes after all goroutines were launched, the close after all
\* have called Done
CloseLast ==
  /\ mainPc \in {"load", "fatal"} => Matching = Feeds /\ \A f \in Feeds : matchPc[f] = "off"
  /\ mainPc \notin {"load", "fatal"} => waitGroup = Cardinality(Matching)
  /\ monitor = "off" <=> mainPc \in {"load", "launch", "fatal"}
  /\ closed <=> monitor = "gone"
  /\ closed => Matching = {}
  /\ mainPc = "returned" => closed

\* Match has sent as many results as it will, once it is done
SentCounts ==
  \A f \in Feeds :
    /\ matchPc[f] \in {"off", "search"} => sent[f] = 0
    /\ matchPc[f] = "send" => sent[f] <= found[f]
    /\ matchPc[f] \in {"done", "gone"} => sent[f] = IF found[f] = -1 THEN 0 ELSE found[f]

\* Display has shown what was sent: all of it, and each feed's in order
Shown ==
  /\ \A k \in 1..Len(displayed) : displayed[k][2] <= sent[displayed[k][1]]
  /\ \A f \in Feeds : \A i \in 1..sent[f] : 
       \E k \in 1..Len(displayed) : displayed[k][1] = f /\ displayed[k][2] = i
  /\ \A j, k \in 1..Len(displayed) :
       j < k /\ displayed[j][1] = displayed[k][1] => displayed[j][2] < displayed[k][2]

FeedInv == FeedTypeOK /\ CloseLast /\ SentCounts /\ Shown

LEMMA FeedInit == FS!Init => FeedInv
<1> SUFFICES ASSUME FS!Init PROVE FeedInv
  OBVIOUS
<1> USE GoAssumption DEF FS!Init
<1>1. FeedTypeOK
  <2>1. 0 \in -1..MaxItems /\ 0 \in 0..MaxItems
    OBVIOUS
  <2>2. displayed \in Seq(Feeds \X (1..MaxItems))
    OBVIOUS
  <2>3. /\ found \in [Feeds -> -1..MaxItems] /\ sent \in [Feeds -> 0..MaxItems]
        /\ matchPc \in [Feeds -> {"off", "search", "send", "done", "gone"}]
    BY <2>1
  <2>4. closed \in BOOLEAN
    OBVIOUS
  <2>5. /\ waitGroup \in Int /\ monitor \in {"off", "wait", "gone"}
        /\ mainPc \in {"load", "launch", "display", "returned", "fatal"}
    OBVIOUS
  <2> QED
    BY <2>2, <2>3, <2>4, <2>5 DEF FeedTypeOK
<1>2. CloseLast
  BY DEF CloseLast, Matching
<1>3. SentCounts /\ Shown
  BY DEF SentCounts, Shown
<1> QED
  BY <1>1, <1>2, <1>3 DEF FeedInv

\* Display shows one more result, the next one of its feed.
LEMMA ShownNext ==
  ASSUME FeedTypeOK, Shown, NEW f \in Feeds, sent[f] + 1 \in 1..MaxItems,
         sent' = [sent EXCEPT ![f] = @ + 1], displayed' = Append(displayed, <<f, sent[f] + 1>>)
  PROVE  displayed' \in Seq(Feeds \X (1..MaxItems)) /\ Shown'
<1> USE DEF FeedTypeOK
<1> DEFINE r == <<f, sent[f] + 1>>
<1>1. /\ displayed' \in Seq(Feeds \X (1..MaxItems))
      /\ Len(displayed) \in Nat /\ Len(displayed') = Len(displayed) + 1
      /\ displayed'[Len(displayed) + 1] = r
      /\ \A k \in 1..Len(displayed) : displayed'[k] = displayed[k]
  OBVIOUS
<1>2. \A k \in 1..Len(displayed) : displayed[k][1] \in Feeds /\ displayed[k][2] \in 1..MaxItems
  BY SMTT(30)
<1>3. \A g \in Feeds : sent[g] \in Nat /\ sent'[g] = IF g = f THEN sent[f] + 1 ELSE sent[g]
  BY GoAssumption
<1>8. displayed'[Len(displayed) + 1][1] = f /\ displayed'[Len(displayed) + 1][2] = sent[f] + 1
  BY <1>1
<1> HIDE DEF r, FeedTypeOK
<1>4. ASSUME NEW k \in 1..Len(displayed') PROVE displayed'[k][2] <= sent'[displayed'[k][1]]
  <2>1. CASE k \in 1..Len(displayed)
    <3>1. displayed'[k][1] \in Feeds /\ displayed'[k][2] <= sent[displayed'[k][1]] /\ displayed'[k][2] \in Int
      BY <1>1, <1>2, <2>1 DEF Shown
    <3> QED
      BY <1>3, <3>1
  <2>2. CASE k = Len(displayed) + 1
    BY <1>3, <1>8, <2>2
  <2> QED
    BY <1>1, <2>1, <2>2
<1>5. ASSUME NEW g \in Feeds, NEW i \in 1..sent'[g]
      PROVE  \E k \in 1..Len(displayed') : displayed'[k][1] = g /\ displayed'[k][2] = i
  <2>1. CASE g = f /\ i = sent[f] + 1
    <3>1. Len(displayed) + 1 \in 1..Len(displayed')
      BY <1>1
    <3> QED
      BY <1>8, <2>1, <3>1
  <2>2. CASE i \in 1..sent[g]
    <3>1. PICK k \in 1..Len(displayed) : displayed[k][1] = g /\ displayed[k][2] = i
      BY <2>2 DEF Shown
    <3>2. k \in 1..Len(displayed') /\ displayed'[k] = displayed[k]
      BY <1>1
    <3> QED
      BY <3>1, <3>2
  <2>3. (g = f /\ i = sent[f] + 1) \/ i \in 1..sent[g]
    BY <1>3
  <2> QED
    BY <2>1, <2>2, <2>3
<1>6. ASSUME NEW j \in 1..Len(displayed'), NEW k \in 1..Len(displayed'),
             j < k, displayed'[j][1] = displayed'[k][1]
      PROVE  displayed'[j][2] < displayed'[k][2]
  <2>1. CASE k \in 1..Len(displayed)
    BY <1>1, <1>6, <2>1 DEF Shown
  <2>2. CASE k = Len(displayed) + 1
    <3>1. j \in 1..Len(displayed) /\ displayed[j][1] = f /\ displayed[j][2] <= sent[f]
      BY <1>1, <1>6, <1>8, <2>2 DEF Shown
    <3> QED
      BY <1>1, <1>2, <1>3, <1>8, <2>2, <3>1
  <2> QED
    BY <1>1, <2>1, <2>2
<1> QED
  BY <1>1, <1>4, <1>5, <1>6 DEF Shown

LEMMA FeedStep == FeedInv /\ [FS!Next]_(FS!vars) => FeedInv'
<1> SUFFICES ASSUME FeedInv, [FS!Next]_(FS!vars) PROVE FeedInv'
  OBVIOUS
<1> USE GoAssumption DEF FeedInv, FeedTypeOK
<1>0. IsFiniteSet(Matching) /\ Cardinality(Matching) \in Nat
  BY FS_Subset, FS_CardinalityType DEF Matching
<1>shown. ASSUME UNCHANGED <<sent, displayed>> PROVE Shown'
  <2>1. Shown /\ sent' = sent /\ displayed' = displayed
    BY <1>shown
  <2> HIDE DEF FeedInv, FeedTypeOK
  <2> QED
    BY <2>1, SMT DEF Shown
<1>1. CASE FS!RetrieveFeedsError \/ FS!LaunchMonitor \/ FS!DisplayReturn
  <2> USE <1>1 DEF FS!RetrieveFeedsError, FS!LaunchMonitor, FS!DisplayReturn
  <2>1. FeedTypeOK'
    OBVIOUS
  <2>4. Matching' = Matching
    BY DEF Matching
  <2>2. CloseLast'
    <3>1. CASE FS!RetrieveFeedsError
      BY <2>4, <3>1 DEF CloseLast
    <3>2. CASE FS!LaunchMonitor
      BY <2>4, <3>2 DEF CloseLast
    <3>3. CASE FS!DisplayReturn
      BY <2>4, <3>3 DEF CloseLast
    <3> QED
      BY <3>1, <3>2, <3>3
  <2>3. SentCounts'
    BY DEF SentCounts
  <2> QED
    BY <1>shown, <2>1, <2>2, <2>3
<1>2. CASE FS!RetrieveFeeds
  <2> USE <1>2 DEF FS!RetrieveFeeds
  <2>1. Matching = Feeds /\ Matching' = Matching
    BY DEF CloseLast, Matching
  <2>2. waitGroup' = Cardinality(Matching')
    BY <2>1, SameCardinality
  <2>3. FeedTypeOK'
    BY <1>0, <2>1, <2>2
  <2>4. CloseLast'
    BY <2>1, <2>2 DEF CloseLast
  <2>5. SentCounts' /\ Shown'
    BY DEF SentCounts, Shown
  <2> QED
    BY <2>3, <2>4, <2>5
<1>3. CASE FS!MonitorClose
  <2> USE <1>3 DEF FS!MonitorClose
  <2>1. Matching = {} /\ Matching' = Matching
    BY <1>0, FS_EmptySet DEF CloseLast, Matching
  <2>2. CloseLast'
    BY <2>1 DEF CloseLast
  <2> QED
    BY <2>2 DEF SentCounts, Shown
<1>4. ASSUME NEW f \in Feeds, FS!Launch(f) \/ FS!SearchOk(f) \/ FS!SearchError(f) \/ FS!MatchReturn(f)
      PROVE  FeedInv'
  <2> USE <1>4 DEF FS!Launch, FS!SearchOk, FS!SearchError, FS!MatchReturn
  <2>1. FeedTypeOK'
    <3>1. matchPc' \in [Feeds -> {"off", "search", "send", "done", "gone"}]
      OBVIOUS
    <3>2. found' \in [Feeds -> -1..MaxItems]
      <4>1. 0..MaxItems \subseteq -1..MaxItems /\ -1 \in -1..MaxItems
        OBVIOUS
      <4> QED
        BY <4>1
    <3> QED
      BY <3>1, <3>2
  <2>2. Matching' = Matching /\ f \in Matching
    BY DEF Matching
  <2>3. CloseLast'
    BY <2>2 DEF CloseLast
  <2>4. SentCounts'
    BY DEF SentCounts
  <2>5. Shown'
    BY <1>shown
  <2> QED
    BY <2>1, <2>3, <2>4, <2>5
<1>5. ASSUME NEW f \in Feeds, FS!SendDisplay(f) PROVE FeedInv'
  <2> USE <1>5 DEF FS!SendDisplay
  <2>1. sent[f] + 1 \in 1..MaxItems
    OBVIOUS
  <2>2. displayed' \in Seq(Feeds \X (1..MaxItems)) /\ Shown'
    BY <2>1, ShownNext
  <2>3. FeedTypeOK'
    BY <2>1, <2>2
  <2>4. CloseLast'
    BY DEF CloseLast, Matching
  <2>5. SentCounts'
    BY DEF SentCounts
  <2> QED
    BY <2>2, <2>3, <2>4, <2>5
<1>6. ASSUME NEW f \in Feeds, FS!Done(f) PROVE FeedInv'
  <2> USE <1>6 DEF FS!Done
  <2>1. FeedTypeOK'
    OBVIOUS
  <2>2. f \in Matching /\ Matching' = Matching \ {f}
    BY DEF Matching
  <2>3. Cardinality(Matching') = Cardinality(Matching) - 1
    BY <1>0, <2>2, FS_RemoveElement
  <2>4. CloseLast'
    BY <2>2, <2>3 DEF CloseLast
  <2>5. SentCounts' /\ Shown'
    BY DEF SentCounts, Shown
  <2> QED
    BY <2>1, <2>4, <2>5
<1>7. CASE UNCHANGED FS!vars
  <2> USE <1>7 DEF FS!vars
  <2>1. FeedTypeOK'
    OBVIOUS
  <2>2. CloseLast'
    BY DEF CloseLast, Matching
  <2>3. SentCounts'
    BY DEF SentCounts
  <2> QED
    BY <1>shown, <2>1, <2>2, <2>3
<1> QED
  BY <1>1, <1>2, <1>3, <1>4, <1>5, <1>6, <1>7 DEF FS!Next, FS!Ended

-----------------------------------------------------------------------------
(* The suite: each step is a step of one of the programs, and leaves the   *)
(* others alone                                                            *)

IInv == WorkInv /\ RunnerInv /\ SubmitInv /\ FeedInv

LEMMA Inductive == Spec => []IInv
<1>1. Init => IInv
  BY WorkInit, RunnerInit, SubmitInit, FeedInit DEF Init, IInv
<1>2. IInv /\ [Next]_vars => IInv'
  <2> SUFFICES ASSUME IInv, [Next]_vars PROVE IInv'
    OBVIOUS
  <2>1. /\ [WP!Next]_(WP!vars) /\ [RN!Next]_(RN!vars)
        /\ [SS!Next]_(SS!vars) /\ [FS!Next]_(FS!vars)
    BY DEF Next, Work, Run, Search, Feed, vars, wpVars, rnVars, ssVars, fsVars,
           WP!vars, RN!vars, SS!vars, FS!vars
  <2> QED
    BY <2>1, WorkStep, RunnerStep, SubmitStep, FeedStep DEF IInv
<1> QED
  BY <1>1, <1>2, PTL DEF Spec

\* work.go:46, chapter2/sample/search/search.go:51: however many goroutines
\* send, the channel they send on is closed after the last of them has returned.
THEOREM GoChannelClosedLast == Spec => []ChannelClosedLast
<1>1. IInv => ChannelClosedLast
  BY DEF IInv, WorkInv, WaitGroups, Submitting, FeedInv, CloseLast, Matching,
         ChannelClosedLast, WP!NoRunAfterClose, FS!NoSendAfterClose
<1> QED
  BY <1>1, Inductive, PTL

\* work.go, Shutdown: when it returns every task has been executed exactly once
\* and all workers have left, for any numbers of workers and tasks.
THEOREM GoShutdownCompletesWork == Spec => []ShutdownCompletesWork
<1>1. IInv => ShutdownCompletesWork
  BY GoAssumption DEF IInv, WorkInv, WorkTypeOK, WaitGroups, Submitting, WorkersLeft, HandedOver,
         ShutdownCompletesWork, WP!ShutdownCompletesWork
<1> QED
  BY <1>1, Inductive, PTL

\* runner.go, Start: nil means that all tasks have run and no interrupt came
\* before the last one, ErrInterrupt that one came and a task was left out.
THEOREM GoResultAgrees == Spec => []ResultAgrees
<1>1. IInv => ResultAgrees
  BY DEF IInv, RunnerInv, Reported, ResultAgrees, RN!ResultAgrees
<1> QED
  BY <1>1, Inductive, PTL

\* search.go of chapter 7, Submit, and search.go of chapter 2, Run: all results
\* of all searchers or exactly the first one; every result of every feed, once
\* and in its feed's order.
THEOREM GoResultsComplete == Spec => []ResultsComplete
<1>1. ASSUME SubmitInv PROVE SS!ResultsComplete
  <2> USE <1>1 DEF SubmitInv, SubmitTypeOK, ReceivedOnce, SearchCounts
  <2>1. IsFiniteSet(searchers) /\ SS!Cardinality(results) = Cardinality(results)
    BY GoAssumption, FS_Subset, SameCardinality
  <2>2. Cardinality(results) = Cardinality(searchers) => results = searchers
    BY <2>1, FS_Subset
  <2>3. Cardinality(searchers) = 0 <=> searchers = {}
    BY <2>1, FS_EmptySet
  <2>4. Cardinality(searchers) \in Nat
    BY <2>1, FS_CardinalityType
  <2> QED
    BY <2>1, <2>2, <2>3, <2>4 DEF SS!ResultsComplete
<1>2. ASSUME FeedInv PROVE FS!AllDisplayed
  <2> SUFFICES ASSUME mainPc = "returned", NEW f \in Feeds
               PROVE  LET mine == {k \in 1..Len(displayed) : displayed[k][1] = f}
                      IN  /\ matchPc[f] = "gone"
                          /\ {displayed[k][2] : k \in mine} = 1..(IF found[f] = -1 THEN 0 ELSE found[f])
                          /\ \A j, k \in mine : j < k => displayed[j][2] < displayed[k][2]
    BY DEF FS!AllDisplayed
  <2> DEFINE mine == {k \in 1..Len(displayed) : displayed[k][1] = f}
  <2> USE <1>2, GoAssumption DEF FeedInv, FeedTypeOK
  <2>1. matchPc[f] = "gone"
    BY DEF CloseLast, Matching
  <2>2. sent[f] = IF found[f] = -1 THEN 0 ELSE found[f]
    BY <2>1 DEF SentCounts
  <2>3. \A k \in mine : displayed[k][2] \in 1..sent[f]
    BY SMTT(30) DEF Shown
  <2>4. \A i \in 1..sent[f] : \E k \in mine : displayed[k][2] = i
    BY DEF Shown
  <2>6. \A j, k \in mine : j < k => displayed[j][2] < displayed[k][2]
    BY DEF Shown
  <2>5. {displayed[k][2] : k \in mine} = 1..sent[f]
    <3> HIDE <1>2, GoAssumption DEF FeedInv, FeedTypeOK, mine
    <3> QED
      BY <2>3, <2>4
  <2> QED
    BY <2>1, <2>2, <2>5, <2>6
<1>3. IInv => ResultsComplete
  BY <1>1, <1>2 DEF IInv, ResultsComplete
<1> QED
  BY <1>3, Inductive, PTL

-----------------------------------------------------------------------------
(***************************************************************************)
(* The resource pool (module Pool), for any number of clients and closers, *)
(* any capacity and any number of resources.                               *)
(***************************************************************************)
\* Where a goroutine holds the mutex, and where a client holds a resource.
LockInv ==
  /\ \A c \in Clients : pc[c] \in {"releasing", "sending"} => m = c
  /\ \A k \in Closers : pc[k] \in {"closing", "marked", "draining"} => m = k
  /\ \A c \in Clients : pc[c] \in {"using", "releasing", "sending"} <=> conn[c] # 0

\* The channel is closed only by a Close that has set p.closed, and the pool
\* stays open while a Release is past its check of p.closed.
ClosedInv ==
  /\ chanClosed => poolClosed
  /\ \A c \in Clients : pc[c] = "sending" => ~poolClosed
  /\ \A k \in Closers : pc[k] \in {"marked", "draining"} => poolClosed

\* Whatever is held or queued has been created, and is there only once.
HeldOwn ==
  /\ \A c \in Clients : conn[c] \in 0..idCounter
  /\ \A c, d \in Clients : conn[c] # 0 /\ conn[c] = conn[d] => c = d
QueueOwn ==
  /\ \A i \in 1..Len(resources) : resources[i] \in 1..idCounter
  /\ \A i, j \in 1..Len(resources) : resources[i] = resources[j] => i = j
Apart == \A c \in Clients : \A i \in 1..Len(resources) : conn[c] # resources[i]
OwnInv == HeldOwn /\ QueueOwn /\ Apart

\* How often a resource has been closed says where it is.
CntBound ==
  /\ \A r \in PL!ResIds : closeCnt[r] <= 1
  /\ \A r \in PL!ResIds : r > idCounter => closeCnt[r] = 0
OpenInv ==
  /\ \A c \in Clients : conn[c] # 0 => closeCnt[conn[c]] = 0
  /\ \A i \in 1..Len(resources) : closeCnt[resources[i]] = 0
Accounted ==
  \A r \in 1..idCounter :
     \/ closeCnt[r] > 0
     \/ \E c \in Clients : conn[c] = r
     \/ \E i \in 1..Len(resources) : resources[i] = r
CntInv == CntBound /\ OpenInv /\ Accounted

PoolInv == PL!TypeOK /\ LockInv /\ ClosedInv /\ OwnInv /\ CntInv
-----------------------------------------------------------------------------
\* Receiving from a buffer: what was at i + 1 is now at i.
LEMMA TailFacts ==
  ASSUME NEW S, NEW s \in Seq(S), s # <<>>
  PROVE  /\ Len(s) \in Nat /\ 1 \in 1..Len(s)
         /\ Head(s) = s[1] /\ Head(s) \in S
         /\ Tail(s) \in Seq(S) /\ Len(Tail(s)) = Len(s) - 1
         /\ \A i \in 1..Len(Tail(s)) : i + 1 \in 1..Len(s) /\ Tail(s)[i] = s[i + 1]
         /\ \A i \in 1..Len(s) :
               i = 1 \/ (i - 1 \in 1..Len(Tail(s)) /\ Tail(s)[i - 1] = s[i])
  OBVIOUS

\* Sending to a buffer: the new element is last, the others stay.
LEMMA AppendFacts ==
  ASSUME NEW S, NEW s \in Seq(S), NEW e \in S
  PROVE  /\ Len(s) \in Nat
         /\ Append(s, e) \in Seq(S) /\ Len(Append(s, e)) = Len(s) + 1
         /\ \A i \in 1..Len(s) : i \in 1..Len(Append(s, e)) /\ Append(s, e)[i] = s[i]
         /\ Append(s, e)[Len(s) + 1] = e
         /\ \A i \in 1..Len(Append(s, e)) : i \in 1..Len(s) \/ i = Len(s) + 1
  OBVIOUS

LEMMA PoolInit == PL!Init => PoolInv
<1> SUFFICES ASSUME PL!Init PROVE PoolInv
  OBVIOUS
<1> USE PoolAssumption DEF PL!Init
<1>1. PL!TypeOK
  <2>1. resources \in Seq(PL!ResIds) /\ Len(resources) = 0
    OBVIOUS
  <2>2. closeCnt \in [PL!ResIds -> Nat] /\ conn \in [Clients -> 0..MaxRes]
    BY DEF PL!ResIds
  <2>3. pc \in [PL!Procs -> {"idle", "callClose"}]
    BY DEF PL!Procs
  <2>4. m \in PL!Procs \cup {NoOne} /\ idCounter \in 0..MaxRes /\ 0 <= Size
    OBVIOUS
  <2>5. QED BY <2>1, <2>2, <2>3, <2>4 DEF PL!TypeOK
<1>2. LockInv /\ ClosedInv
  BY DEF LockInv, ClosedInv, PL!Procs
<1>3. OwnInv /\ CntInv
  BY DEF OwnInv, HeldOwn, QueueOwn, Apart, CntInv, CntBound, OpenInv, Accounted, PL!ResIds
<1>4. QED BY <1>1, <1>2, <1>3 DEF PoolInv

\* A step that moves no resource keeps what is known about resources.
LEMMA SameResources ==
  ASSUME OwnInv, CntInv, UNCHANGED <<resources, idCounter, conn, closeCnt>>
  PROVE  OwnInv' /\ CntInv'
  BY DEF OwnInv, HeldOwn, QueueOwn, Apart, CntInv, CntBound, OpenInv, Accounted

LEMMA PoolStep == PoolInv /\ [PL!Next]_(PL!vars) => PoolInv'
<1> SUFFICES ASSUME PoolInv, [PL!Next]_(PL!vars) PROVE PoolInv'
  OBVIOUS
<1>0. /\ PL!TypeOK /\ LockInv /\ ClosedInv /\ OwnInv /\ CntInv
      /\ HeldOwn /\ QueueOwn /\ Apart /\ CntBound /\ OpenInv /\ Accounted
  BY DEF PoolInv, OwnInv, CntInv
<1>a. /\ MaxRes \in Nat /\ idCounter \in Nat
      /\ \A r \in 1..idCounter : r \in PL!ResIds
      /\ \A r \in PL!ResIds : closeCnt[r] \in Nat
  BY <1>0, PoolAssumption DEF PL!TypeOK, PL!ResIds
<1> USE DEF PL!GoTo, PL!CloseResource
<1>1. ASSUME NEW c \in Clients, PL!AcquireShared(c) PROVE PoolInv'
  <2>1. /\ resources' \in Seq(PL!ResIds)
        /\ Len(resources) \in Nat /\ 1 \in 1..Len(resources)
        /\ Len(resources') = Len(resources) - 1
        /\ \A i \in 1..Len(resources') :
              i + 1 \in 1..Len(resources) /\ resources'[i] = resources[i + 1]
        /\ \A i \in 1..Len(resources) :
              i = 1 \/ (i - 1 \in 1..Len(resources') /\ resources'[i - 1] = resources[i])
    BY <1>0, <1>a, <1>1, TailFacts DEF PL!AcquireShared, PL!TypeOK
  <2>2. /\ resources[1] \in 1..idCounter /\ conn[c] = 0
        /\ conn'[c] = resources[1]
        /\ \A d \in Clients : d # c => conn'[d] = conn[d]
        /\ idCounter' = idCounter /\ closeCnt' = closeCnt /\ idCounter \in Nat
    BY <1>0, <1>a, <1>1, <2>1, TailFacts DEF PL!AcquireShared, PL!TypeOK, LockInv, QueueOwn
  <2>3. PL!TypeOK'
    BY <1>0, <1>1, <2>1, <2>2, PoolAssumption, SMTT(30) DEF PL!AcquireShared, PL!TypeOK, PL!Procs, PL!ResIds
  <2>4. LockInv' /\ ClosedInv'
    BY <1>0, <1>1, <2>2, PoolAssumption DEF PL!AcquireShared, PL!TypeOK, LockInv, ClosedInv, PL!Procs
  <2>5. HeldOwn'
    <3>1. \A d \in Clients : conn'[d] \in 0..idCounter'
      BY <1>0, <1>a, <2>1, <2>2 DEF HeldOwn
    <3>2. ASSUME NEW d \in Clients, NEW e \in Clients, conn'[d] # 0, conn'[d] = conn'[e]
          PROVE  d = e
      BY <1>0, <2>1, <2>2, <3>2 DEF HeldOwn, Apart
    <3>3. QED BY <3>1, <3>2 DEF HeldOwn
  <2>6. QueueOwn'
    BY <1>0, <1>a, <2>1, <2>2 DEF HeldOwn, QueueOwn, Apart
  <2>7. Apart'
    BY <1>0, <1>a, <2>1, <2>2 DEF HeldOwn, QueueOwn, Apart
  <2>8. CntBound'
    BY <1>0, <1>a, <2>1, <2>2 DEF CntBound, PL!ResIds
  <2>9. OpenInv'
    <3>1. \A d \in Clients : conn'[d] # 0 => closeCnt'[conn'[d]] = 0
      BY <1>0, <2>1, <2>2 DEF OpenInv
    <3>2. \A i \in 1..Len(resources') : closeCnt'[resources'[i]] = 0
      BY <1>0, <2>1, <2>2 DEF OpenInv
    <3>3. QED BY <3>1, <3>2 DEF OpenInv
  <2>10. Accounted'
    <3> SUFFICES ASSUME NEW r \in 1..idCounter, closeCnt'[r] = 0
                 PROVE  \/ \E d \in Clients : conn'[d] = r
                        \/ \E i \in 1..Len(resources') : resources'[i] = r
      BY <1>a, <2>2 DEF Accounted
    <3>1. CASE \E d \in Clients : conn[d] = r
      BY <1>a, <2>1, <2>2, <3>1
    <3>2. CASE \E i \in 1..Len(resources) : resources[i] = r
      <4>1. PICK i \in 1..Len(resources) : resources[i] = r
        BY <3>2
      <4>2. CASE i = 1
        BY <2>2, <4>1, <4>2
      <4>3. CASE i - 1 \in 1..Len(resources') /\ resources'[i - 1] = resources[i]
        BY <4>1, <4>3
      <4>4. QED BY <2>1, <4>2, <4>3
    <3>3. closeCnt[r] = 0
      BY <1>a, <2>2
    <3>4. QED BY <1>0, <1>a, <3>1, <3>2, <3>3 DEF Accounted
  <2>11. QED
    BY <2>3, <2>4, <2>5, <2>6, <2>7, <2>8, <2>9, <2>10 DEF PoolInv, OwnInv, CntInv
<1>2. ASSUME NEW c \in Clients, PL!AcquireErrPoolClosed(c) PROVE PoolInv'
  <2>1. PL!TypeOK'
    BY <1>0, <1>2, PoolAssumption DEF PL!AcquireErrPoolClosed, PL!TypeOK, PL!Procs
  <2>2. LockInv' /\ ClosedInv'
    BY <1>0, <1>2, PoolAssumption DEF PL!AcquireErrPoolClosed, PL!TypeOK, LockInv, ClosedInv, PL!Procs
  <2>3. QED BY <1>0, <1>2, <2>1, <2>2, SameResources DEF PL!AcquireErrPoolClosed, PoolInv
<1>3. ASSUME NEW c \in Clients, PL!AcquireDefault(c) PROVE PoolInv'
  <2>1. PL!TypeOK'
    BY <1>0, <1>3, PoolAssumption DEF PL!AcquireDefault, PL!TypeOK, PL!Procs
  <2>2. LockInv' /\ ClosedInv'
    BY <1>0, <1>3, PoolAssumption DEF PL!AcquireDefault, PL!TypeOK, LockInv, ClosedInv, PL!Procs
  <2>3. QED BY <1>0, <1>3, <2>1, <2>2, SameResources DEF PL!AcquireDefault, PoolInv
<1>4. ASSUME NEW c \in Clients, PL!FactoryNew(c) PROVE PoolInv'
  <2>1. resources' = resources /\ closeCnt' = closeCnt /\ Len(resources) \in Nat
    BY <1>0, <1>a, <1>4 DEF PL!FactoryNew, PL!TypeOK
  <2>2. /\ idCounter + 1 \in PL!ResIds /\ conn[c] = 0
        /\ idCounter' = idCounter + 1 /\ conn'[c] = idCounter + 1
        /\ \A d \in Clients : d # c => conn'[d] = conn[d]
    <3>1. pc[c] = "factory" /\ idCounter < MaxRes
      BY <1>4 DEF PL!FactoryNew
    <3>2. conn[c] = 0 /\ conn \in [Clients -> 0..MaxRes]
      BY <1>0, <3>1 DEF LockInv, PL!TypeOK
    <3>3. idCounter + 1 \in PL!ResIds
      BY <1>a, <3>1 DEF PL!ResIds
    <3>4. QED BY <1>4, <3>2, <3>3 DEF PL!FactoryNew
  <2>3. PL!TypeOK'
    BY <1>0, <1>4, <2>1, <2>2, PoolAssumption DEF PL!FactoryNew, PL!TypeOK, PL!Procs, PL!ResIds
  <2>4. LockInv' /\ ClosedInv'
    BY <1>0, <1>4, <2>2, PoolAssumption DEF PL!FactoryNew, PL!TypeOK, LockInv, ClosedInv, PL!Procs
  <2>5. HeldOwn'
    BY <1>0, <1>a, <2>1, <2>2 DEF HeldOwn, QueueOwn, Apart
  <2>6. QueueOwn'
    BY <1>0, <1>a, <2>1, <2>2 DEF HeldOwn, QueueOwn, Apart
  <2>7. Apart'
    BY <1>0, <1>a, <2>1, <2>2 DEF HeldOwn, QueueOwn, Apart
  <2>8. CntBound'
    BY <1>0, <1>a, <2>1, <2>2 DEF CntBound, PL!ResIds
  <2>9. OpenInv'
    BY <1>0, <1>a, <2>1, <2>2 DEF HeldOwn, QueueOwn, Apart, CntBound, OpenInv
  <2>10. Accounted'
    BY <1>0, <1>a, <2>1, <2>2 DEF Accounted
  <2>11. QED
    BY <2>3, <2>4, <2>5, <2>6, <2>7, <2>8, <2>9, <2>10 DEF PoolInv, OwnInv, CntInv
<1>5. ASSUME NEW c \in Clients, PL!FactoryError(c) PROVE PoolInv'
  <2>1. PL!TypeOK'
    BY <1>0, <1>5, PoolAssumption DEF PL!FactoryError, PL!TypeOK, PL!Procs
  <2>2. LockInv' /\ ClosedInv'
    BY <1>0, <1>5, PoolAssumption DEF PL!FactoryError, PL!TypeOK, LockInv, ClosedInv, PL!Procs
  <2>3. QED BY <1>0, <1>5, <2>1, <2>2, SameResources DEF PL!FactoryError, PoolInv
<1>6. ASSUME NEW c \in Clients, PL!ReleaseLock(c) PROVE PoolInv'
  <2>1. PL!TypeOK'
    BY <1>0, <1>6, PoolAssumption DEF PL!ReleaseLock, PL!TypeOK, PL!Procs
  <2>2. LockInv' /\ ClosedInv'
    BY <1>0, <1>6, PoolAssumption DEF PL!ReleaseLock, PL!TypeOK, LockInv, ClosedInv, PL!Procs
  <2>3. QED BY <1>0, <1>6, <2>1, <2>2, SameResources DEF PL!ReleaseLock, PoolInv
<1>7. ASSUME NEW c \in Clients, PL!ReleaseClosed(c) PROVE PoolInv'
  <2>1. resources' = resources /\ idCounter' = idCounter /\ Len(resources) \in Nat
    BY <1>0, <1>a, <1>7 DEF PL!ReleaseClosed, PL!TypeOK
  <2>2. /\ conn[c] \in 1..idCounter /\ conn[c] \in PL!ResIds /\ conn'[c] = 0
        /\ \A d \in Clients : d # c => conn'[d] = conn[d]
        /\ closeCnt'[conn[c]] = 1
        /\ \A r \in PL!ResIds : r # conn[c] => closeCnt'[r] = closeCnt[r]
    BY <1>0, <1>a, <1>7 DEF PL!ReleaseClosed, PL!TypeOK, LockInv, HeldOwn, OpenInv, PL!ResIds
  <2>3. PL!TypeOK'
    BY <1>0, <1>7, <2>1, <2>2, PoolAssumption DEF PL!ReleaseClosed, PL!TypeOK, PL!Procs, PL!ResIds
  <2>4. LockInv' /\ ClosedInv'
    BY <1>0, <1>7, <2>2, PoolAssumption DEF PL!ReleaseClosed, PL!TypeOK, LockInv, ClosedInv, PL!Procs
  <2>5. HeldOwn'
    <3>1. \A d \in Clients : conn'[d] \in 0..idCounter'
      BY <1>0, <1>a, <2>1, <2>2 DEF HeldOwn
    <3>2. ASSUME NEW d \in Clients, NEW e \in Clients, conn'[d] # 0, conn'[d] = conn'[e]
          PROVE  d = e
      BY <1>0, <2>1, <2>2, <3>2 DEF HeldOwn, Apart
    <3>3. QED BY <3>1, <3>2 DEF HeldOwn
  <2>6. QueueOwn'
    BY <1>0, <1>a, <2>1, <2>2 DEF HeldOwn, QueueOwn, Apart
  <2>7. Apart'
    BY <1>0, <1>a, <2>1, <2>2 DEF HeldOwn, QueueOwn, Apart
  <2>8. CntBound'
    BY <1>0, <1>a, <2>1, <2>2 DEF CntBound, PL!ResIds
  <2>9. OpenInv'
    BY <1>0, <1>a, <2>1, <2>2, SMTT(30) DEF HeldOwn, QueueOwn, Apart, CntBound, OpenInv
  <2>10. Accounted'
    BY <1>0, <1>a, <2>1, <2>2 DEF Accounted
  <2>11. QED
    BY <2>3, <2>4, <2>5, <2>6, <2>7, <2>8, <2>9, <2>10 DEF PoolInv, OwnInv, CntInv
<1>8. ASSUME NEW c \in Clients, PL!ReleaseOpen(c) PROVE PoolInv'
  <2>1. PL!TypeOK'
    BY <1>0, <1>8, PoolAssumption DEF PL!ReleaseOpen, PL!TypeOK, PL!Procs
  <2>2. LockInv' /\ ClosedInv'
    BY <1>0, <1>8, PoolAssumption DEF PL!ReleaseOpen, PL!TypeOK, LockInv, ClosedInv, PL!Procs
  <2>3. QED BY <1>0, <1>8, <2>1, <2>2, SameResources DEF PL!ReleaseOpen, PoolInv
<1>9. ASSUME NEW c \in Clients, PL!ReleaseQueue(c) PROVE PoolInv'
  <2>1. /\ resources' \in Seq(PL!ResIds)
        /\ Len(resources) \in Nat
        /\ Len(resources') = Len(resources) + 1
        /\ \A i \in 1..Len(resources) : i \in 1..Len(resources') /\ resources'[i] = resources[i]
        /\ resources'[Len(resources) + 1] = conn[c]
        /\ \A i \in 1..Len(resources') : i \in 1..Len(resources) \/ i = Len(resources) + 1
    BY <1>0, <1>a, <1>9, AppendFacts DEF PL!ReleaseQueue, PL!TypeOK, LockInv, PL!ResIds
  <2>2. /\ conn[c] \in 1..idCounter /\ conn'[c] = 0
        /\ \A d \in Clients : d # c => conn'[d] = conn[d]
        /\ idCounter' = idCounter /\ closeCnt' = closeCnt /\ idCounter \in Nat
    BY <1>0, <1>a, <1>9 DEF PL!ReleaseQueue, PL!TypeOK, LockInv, HeldOwn
  <2>3. PL!TypeOK'
    BY <1>0, <1>9, <2>1, <2>2, PoolAssumption DEF PL!ReleaseQueue, PL!TypeOK, PL!Procs, PL!ResIds
  <2>4. LockInv' /\ ClosedInv'
    BY <1>0, <1>9, <2>2, PoolAssumption DEF PL!ReleaseQueue, PL!TypeOK, LockInv, ClosedInv, PL!Procs
  <2>5. HeldOwn'
    BY <1>0, <1>a, <2>1, <2>2, SMTT(30) DEF HeldOwn, QueueOwn, Apart
  <2>6. QueueOwn'
    <3>1. \A i \in 1..Len(resources') : resources'[i] \in 1..idCounter'
      BY <1>0, <2>1, <2>2 DEF QueueOwn
    <3>2. ASSUME NEW i \in 1..Len(resources'), NEW j \in 1..Len(resources'),
                 resources'[i] = resources'[j]
          PROVE  i = j
      BY <1>0, <2>1, <3>2 DEF QueueOwn, Apart
    <3>3. QED BY <3>1, <3>2 DEF QueueOwn
  <2>7. Apart'
    BY <1>0, <1>a, <2>1, <2>2 DEF HeldOwn, QueueOwn, Apart
  <2>8. CntBound'
    BY <1>0, <1>a, <2>1, <2>2 DEF CntBound, PL!ResIds
  <2>9. OpenInv'
    <3>1. closeCnt[conn[c]] = 0
      BY <1>0, <2>2 DEF OpenInv
    <3>2. \A d \in Clients : conn'[d] # 0 => closeCnt'[conn'[d]] = 0
      BY <1>0, <2>2 DEF OpenInv
    <3>3. \A i \in 1..Len(resources') : closeCnt'[resources'[i]] = 0
      BY <1>0, <2>1, <2>2, <3>1 DEF OpenInv
    <3>4. QED BY <3>2, <3>3 DEF OpenInv
  <2>10. Accounted'
    <3> SUFFICES ASSUME NEW r \in 1..idCounter, closeCnt'[r] = 0
                 PROVE  \/ \E d \in Clients : conn'[d] = r
                        \/ \E i \in 1..Len(resources') : resources'[i] = r
      BY <1>a, <2>2, SMTT(30) DEF Accounted
    <3>1. CASE \E d \in Clients : conn[d] = r
      BY <1>a, <2>1, <2>2, <3>1
    <3>2. CASE \E i \in 1..Len(resources) : resources[i] = r
      BY <2>1, <3>2
    <3>3. closeCnt[r] = 0
      BY <1>a, <2>2
    <3>4. QED BY <1>0, <1>a, <3>1, <3>2, <3>3 DEF Accounted
  <2>11. QED
    BY <2>3, <2>4, <2>5, <2>6, <2>7, <2>8, <2>9, <2>10 DEF PoolInv, OwnInv, CntInv
<1>10. ASSUME NEW c \in Clients, PL!ReleaseFull(c) PROVE PoolInv'
  <2>1. resources' = resources /\ idCounter' = idCounter /\ Len(resources) \in Nat
    BY <1>0, <1>a, <1>10 DEF PL!ReleaseFull, PL!TypeOK
  <2>2. /\ conn[c] \in 1..idCounter /\ conn[c] \in PL!ResIds /\ conn'[c] = 0
        /\ \A d \in Clients : d # c => conn'[d] = conn[d]
        /\ closeCnt'[conn[c]] = 1
        /\ \A r \in PL!ResIds : r # conn[c] => closeCnt'[r] = closeCnt[r]
    BY <1>0, <1>a, <1>10 DEF PL!ReleaseFull, PL!TypeOK, LockInv, HeldOwn, OpenInv, PL!ResIds
  <2>3. PL!TypeOK'
    BY <1>0, <1>10, <2>1, <2>2, PoolAssumption, SMTT(30) DEF PL!ReleaseFull, PL!TypeOK, PL!Procs, PL!ResIds
  <2>4. LockInv' /\ ClosedInv'
    BY <1>0, <1>10, <2>2, PoolAssumption DEF PL!ReleaseFull, PL!TypeOK, LockInv, ClosedInv, PL!Procs
  <2>5. HeldOwn'
    <3>1. \A d \in Clients : conn'[d] \in 0..idCounter'
      BY <1>0, <1>a, <2>1, <2>2 DEF HeldOwn
    <3>2. ASSUME NEW d \in Clients, NEW e \in Clients, conn'[d] # 0, conn'[d] = conn'[e]
          PROVE  d = e
      BY <1>0, <2>1, <2>2, <3>2 DEF HeldOwn, Apart
    <3>3. QED BY <3>1, <3>2 DEF HeldOwn
  <2>6. QueueOwn'
    BY <1>0, <1>a, <2>1, <2>2 DEF HeldOwn, QueueOwn, Apart
  <2>7. Apart'
    BY <1>0, <1>a, <2>1, <2>2 DEF HeldOwn, QueueOwn, Apart
  <2>8. CntBound'
    BY <1>0, <1>a, <2>1, <2>2 DEF CntBound, PL!ResIds
  <2>9. OpenInv'
    BY <1>0, <1>a, <2>1, <2>2, SMTT(30) DEF HeldOwn, QueueOwn, Apart, CntBound, OpenInv
  <2>10. Accounted'
    BY <1>0, <1>a, <2>1, <2>2 DEF Accounted
  <2>11. QED
    BY <2>3, <2>4, <2>5, <2>6, <2>7, <2>8, <2>9, <2>10 DEF PoolInv, OwnInv, CntInv
<1>11. ASSUME NEW k \in Closers, PL!CloseLock(k) PROVE PoolInv'
  <2>1. PL!TypeOK'
    BY <1>0, <1>11, PoolAssumption DEF PL!CloseLock, PL!TypeOK, PL!Procs
  <2>2. LockInv' /\ ClosedInv'
    BY <1>0, <1>11, PoolAssumption DEF PL!CloseLock, PL!TypeOK, LockInv, ClosedInv, PL!Procs
  <2>3. QED BY <1>0, <1>11, <2>1, <2>2, SameResources DEF PL!CloseLock, PoolInv
<1>12. ASSUME NEW k \in Closers, PL!CloseAgain(k) PROVE PoolInv'
  <2>1. PL!TypeOK'
    BY <1>0, <1>12, PoolAssumption DEF PL!CloseAgain, PL!TypeOK, PL!Procs
  <2>2. LockInv' /\ ClosedInv'
    BY <1>0, <1>12, PoolAssumption DEF PL!CloseAgain, PL!TypeOK, LockInv, ClosedInv, PL!Procs
  <2>3. QED BY <1>0, <1>12, <2>1, <2>2, SameResources DEF PL!CloseAgain, PoolInv
<1>13. ASSUME NEW k \in Closers, PL!CloseMark(k) PROVE PoolInv'
  <2>1. PL!TypeOK'
    BY <1>0, <1>13, PoolAssumption DEF PL!CloseMark, PL!TypeOK, PL!Procs
  <2>2. LockInv' /\ ClosedInv'
    BY <1>0, <1>13, PoolAssumption DEF PL!CloseMark, PL!TypeOK, LockInv, ClosedInv, PL!Procs
  <2>3. QED BY <1>0, <1>13, <2>1, <2>2, SameResources DEF PL!CloseMark, PoolInv
<1>14. ASSUME NEW k \in Closers, PL!CloseChannel(k) PROVE PoolInv'
  <2>1. PL!TypeOK'
    BY <1>0, <1>14, PoolAssumption DEF PL!CloseChannel, PL!TypeOK, PL!Procs
  <2>2. LockInv' /\ ClosedInv'
    BY <1>0, <1>14, PoolAssumption DEF PL!CloseChannel, PL!TypeOK, LockInv, ClosedInv, PL!Procs
  <2>3. QED BY <1>0, <1>14, <2>1, <2>2, SameResources DEF PL!CloseChannel, PoolInv
<1>15. ASSUME NEW k \in Closers, PL!CloseDrain(k) PROVE PoolInv'
  <2>1. /\ resources' \in Seq(PL!ResIds)
        /\ Len(resources) \in Nat /\ 1 \in 1..Len(resources)
        /\ Len(resources') = Len(resources) - 1
        /\ \A i \in 1..Len(resources') :
              i + 1 \in 1..Len(resources) /\ resources'[i] = resources[i + 1]
        /\ \A i \in 1..Len(resources) :
              i = 1 \/ (i - 1 \in 1..Len(resources') /\ resources'[i - 1] = resources[i])
    BY <1>0, <1>a, <1>15, TailFacts DEF PL!CloseDrain, PL!TypeOK
  <2>2. /\ resources[1] \in 1..idCounter /\ resources[1] \in PL!ResIds
        /\ conn' = conn /\ idCounter' = idCounter
        /\ closeCnt'[resources[1]] = 1
        /\ \A r \in PL!ResIds : r # resources[1] => closeCnt'[r] = closeCnt[r]
    BY <1>0, <1>a, <1>15, <2>1, TailFacts DEF PL!CloseDrain, PL!TypeOK, QueueOwn, OpenInv, PL!ResIds
  <2>3. PL!TypeOK'
    BY <1>0, <1>15, <2>1, <2>2, PoolAssumption, SMTT(30) DEF PL!CloseDrain, PL!TypeOK, PL!Procs, PL!ResIds
  <2>4. LockInv' /\ ClosedInv'
    BY <1>0, <1>15, <2>2, PoolAssumption DEF PL!CloseDrain, PL!TypeOK, LockInv, ClosedInv, PL!Procs
  <2>5. HeldOwn'
    BY <1>0, <1>a, <2>1, <2>2 DEF HeldOwn, QueueOwn, Apart
  <2>6. QueueOwn'
    BY <1>0, <1>a, <2>1, <2>2 DEF HeldOwn, QueueOwn, Apart
  <2>7. Apart'
    BY <1>0, <1>a, <2>1, <2>2 DEF HeldOwn, QueueOwn, Apart
  <2>8. CntBound'
    <3>1. \A r \in PL!ResIds : closeCnt'[r] <= 1
      BY <1>0, <2>2 DEF CntBound
    <3>2. ASSUME NEW r \in PL!ResIds, r > idCounter' PROVE closeCnt'[r] = 0
      BY <1>0, <1>a, <2>2, <3>2 DEF CntBound, PL!ResIds
    <3>3. QED BY <3>1, <3>2 DEF CntBound
  <2>9. OpenInv'
    <3>1. \A d \in Clients : conn'[d] # 0 => closeCnt'[conn'[d]] = 0
      BY <1>0, <1>a, <2>1, <2>2 DEF OpenInv, HeldOwn, Apart
    <3>2. ASSUME NEW i \in 1..Len(resources') PROVE closeCnt'[resources'[i]] = 0
      <4>1. i + 1 \in 1..Len(resources) /\ i + 1 # 1 /\ resources'[i] = resources[i + 1]
        BY <2>1
      <4>2. resources'[i] # resources[1] /\ resources'[i] \in PL!ResIds
        BY <1>0, <1>a, <2>1, <4>1 DEF QueueOwn
      <4>3. QED BY <1>0, <2>2, <4>1, <4>2 DEF OpenInv
    <3>3. QED BY <3>1, <3>2 DEF OpenInv
  <2>10. Accounted'
    <3> SUFFICES ASSUME NEW r \in 1..idCounter, closeCnt'[r] = 0
                 PROVE  \/ \E d \in Clients : conn'[d] = r
                        \/ \E i \in 1..Len(resources') : resources'[i] = r
      BY <1>a, <2>2 DEF Accounted
    <3>1. CASE \E d \in Clients : conn[d] = r
      BY <1>a, <2>1, <2>2, <3>1
    <3>2. CASE \E i \in 1..Len(resources) : resources[i] = r
      <4>1. PICK i \in 1..Len(resources) : resources[i] = r
        BY <3>2
      <4>2. CASE i = 1
        BY <2>2, <4>1, <4>2
      <4>3. CASE i - 1 \in 1..Len(resources') /\ resources'[i - 1] = resources[i]
        BY <4>1, <4>3
      <4>4. QED BY <2>1, <4>2, <4>3
    <3>3. closeCnt[r] = 0
      BY <1>a, <2>2
    <3>4. QED BY <1>0, <1>a, <3>1, <3>2, <3>3 DEF Accounted
  <2>11. QED
    BY <2>3, <2>4, <2>5, <2>6, <2>7, <2>8, <2>9, <2>10 DEF PoolInv, OwnInv, CntInv
<1>16. ASSUME NEW k \in Closers, PL!CloseReturn(k) PROVE PoolInv'
  <2>1. PL!TypeOK'
    BY <1>0, <1>16, PoolAssumption DEF PL!CloseReturn, PL!TypeOK, PL!Procs
  <2>2. LockInv' /\ ClosedInv'
    BY <1>0, <1>16, PoolAssumption DEF PL!CloseReturn, PL!TypeOK, LockInv, ClosedInv, PL!Procs
  <2>3. QED BY <1>0, <1>16, <2>1, <2>2, SameResources DEF PL!CloseReturn, PoolInv
<1>17. ASSUME UNCHANGED PL!vars PROVE PoolInv'
  <2>1. PL!TypeOK' /\ LockInv' /\ ClosedInv'
    BY <1>0, <1>17 DEF PL!vars, PL!TypeOK, LockInv, ClosedInv
  <2>2. QED BY <1>0, <1>17, <2>1, SameResources DEF PL!vars, PoolInv
<1>18. QED
  BY <1>1, <1>2, <1>3, <1>4, <1>5, <1>6, <1>7, <1>8, <1>9,
     <1>10, <1>11, <1>12, <1>13, <1>14, <1>15, <1>16, <1>17
  DEF PL!Next, PL!Acquire, PL!Release, PL!Close, PL!AllReturned

\* The inductive invariant holds in every reachable state of the pool.
LEMMA PoolInvariant == PoolSpec => []PoolInv
  BY PoolInit, PoolStep, PTL DEF PoolSpec, PL!Spec

-----------------------------------------------------------------------------
(* What the invariant says of the properties that TLC checks *)

\* The pool's fields keep their types; in particular the channel never holds
\* more than its capacity.
THEOREM PoolTypeOK == PoolSpec => []PL!TypeOK
<1>1. PoolInv => PL!TypeOK
  BY DEF PoolInv
<1>2. QED BY <1>1, PoolInvariant, PTL

\* No two goroutines ever share a resource, whatever the number of clients,
\* of closers and of resources.
THEOREM PoolExclusive == PoolSpec => []Exclusive
<1>1. PoolInv => Exclusive
  <2> SUFFICES ASSUME PoolInv PROVE Exclusive
    OBVIOUS
  <2>1. HeldOwn /\ QueueOwn /\ Apart
    BY DEF PoolInv, OwnInv
  <2>2. PL!Held \cap PL!Queued = {}
    BY <2>1 DEF PL!Held, PL!Queued, Apart
  <2>3. QED BY <2>1, <2>2 DEF Exclusive, PL!Exclusive, HeldOwn, QueueOwn
<1>2. QED BY <1>1, PoolInvariant, PTL

\* No resource is closed twice or closed while somebody can still use it.
THEOREM PoolClosedOnce == PoolSpec => []ClosedOnce
<1>1. PoolInv => ClosedOnce
  <2> SUFFICES ASSUME PoolInv PROVE ClosedOnce
    OBVIOUS
  <2>1. CntBound /\ OpenInv
    BY DEF PoolInv, CntInv
  <2>2. \A r \in PL!Held \cup PL!Queued : closeCnt[r] = 0
    BY <2>1 DEF PL!Held, PL!Queued, OpenInv
  <2>3. QED BY <2>1, <2>2 DEF ClosedOnce, PL!ClosedOnce, CntBound
<1>2. QED BY <1>1, PoolInvariant, PTL

\* Every resource created is held, queued or closed: none leaks.
THEOREM PoolNoneLost == PoolSpec => []NoneLost
<1>1. PoolInv => NoneLost
  <2> SUFFICES ASSUME PoolInv PROVE NoneLost
    OBVIOUS
  <2>1. PL!TypeOK /\ HeldOwn /\ QueueOwn /\ CntBound /\ Accounted
    BY DEF PoolInv, OwnInv, CntInv
  <2>2. idCounter \in Nat /\ \A r \in PL!ResIds : closeCnt[r] \in Nat /\ r \in Nat /\ r >= 1
    BY <2>1, PoolAssumption DEF PL!TypeOK, PL!ResIds
  <2>3. PL!Held \subseteq PL!Created
    BY <2>1, <2>2 DEF PL!Held, PL!Created, HeldOwn
  <2>4. PL!Queued \subseteq PL!Created
    BY <2>1 DEF PL!Queued, PL!Created, QueueOwn
  <2>5. {r \in PL!ResIds : closeCnt[r] > 0} \subseteq PL!Created
    BY <2>1, <2>2 DEF PL!Created, CntBound
  <2>6. ASSUME NEW r \in PL!Created PROVE r \in PL!Held \cup PL!Queued \cup {s \in PL!ResIds : closeCnt[s] > 0}
    <3>1. r \in PL!ResIds /\ r # 0
      BY <2>1, PoolAssumption DEF PL!TypeOK, PL!Created, PL!ResIds
    <3>2. QED BY <2>1, <3>1 DEF Accounted, PL!Created, PL!Held, PL!Queued
  <2>7. QED BY <2>3, <2>4, <2>5, <2>6 DEF NoneLost, PL!NoneLost
<1>2. QED BY <1>1, PoolInvariant, PTL

\* Release never sends on a closed channel: the panic cannot happen.
THEOREM PoolNoSendOnClosed == PoolSpec => []NoSendOnClosed
<1>1. PoolInv => NoSendOnClosed
  BY DEF PoolInv, ClosedInv, NoSendOnClosed, PL!NoSendOnClosed
<1>2. QED BY <1>1, PoolInvariant, PTL

-----------------------------------------------------------------------------
(* The reader/writer semaphore *)

Reading == {r \in Readers : rpc[r] = "reading"}
Running == {r \in Readers : rpc[r] # "done"}

\* Every value in the channel belongs to a reader or to the writer.
SemInv ==
  /\ readerControl = Cardinality(RW!Locked) + buffer
  /\ writerPc = "writing" => buffer = MaxReads
  /\ writerPc \in {"loop", "done"} => buffer = 0

\* The counters agree with the goroutines' places.
CountInv ==
  /\ write = IF writerPc \in {"acquiring", "writing", "releasing"} THEN 1 ELSE 0
  /\ currentReads = Cardinality(Reading)
  /\ reportShutdown = Cardinality(Running) + IF writerPc = "done" THEN 0 ELSE 1
  /\ stopPc = "ended" => reportShutdown = 0

SemaphoreInv == RW!TypeOK /\ SemInv /\ CountInv

\* The counts of the readers that own a buffer, that read, that still run.
LEMMA CountTypes ==
  /\ Cardinality(RW!Locked) \in Nat /\ Cardinality(Reading) \in Nat
  /\ Cardinality(Running) \in Nat /\ Cardinality(Running) <= Cardinality(Readers)
  /\ Cardinality(Readers) \in Nat /\ RW!Cardinality(Readers) = Cardinality(Readers)
  BY SameCardinality, RWAssumption, FS_Subset, FS_CardinalityType DEF RW!Locked, Reading, Running

LEMMA SemaphoreInit == RW!Init => SemaphoreInv
<1> SUFFICES ASSUME RW!Init PROVE SemaphoreInv
  OBVIOUS
<1>1. RW!Locked = {} /\ Reading = {} /\ Running = Readers
  BY DEF RW!Init, RW!Locked, Reading, Running
<1>2. Cardinality({}) = 0 /\ Cardinality(Readers) \in Nat /\ RW!Cardinality(Readers) = Cardinality(Readers)
  BY CountTypes, FS_EmptySet
<1>3. RW!TypeOK
  <2>1. rpc \in [Readers -> {"loop"}]
    BY DEF RW!Init
  <2>2. reportShutdown \in 0..(Cardinality(Readers) + 1)
    BY <1>2 DEF RW!Init
  <2>3. write \in 0..1 /\ readerControl \in 0..MaxReads /\ buffer \in 0..MaxReads /\ currentReads \in Int
    BY RWAssumption DEF RW!Init
  <2>4. shutdown \in BOOLEAN /\ panicked \in BOOLEAN /\ writerPc = "loop" /\ stopPc = "sleep"
    BY DEF RW!Init
  <2>5. QED BY <1>2, <2>1, <2>2, <2>3, <2>4 DEF RW!TypeOK
<1>4. SemInv /\ CountInv
  BY <1>1, <1>2 DEF RW!Init, SemInv, CountInv
<1>5. QED BY <1>3, <1>4 DEF SemaphoreInv

LEMMA SemaphoreStep == SemaphoreInv /\ [RW!Next]_(RW!vars) => SemaphoreInv'
<1> SUFFICES ASSUME SemaphoreInv, [RW!Next]_(RW!vars) PROVE SemaphoreInv'
  OBVIOUS
<1>0. RW!TypeOK /\ SemInv /\ CountInv
  BY DEF SemaphoreInv
<1> USE DEF RW!ReaderGoTo, RW!WriterGoTo, RW!Alive
<1>1. ASSUME NEW r \in Readers, RW!ReaderShutdown(r) PROVE SemaphoreInv'
  <2>1. /\ RW!Locked' = RW!Locked
        /\ Reading' = Reading
        /\ r \in Running /\ Running' = Running \ {r}
    BY <1>0, <1>1 DEF RW!ReaderShutdown, RW!TypeOK, RW!Locked, Reading, Running
  <2>2. /\ Cardinality(RW!Locked') = Cardinality(RW!Locked)
        /\ Cardinality(Reading') = Cardinality(Reading)
        /\ Cardinality(Running') = Cardinality(Running) - 1
        /\ Cardinality(Running) >= 1
    <3>1. Cardinality(Running') = Cardinality(Running) - 1 /\ Cardinality(Running') \in Nat /\ Cardinality(Running) \in Nat
      BY <2>1, RWAssumption, FS_RemoveElement, FS_Subset, FS_CardinalityType DEF Running
    <3>2. QED BY <2>1, <3>1
  <2>3. RW!TypeOK'
    BY <1>0, <1>1, <2>2, CountTypes, RWAssumption DEF RW!ReaderShutdown, RW!TypeOK, CountInv
  <2>4. SemInv' /\ CountInv'
    BY <1>0, <1>1, <2>2, CountTypes, RWAssumption DEF RW!ReaderShutdown, RW!TypeOK, SemInv, CountInv
  <2>5. QED BY <2>3, <2>4 DEF SemaphoreInv
<1>2. ASSUME NEW r \in Readers, RW!PerformRead(r) PROVE SemaphoreInv'
  <2>1. /\ RW!Locked' = RW!Locked
        /\ Reading' = Reading
        /\ Running' = Running
    BY <1>0, <1>2 DEF RW!PerformRead, RW!TypeOK, RW!Locked, Reading, Running
  <2>2. /\ Cardinality(RW!Locked') = Cardinality(RW!Locked)
        /\ Cardinality(Reading') = Cardinality(Reading)
        /\ Cardinality(Running') = Cardinality(Running)
    BY <2>1
  <2>3. RW!TypeOK'
    BY <1>0, <1>2, <2>2, CountTypes, RWAssumption DEF RW!PerformRead, RW!TypeOK, CountInv
  <2>4. SemInv' /\ CountInv'
    BY <1>0, <1>2, <2>2, CountTypes, RWAssumption DEF RW!PerformRead, RW!TypeOK, SemInv, CountInv
  <2>5. QED BY <2>3, <2>4 DEF SemaphoreInv
<1>3. ASSUME NEW r \in Readers, RW!ReadLockWait(r) PROVE SemaphoreInv'
  <2>1. /\ RW!Locked' = RW!Locked
        /\ Reading' = Reading
        /\ Running' = Running
    BY <1>0, <1>3 DEF RW!ReadLockWait, RW!TypeOK, RW!Locked, Reading, Running
  <2>2. /\ Cardinality(RW!Locked') = Cardinality(RW!Locked)
        /\ Cardinality(Reading') = Cardinality(Reading)
        /\ Cardinality(Running') = Cardinality(Running)
    BY <2>1
  <2>3. RW!TypeOK'
    BY <1>0, <1>3, <2>2, CountTypes, RWAssumption DEF RW!ReadLockWait, RW!TypeOK, CountInv
  <2>4. SemInv' /\ CountInv'
    BY <1>0, <1>3, <2>2, CountTypes, RWAssumption DEF RW!ReadLockWait, RW!TypeOK, SemInv, CountInv
  <2>5. QED BY <2>3, <2>4 DEF SemaphoreInv
<1>4. ASSUME NEW r \in Readers, RW!ReadLockWoken(r) PROVE SemaphoreInv'
  <2>1. /\ RW!Locked' = RW!Locked
        /\ Reading' = Reading
        /\ Running' = Running
    BY <1>0, <1>4 DEF RW!ReadLockWoken, RW!TypeOK, RW!Locked, Reading, Running
  <2>2. /\ Cardinality(RW!Locked') = Cardinality(RW!Locked)
        /\ Cardinality(Reading') = Cardinality(Reading)
        /\ Cardinality(Running') = Cardinality(Running)
    BY <2>1
  <2>3. RW!TypeOK'
    BY <1>0, <1>4, <2>2, CountTypes, RWAssumption DEF RW!ReadLockWoken, RW!TypeOK, CountInv
  <2>4. SemInv' /\ CountInv'
    BY <1>0, <1>4, <2>2, CountTypes, RWAssumption DEF RW!ReadLockWoken, RW!TypeOK, SemInv, CountInv
  <2>5. QED BY <2>3, <2>4 DEF SemaphoreInv
<1>5. ASSUME NEW r \in Readers, RW!ReadLockAcquire(r) PROVE SemaphoreInv'
  <2>1. /\ r \notin RW!Locked /\ RW!Locked' = RW!Locked \cup {r}
        /\ Reading' = Reading
        /\ Running' = Running
    BY <1>0, <1>5 DEF RW!ReadLockAcquire, RW!TypeOK, RW!Locked, Reading, Running
  <2>2. /\ Cardinality(RW!Locked') = Cardinality(RW!Locked) + 1
        /\ Cardinality(Reading') = Cardinality(Reading)
        /\ Cardinality(Running') = Cardinality(Running)
    <3>1. Cardinality(RW!Locked') = Cardinality(RW!Locked) + 1
      BY <2>1, RWAssumption, FS_AddElement, FS_Subset DEF RW!Locked
    <3>2. QED BY <2>1, <3>1
  <2>3. RW!TypeOK'
    BY <1>0, <1>5, <2>2, CountTypes, RWAssumption DEF RW!ReadLockAcquire, RW!Acquire1, RW!TypeOK, CountInv
  <2>4. SemInv' /\ CountInv'
    BY <1>0, <1>5, <2>2, CountTypes, RWAssumption DEF RW!ReadLockAcquire, RW!Acquire1, RW!TypeOK, SemInv, CountInv
  <2>5. QED BY <2>3, <2>4 DEF SemaphoreInv
<1>6. ASSUME NEW r \in Readers, RW!ReadStart(r) PROVE SemaphoreInv'
  <2>1. /\ RW!Locked' = RW!Locked
        /\ r \notin Reading /\ Reading' = Reading \cup {r}
        /\ Running' = Running
    BY <1>0, <1>6 DEF RW!ReadStart, RW!TypeOK, RW!Locked, Reading, Running
  <2>2. /\ Cardinality(RW!Locked') = Cardinality(RW!Locked)
        /\ Cardinality(Reading') = Cardinality(Reading) + 1
        /\ Cardinality(Running') = Cardinality(Running)
    <3>1. Cardinality(Reading') = Cardinality(Reading) + 1
      BY <2>1, RWAssumption, FS_AddElement, FS_Subset DEF Reading
    <3>2. QED BY <2>1, <3>1
  <2>3. RW!TypeOK'
    BY <1>0, <1>6, <2>2, CountTypes, RWAssumption DEF RW!ReadStart, RW!TypeOK, CountInv
  <2>4. SemInv' /\ CountInv'
    BY <1>0, <1>6, <2>2, CountTypes, RWAssumption DEF RW!ReadStart, RW!TypeOK, SemInv, CountInv
  <2>5. QED BY <2>3, <2>4 DEF SemaphoreInv
<1>7. ASSUME NEW r \in Readers, RW!ReadFinish(r) PROVE SemaphoreInv'
  <2>1. /\ RW!Locked' = RW!Locked
        /\ r \in Reading /\ Reading' = Reading \ {r}
        /\ Running' = Running
    BY <1>0, <1>7 DEF RW!ReadFinish, RW!TypeOK, RW!Locked, Reading, Running
  <2>2. /\ Cardinality(RW!Locked') = Cardinality(RW!Locked)
        /\ Cardinality(Reading') = Cardinality(Reading) - 1
        /\ Cardinality(Reading) >= 1
        /\ Cardinality(Running') = Cardinality(Running)
    <3>1. Cardinality(Reading') = Cardinality(Reading) - 1 /\ Cardinality(Reading') \in Nat /\ Cardinality(Reading) \in Nat
      BY <2>1, RWAssumption, FS_RemoveElement, FS_Subset, FS_CardinalityType DEF Reading
    <3>2. QED BY <2>1, <3>1
  <2>3. RW!TypeOK'
    BY <1>0, <1>7, <2>2, CountTypes, RWAssumption DEF RW!ReadFinish, RW!TypeOK, CountInv
  <2>4. SemInv' /\ CountInv'
    BY <1>0, <1>7, <2>2, CountTypes, RWAssumption DEF RW!ReadFinish, RW!TypeOK, SemInv, CountInv
  <2>5. QED BY <2>3, <2>4 DEF SemaphoreInv
<1>8. ASSUME NEW r \in Readers, RW!ReadUnlock(r) PROVE SemaphoreInv'
  <2>1. /\ r \in RW!Locked /\ RW!Locked' = RW!Locked \ {r}
        /\ Reading' = Reading
        /\ Running' = Running
    BY <1>0, <1>8 DEF RW!ReadUnlock, RW!TypeOK, RW!Locked, Reading, Running
  <2>2. /\ Cardinality(RW!Locked') = Cardinality(RW!Locked) - 1
        /\ Cardinality(RW!Locked) >= 1
        /\ Cardinality(Reading') = Cardinality(Reading)
        /\ Cardinality(Running') = Cardinality(Running)
    <3>1. Cardinality(RW!Locked') = Cardinality(RW!Locked) - 1 /\ Cardinality(RW!Locked') \in Nat /\ Cardinality(RW!Locked) \in Nat
      BY <2>1, RWAssumption, FS_RemoveElement, FS_Subset, FS_CardinalityType DEF RW!Locked
    <3>2. QED BY <2>1, <3>1
  <2>3. RW!TypeOK'
    BY <1>0, <1>8, <2>2, CountTypes, RWAssumption DEF RW!ReadUnlock, RW!Release1, RW!TypeOK, CountInv
  <2>4. SemInv' /\ CountInv'
    BY <1>0, <1>8, <2>2, CountTypes, RWAssumption DEF RW!ReadUnlock, RW!Release1, RW!TypeOK, SemInv, CountInv
  <2>5. QED BY <2>3, <2>4 DEF SemaphoreInv
<1>9. ASSUME RW!WriterShutdown PROVE SemaphoreInv'
  <2>1. /\ RW!Locked' = RW!Locked
        /\ Reading' = Reading
        /\ Running' = Running
    BY <1>0, <1>9 DEF RW!WriterShutdown, RW!TypeOK, RW!Locked, Reading, Running
  <2>2. RW!TypeOK'
    BY <1>0, <1>9, CountTypes, RWAssumption DEF RW!WriterShutdown, RW!TypeOK, SemInv, CountInv
  <2>3. SemInv' /\ CountInv'
    BY <1>0, <1>9, <2>1, CountTypes, RWAssumption DEF RW!WriterShutdown, RW!TypeOK, SemInv, CountInv
  <2>4. QED BY <2>2, <2>3 DEF SemaphoreInv
<1>10. ASSUME RW!WriteLockAdd PROVE SemaphoreInv'
  <2>1. /\ RW!Locked' = RW!Locked
        /\ Reading' = Reading
        /\ Running' = Running
    BY <1>0, <1>10 DEF RW!WriteLockAdd, RW!TypeOK, RW!Locked, Reading, Running
  <2>2. RW!TypeOK'
    BY <1>0, <1>10, CountTypes, RWAssumption DEF RW!WriteLockAdd, RW!TypeOK, SemInv, CountInv
  <2>3. SemInv' /\ CountInv'
    BY <1>0, <1>10, <2>1, CountTypes, RWAssumption DEF RW!WriteLockAdd, RW!TypeOK, SemInv, CountInv
  <2>4. QED BY <2>2, <2>3 DEF SemaphoreInv
<1>11. ASSUME RW!WriteLockAcquire PROVE SemaphoreInv'
  <2>1. /\ RW!Locked' = RW!Locked
        /\ Reading' = Reading
        /\ Running' = Running
    BY <1>0, <1>11 DEF RW!WriteLockAcquire, RW!TypeOK, RW!Locked, Reading, Running
  <2>2. RW!TypeOK'
    BY <1>0, <1>11, CountTypes, RWAssumption DEF RW!WriteLockAcquire, RW!Acquire1, RW!TypeOK, SemInv, CountInv
  <2>3. SemInv' /\ CountInv'
    BY <1>0, <1>11, <2>1, CountTypes, RWAssumption DEF RW!WriteLockAcquire, RW!Acquire1, RW!TypeOK, SemInv, CountInv
  <2>4. QED BY <2>2, <2>3 DEF SemaphoreInv
<1>12. ASSUME RW!WriteStart PROVE SemaphoreInv'
  <2>1. /\ RW!Locked' = RW!Locked
        /\ Reading' = Reading
        /\ Running' = Running
    BY <1>0, <1>12 DEF RW!WriteStart, RW!TypeOK, RW!Locked, Reading, Running
  <2>2. RW!TypeOK'
    BY <1>0, <1>12, CountTypes, RWAssumption DEF RW!WriteStart, RW!TypeOK, SemInv, CountInv
  <2>3. SemInv' /\ CountInv'
    BY <1>0, <1>12, <2>1, CountTypes, RWAssumption DEF RW!WriteStart, RW!TypeOK, SemInv, CountInv
  <2>4. QED BY <2>2, <2>3 DEF SemaphoreInv
<1>13. ASSUME RW!WriteFinish PROVE SemaphoreInv'
  <2>1. /\ RW!Locked' = RW!Locked
        /\ Reading' = Reading
        /\ Running' = Running
    BY <1>0, <1>13 DEF RW!WriteFinish, RW!TypeOK, RW!Locked, Reading, Running
  <2>2. RW!TypeOK'
    BY <1>0, <1>13, CountTypes, RWAssumption DEF RW!WriteFinish, RW!TypeOK, SemInv, CountInv
  <2>3. SemInv' /\ CountInv'
    BY <1>0, <1>13, <2>1, CountTypes, RWAssumption DEF RW!WriteFinish, RW!TypeOK, SemInv, CountInv
  <2>4. QED BY <2>2, <2>3 DEF SemaphoreInv
<1>14. ASSUME RW!WriteUnlockRelease PROVE SemaphoreInv'
  <2>1. /\ RW!Locked' = RW!Locked
        /\ Reading' = Reading
        /\ Running' = Running
    BY <1>0, <1>14 DEF RW!WriteUnlockRelease, RW!TypeOK, RW!Locked, Reading, Running
  <2>2. RW!TypeOK'
    BY <1>0, <1>14, CountTypes, RWAssumption DEF RW!WriteUnlockRelease, RW!Release1, RW!TypeOK, SemInv, CountInv
  <2>3. SemInv' /\ CountInv'
    BY <1>0, <1>14, <2>1, CountTypes, RWAssumption DEF RW!WriteUnlockRelease, RW!Release1, RW!TypeOK, SemInv, CountInv
  <2>4. QED BY <2>2, <2>3 DEF SemaphoreInv
<1>15. ASSUME RW!WriteUnlockDone PROVE SemaphoreInv'
  <2>1. /\ RW!Locked' = RW!Locked
        /\ Reading' = Reading
        /\ Running' = Running
    BY <1>0, <1>15 DEF RW!WriteUnlockDone, RW!TypeOK, RW!Locked, Reading, Running
  <2>2. RW!TypeOK'
    BY <1>0, <1>15, CountTypes, RWAssumption DEF RW!WriteUnlockDone, RW!TypeOK, SemInv, CountInv
  <2>3. SemInv' /\ CountInv'
    BY <1>0, <1>15, <2>1, CountTypes, RWAssumption DEF RW!WriteUnlockDone, RW!TypeOK, SemInv, CountInv
  <2>4. QED BY <2>2, <2>3 DEF SemaphoreInv
<1>16. ASSUME RW!StopClose PROVE SemaphoreInv'
  <2>1. /\ RW!Locked' = RW!Locked
        /\ Reading' = Reading
        /\ Running' = Running
    BY <1>0, <1>16 DEF RW!StopClose, RW!TypeOK, RW!Locked, Reading, Running
  <2>2. RW!TypeOK'
    BY <1>0, <1>16, CountTypes, RWAssumption DEF RW!StopClose, RW!TypeOK, SemInv, CountInv
  <2>3. SemInv' /\ CountInv'
    BY <1>0, <1>16, <2>1, CountTypes, RWAssumption DEF RW!StopClose, RW!TypeOK, SemInv, CountInv
  <2>4. QED BY <2>2, <2>3 DEF SemaphoreInv
<1>17. ASSUME RW!StopReturn PROVE SemaphoreInv'
  <2>1. /\ RW!Locked' = RW!Locked
        /\ Reading' = Reading
        /\ Running' = Running
    BY <1>0, <1>17 DEF RW!StopReturn, RW!TypeOK, RW!Locked, Reading, Running
  <2>2. RW!TypeOK'
    BY <1>0, <1>17, CountTypes, RWAssumption DEF RW!StopReturn, RW!TypeOK, SemInv, CountInv
  <2>3. SemInv' /\ CountInv'
    BY <1>0, <1>17, <2>1, CountTypes, RWAssumption DEF RW!StopReturn, RW!TypeOK, SemInv, CountInv
  <2>4. QED BY <2>2, <2>3 DEF SemaphoreInv
<1>18. ASSUME UNCHANGED RW!vars PROVE SemaphoreInv'
  BY <1>0, <1>18 DEF RW!vars, SemaphoreInv, RW!TypeOK, SemInv, CountInv, RW!Locked, Reading, Running
<1>19. QED
  BY <1>1, <1>2, <1>3, <1>4, <1>5, <1>6, <1>7, <1>8, <1>9,
     <1>10, <1>11, <1>12, <1>13, <1>14, <1>15, <1>16, <1>17, <1>18
  DEF RW!Next, RW!Reader, RW!Writer, RW!Stop, RW!Ended

\* The inductive invariant holds in every reachable state.
THEOREM ReaderWriterInvariant == SemaphoreSpec => []SemaphoreInv
  BY SemaphoreInit, SemaphoreStep, PTL DEF SemaphoreSpec, RW!Spec

\* The state variables keep their types; the WaitGroup's counter never
\* exceeds 1 and never becomes negative.
THEOREM ReaderWriterTypeOK == SemaphoreSpec => []RW!TypeOK
<1>1. SemaphoreInv => RW!TypeOK
  BY DEF SemaphoreInv
<1>2. QED BY <1>1, ReaderWriterInvariant, PTL

\* While the writer writes no reader owns a buffer of the semaphore.
THEOREM WriterExclusion == SemaphoreSpec => []WriteExcludesReads
<1>1. SemaphoreInv => WriteExcludesReads
  <2> SUFFICES ASSUME SemaphoreInv, writerPc = "writing" PROVE RW!Locked = {}
    BY DEF WriteExcludesReads, RW!WriteExcludesReads
  <2>1. Cardinality(RW!Locked) = 0
    BY CountTypes, RWAssumption DEF SemaphoreInv, RW!TypeOK, SemInv
  <2>2. IsFiniteSet(RW!Locked)
    BY RWAssumption, FS_Subset DEF RW!Locked
  <2>3. QED BY <2>1, <2>2, FS_EmptySet
<1>2. QED BY <1>1, ReaderWriterInvariant, PTL

\* No more than maxReads readers own a buffer, and currentReads counts those
\* that are reading.
THEOREM ReadersBounded == SemaphoreSpec => []RW!ReadsBounded
<1>1. SemaphoreInv => RW!ReadsBounded
  BY SameCardinality, CountTypes, RWAssumption DEF SemaphoreInv, RW!TypeOK, SemInv, CountInv, RW!ReadsBounded, Reading
<1>2. QED BY <1>1, ReaderWriterInvariant, PTL

\* When stop has returned nobody runs and the semaphore is free.
THEOREM StopLeavesNothing == SemaphoreSpec => []StoppedMeansIdle
<1>1. SemaphoreInv => StoppedMeansIdle
  <2> SUFFICES ASSUME SemaphoreInv, stopPc = "ended" PROVE StoppedMeansIdle
    BY DEF StoppedMeansIdle, RW!StoppedMeansIdle
  <2>1. Cardinality(Running) = 0 /\ writerPc = "done"
    BY CountTypes DEF SemaphoreInv, RW!TypeOK, CountInv
  <2>2. Running = {}
    BY <2>1, RWAssumption, FS_Subset, FS_EmptySet DEF Running
  <2>3. \A r \in Readers : rpc[r] = "done"
    BY <2>2 DEF Running
  <2>4. RW!Locked = {}
    BY <2>3 DEF RW!Locked
  <2>5. readerControl = 0 /\ write = 0
    BY <2>1, <2>4, FS_EmptySet DEF SemaphoreInv, RW!TypeOK, SemInv, CountInv
  <2>6. QED BY <2>1, <2>3, <2>5 DEF StoppedMeansIdle, RW!StoppedMeansIdle
<1>2. QED BY <1>1, ReaderWriterInvariant, PTL
=============================================================================
