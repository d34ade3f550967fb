--------------------------- MODULE SearchSession ----------------------------
(***************************************************************************)
(* Submit of chapter7/patterns/search/search.go: one goroutine per chosen  *)
(* searcher sends its results on the unbuffered session.resultChan; Submit *)
(* receives one result per searcher, or with the option OnlyFirst just the *)
(* first and starts a discarding goroutine for each of the others.         *)
(***************************************************************************)
EXTENDS Integers, FiniteSets

CONSTANTS Engines,   \* google, bing, yahoo
          Discarders \* names for the discarding goroutines, at least |Engines|

VARIABLES
  searchers,  \* session.searchers: a map, so repeated options collapse
  first,      \* session.first
  epc,        \* the searchers: "off", "searching", "sending", "returned"
  search,     \* the loop variable of Submit
  results,    \* engines whose results Submit has saved
  discarding, \* discarding goroutines that wait for a value
  discarded,  \* engines whose results were discarded
  mpc         \* Submit: "launch", "loop", "returned"

vars == <<searchers, first, epc, search, results, discarding, discarded, mpc>>

\* every combination of the options Google, Bing, Yahoo and OnlyFirst
Init ==
  /\ searchers \in SUBSET Engines
  /\ first \in BOOLEAN
  /\ epc = [e \in Engines |-> "off"]
  /\ search = 0 /\ results = {} /\ discarding = {} /\ discarded = {}
  /\ mpc = "launch"

\* go s.Search(...) for one more searcher, in the map's random order
Launch(e) ==
  /\ mpc = "launch" /\ e \in searchers /\ epc[e] = "off"
  /\ epc' = [epc EXCEPT ![e] = "searching"]
  /\ UNCHANGED <<searchers, first, search, results, discarding, discarded, mpc>>

LaunchDone ==
  /\ mpc = "launch" /\ \A e \in searchers : epc[e] # "off"
  /\ mpc' = "loop"
  /\ UNCHANGED <<searchers, first, epc, search, results, discarding, discarded>>

\* Search has its results and reaches results <- r
Found(e) ==
  /\ epc[e] = "searching"
  /\ epc' = [epc EXCEPT ![e] = "sending"]
  /\ UNCHANGED <<searchers, first, search, results, discarding, discarded, mpc>>

Looping == mpc = "loop" /\ search < Cardinality(searchers)

\* session.first && search > 0: one more discarding goroutine, continue
Discard(d) ==
  /\ Looping /\ first /\ search > 0 /\ d \notin discarding
  /\ discarding' = discarding \cup {d}
  /\ search' = search + 1
  /\ UNCHANGED <<searchers, first, epc, results, discarded, mpc>>

\* Mutant: every result is waited for and saved
ReceiveAll(e) ==
  /\ Looping /\ epc[e] = "sending"
  /\ epc' = [epc EXCEPT ![e] = "returned"]
  /\ results' = results \cup {e}
  /\ search' = search + 1
  /\ UNCHANGED <<searchers, first, discarding, discarded, mpc>>

\* result := <-session.resultChan in the loop
Receive(e) ==
  /\ Looping /\ ~(first /\ search > 0) /\ epc[e] = "sending"
  /\ epc' = [epc EXCEPT ![e] = "returned"]
  /\ results' = results \cup {e}
  /\ search' = search + 1
  /\ UNCHANGED <<searchers, first, discarding, discarded, mpc>>

\* r := <-session.resultChan in a discarding goroutine
DiscardReceive(d, e) ==
  /\ d \in discarding /\ epc[e] = "sending"
  /\ epc' = [epc EXCEPT ![e] = "returned"]
  /\ discarding' = discarding \ {d}
  /\ discarded' = discarded \cup {e}
  /\ UNCHANGED <<searchers, first, search, results, mpc>>

SubmitReturn ==
  /\ mpc = "loop" /\ search = Cardinality(searchers)
  /\ mpc' = "returned"
  /\ UNCHANGED <<searchers, first, epc, search, results, discarding, discarded>>

\* Submit has returned: the caller goes on, whatever its goroutines still do
CallerGoesOn == mpc = "returned" /\ UNCHANGED vars

Next ==
  \/ \E e \in Engines : Launch(e) \/ Found(e) \/ Receive(e)
  \/ \E d \in Discarders : Discard(d) \/ \E e \in Engines : DiscardReceive(d, e)
  \/ LaunchDone \/ SubmitReturn \/ CallerGoesOn

Spec == Init /\ [][Next]_vars

-----------------------------------------------------------------------------
\* Submit returns the results of all chosen searchers, or with OnlyFirst of
\* exactly one of them, and a result that was discarded is not among them.
ResultsComplete ==
  /\ results \cap discarded = {}
  /\ mpc = "returned" =>
       IF first /\ searchers # {} THEN Cardinality(results) = 1 ELSE results = searchers

\* "Failing to do so will leave the Searchers blocked forever": no searcher
\* and no discarding goroutine stays blocked on the channel after Submit.
NobodyBlocked ==
  <>[](mpc = "returned" /\ discarding = {} /\ \A e \in searchers : epc[e] = "returned")
=============================================================================
