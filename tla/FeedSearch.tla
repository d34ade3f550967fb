----------------------------- MODULE FeedSearch -----------------------------
(***************************************************************************)
(* Run of chapter2/sample/search: one goroutine per feed runs Match, a     *)
(* monitor closes the results channel when all have reported, Display      *)
(* ranges over the channel in the main goroutine.  A feed whose Search     *)
(* fails contributes nothing.                                              *)
(***************************************************************************)
EXTENDS Integers, Sequences, FiniteSets

CONSTANTS Feeds,       \* the decoded data file
          FeedTypes,   \* the values of feed.Type; "rss" is registered
          MaxItems     \* bound: matches one feed can have

VARIABLES
  feedType,   \* feed.Type of each feed
  waitGroup,  \* counter of waitGroup
  closed,     \* close(results) has been executed
  gpc,        \* the goroutine of each feed: "off", "search", "send", "done", "gone"
  found,      \* how many results Search returned, -1 for an error
  sent,       \* how many of them Match has sent
  displayed,  \* what Display has shown: a sequence of <<feed, index>>
  monitor,    \* the monitor: "off", "wait", "gone"
  mpc         \* Run: "load", "launch", "display", "returned", "fatal"

vars == <<feedType, waitGroup, closed, gpc, found, sent, displayed, monitor, mpc>>

\* matchers after the init functions of default.go and rss.go: each type is
\* registered once (Register would end the program otherwise)
Registered == {"rss", "default"}

\* the matcher of a feed: that of its type, or the default one
MatcherOf(f) == IF feedType[f] \in Registered THEN feedType[f] ELSE "default"

Init ==
  /\ feedType \in [Feeds -> FeedTypes]
  /\ waitGroup = 0 /\ closed = FALSE /\ monitor = "off" /\ mpc = "load"
  /\ gpc = [f \in Feeds |-> "off"]
  /\ found = [f \in Feeds |-> 0] /\ sent = [f \in Feeds |-> 0]
  /\ displayed = <<>>

\* RetrieveFeeds fails: log.Fatal
RetrieveFeedsError ==
  /\ mpc = "load" /\ mpc' = "fatal"
  /\ UNCHANGED <<feedType, waitGroup, closed, gpc, found, sent, displayed, monitor>>

\* Mutant: the Add is left to a later moment
RetrieveFeedsNoAdd ==
  /\ mpc = "load" /\ mpc' = "launch"
  /\ waitGroup' = 1
  /\ UNCHANGED <<feedType, closed, gpc, found, sent, displayed, monitor>>

\* RetrieveFeeds succeeds; waitGroup.Add(len(feeds)) before any goroutine
RetrieveFeeds ==
  /\ mpc = "load" /\ mpc' = "launch"
  /\ waitGroup' = Cardinality(Feeds)
  /\ UNCHANGED <<feedType, closed, gpc, found, sent, displayed, monitor>>

\* one turn of the loop that launches the goroutines
Launch(f) ==
  /\ mpc = "launch" /\ gpc[f] = "off"
  /\ gpc' = [gpc EXCEPT ![f] = "search"]
  /\ UNCHANGED <<feedType, waitGroup, closed, found, sent, displayed, monitor, mpc>>

\* all launched: launch the monitor, go into Display
LaunchMonitor ==
  /\ mpc = "launch" /\ \A f \in Feeds : gpc[f] # "off"
  /\ mpc' = "display" /\ monitor' = "wait"
  /\ UNCHANGED <<feedType, waitGroup, closed, gpc, found, sent, displayed>>

\* matcher.Search succeeds: the default matcher finds nothing, the rss matcher
\* one result per matching title and description
SearchOk(f) ==
  /\ gpc[f] = "search" /\ gpc' = [gpc EXCEPT ![f] = "send"]
  /\ \E n \in 0..MaxItems :
       /\ MatcherOf(f) = "default" => n = 0
       /\ found' = [found EXCEPT ![f] = n]
  /\ UNCHANGED <<feedType, waitGroup, closed, sent, displayed, monitor, mpc>>

\* rssMatcher.Search fails (no URI, the GET, its status, the XML): Match logs
\* and returns
SearchError(f) ==
  /\ gpc[f] = "search" /\ MatcherOf(f) = "rss" /\ gpc' = [gpc EXCEPT ![f] = "done"]
  /\ found' = [found EXCEPT ![f] = -1]
  /\ UNCHANGED <<feedType, waitGroup, closed, sent, displayed, monitor, mpc>>

\* results <- result in Match meets the range in Display, which shows it
SendDisplay(f) ==
  /\ ~closed /\ mpc = "display"
  /\ gpc[f] = "send" /\ sent[f] < found[f]
  /\ sent' = [sent EXCEPT ![f] = @ + 1]
  /\ displayed' = Append(displayed, <<f, sent[f] + 1>>)
  /\ UNCHANGED <<feedType, waitGroup, closed, gpc, found, monitor, mpc>>

\* Match has sent everything and returns
MatchReturn(f) ==
  /\ gpc[f] = "send" /\ sent[f] = found[f]
  /\ gpc' = [gpc EXCEPT ![f] = "done"]
  /\ UNCHANGED <<feedType, waitGroup, closed, found, sent, displayed, monitor, mpc>>

\* waitGroup.Done()
Done(f) ==
  /\ gpc[f] = "done" /\ gpc' = [gpc EXCEPT ![f] = "gone"]
  /\ waitGroup' = waitGroup - 1
  /\ UNCHANGED <<feedType, closed, found, sent, displayed, monitor, mpc>>

\* the monitor: waitGroup.Wait(), close(results)
MonitorClose ==
  /\ monitor = "wait" /\ waitGroup = 0
  /\ monitor' = "gone" /\ closed' = TRUE
  /\ UNCHANGED <<feedType, waitGroup, gpc, found, sent, displayed, mpc>>

\* the range in Display ends on the closed channel, Run returns
DisplayReturn ==
  /\ mpc = "display" /\ closed /\ mpc' = "returned"
  /\ UNCHANGED <<feedType, waitGroup, closed, gpc, found, sent, displayed, monitor>>

Ended == mpc \in {"returned", "fatal"} /\ UNCHANGED vars

Next ==
  \/ RetrieveFeedsError \/ RetrieveFeeds \/ LaunchMonitor \/ MonitorClose \/ DisplayReturn
  \/ \E f \in Feeds : \/ Launch(f) \/ SearchOk(f) \/ SearchError(f)
                      \/ SendDisplay(f) \/ MatchReturn(f) \/ Done(f)
  \/ Ended

Spec == Init /\ [][Next]_vars

-----------------------------------------------------------------------------
\* The channel is closed only when nobody will send on it any more, so no
\* goroutine panics with "send on closed channel".
NoSendAfterClose == closed => \A f \in Feeds : gpc[f] = "gone"

\* When Run returns, Display has shown every result of every feed whose search
\* succeeded, each once and in the feed's order, and none of a failed feed.
AllDisplayed ==
  mpc = "returned" =>
    \A f \in Feeds :
      LET mine == {k \in 1..Len(displayed) : displayed[k][1] = f}
      IN  /\ gpc[f] = "gone"
          /\ {displayed[k][2] : k \in mine} = 1..(IF found[f] = -1 THEN 0 ELSE found[f])
          /\ \A j, k \in mine : j < k => displayed[j][2] < displayed[k][2]

\* Run returns, or the program has died on an unreadable data file: a feed
\* that fails does not keep the others from finishing.
RunReturns == <>(mpc \in {"returned", "fatal"})
=============================================================================
