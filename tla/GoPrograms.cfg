CONSTANTS
  Workers = {w1, w2}
  Tasks = {t1, t2, t3, t4}
  NoTask = NoTask
  NTasks = 6
  MaxSig = 3
  Engines = {google, bing, yahoo}
  Discarders = {d1, d2, d3}
  Feeds = {f1, f2, f3}
  FeedTypes = {"rss", "sitemap"}
  MaxItems = 2
SPECIFICATION FairSpec
INVARIANTS ChannelClosedLast ShutdownCompletesWork ResultAgrees ResultsComplete
PROPERTIES ProgramsEnd
