\* One listener (listeners do not touch each other), three events of two kinds and
\* four texts, a connection that may break and a stream that may expire.
SPECIFICATION StreamFairSpec
CONSTANTS
  Listener = {l1}
  Word = {"", "exit", "y", "z"}
  Data <- SomeData
  Kind = {"", "control"}
  MaxLog = 3
  StreamFaults = {"broken", "expiry"}
  Newest = Newest
  NoData = NoData
INVARIANTS
  NoGapNoRepeat
PROPERTIES
  ImplementsFeed
  ListenersEnd
CHECK_DEADLOCK FALSE
