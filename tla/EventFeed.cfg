\* Two records, one change of a value, one restart or a second call.
SPECIFICATION Spec
CONSTANTS
  Feeds = {"buffer", "store"}
  MaxRecords = 2
  MaxChanges = 1
  MaxRuns = 2
CONSTRAINT ShortRuns
INVARIANTS
  ReaderSeesFeed
  CompleteAtTheEnd
CHECK_DEADLOCK FALSE
