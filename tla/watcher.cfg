SPECIFICATION FairSpec
CONSTANTS
  w = w
  Files <- MCFiles
  MaxObserved = 2
  Flushes = {w}
  Torn = Torn
  Modes = {TRUE, FALSE}
  MaxEvents = 3
INVARIANTS TypeOK FreshIsUpToDate OnlyAShownFailureStops OutdatedFilesAreListed
PROPERTY CatchesUp
CHECK_DEADLOCK FALSE
