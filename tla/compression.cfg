SPECIFICATION FairSpec
CONSTANTS
  s1 = s1
  s2 = s2
  w1 = w1
  w2 = w2
  Session <- MCSession
  Sweeper <- MCSweeper
  Linked <- MCLinked
  Captures <- MCCaptures
  Threshold = 2
  Reindex = w1
  Limit = 1
  MaxCuts = 1
INVARIANTS
  TypeOK
  NothingForgotten
  SummarisedIsCompressed
PROPERTIES
  IdleIsSummarised
CHECK_DEADLOCK FALSE
