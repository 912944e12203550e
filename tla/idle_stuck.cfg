SPECIFICATION FairSpec
CONSTANTS
  s1 = s1
  s2 = s2
  w1 = w1
  w2 = w2
  Session <- MCOneSession
  Sweeper <- MCSweeper
  Linked = {}
  Captures <- MCOneCaptures
  Threshold = 2
  Reindex = w1
  Limit = 1
  MaxCuts = 0
PROPERTIES
  IdleIsCompressed
CHECK_DEADLOCK FALSE
