SPECIFICATION FairSpec
CONSTANTS
  c1 = c1
  c2 = c2
  c3 = c3
  NoFile = NoFile
  Torn = Torn
  Command <- MCCommand
INVARIANTS
  TypeOK
  OneDaemon
PROPERTIES
  StopLeavesNothing
  ServersEndWithRunners
CHECK_DEADLOCK FALSE
