SPECIFICATION FairSpec
CONSTANTS
  a = a
  b = b
  c = c
  p = p
  q = q
  Claimants = {a, b, c}
  Pids = {p, q}
  PidOf <- PidOf3
  Planted = Planted
  NoFile = NoFile
INVARIANTS
  TypeOK
  OnlyRecoveryBreaksExclusion
  OwnerHasDirectory
  NoOrphanLock
PROPERTIES
  AttemptEnds
  StaleLockDoesNotWedge
  ImplementsIndexMutex
