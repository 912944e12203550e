SPECIFICATION Spec
CONSTANTS
  i1 = i1
  i2 = i2
  i3 = i3
  r1 = r1
  r2 = r2
  r3 = r3
  r4 = r4
  None = None
  Index <- MCIndex
  Row <- MCRow
  Home <- MCHome
  Keyed <- MCKeyed
  Linked <- MCLinked
INVARIANTS
  NothingLost
CHECK_DEADLOCK FALSE
