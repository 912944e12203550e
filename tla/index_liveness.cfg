SPECIFICATION FairSpec
CONSTANTS
  f = f
  g = g
  base = base
  body = body
  bind = bind
  junk = junk
  odd = odd
  Files = {f, g}
  Contents = {base, body, bind, odd}
  Unparsable = {}
  Broken = {odd}
  Signatures <- SignatureOf
  Bindings <- BindingOf
  NoSnapshot = NoSnapshot
  Absent = Absent
  Lightweight = {f}
  LargeRepo = 2
  Starts <- OnlyBase
  Siblings <- MixedSibling
  MaxEvents = 2
PROPERTIES
  OnlyBrokenResultsThrow
  RunEnds
  Converges
