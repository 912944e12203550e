SPECIFICATION Spec
CONSTANTS
  f = f
  g = g
  base = base
  body = body
  bind = bind
  junk = junk
  odd = odd
  Files = {f, g}
  Contents = {base, body, junk}
  Unparsable = {junk}
  Broken = {}
  Signatures <- SignatureOf
  Bindings <- BindingOf
  NoSnapshot = NoSnapshot
  Absent = Absent
  Lightweight = {}
  LargeRepo = 20
  Starts <- OnlyBase
  Siblings <- MixedSibling
  MaxEvents = 3
INVARIANTS
  TypeOK
  ReadyIsHonest
  ReportsOnlyMaterialized
  CacheIsContentAddressed
SYMMETRY AnyFile
