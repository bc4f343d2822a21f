SPECIFICATION Spec
CONSTANTS
  Threads = {t1, t2}
  Pools = {p1, p2}
  Stage = 3
  kThreadLocalCacheBatchSize = 1
  SlotsPerArena = 3
  MaxArenas = 2
SYMMETRY Symmetric
INVARIANTS
  SlotsStayWithTheirPool
PROPERTIES
  HeldTagsUndisturbed
  ImplementsLedger
