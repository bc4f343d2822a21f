SPECIFICATION Spec
CONSTANTS
  Threads = {t1, t2}
  Pools = {p1, p2}
  Stage = 2
  kThreadLocalCacheBatchSize = 2
  SlotsPerArena = 2
  MaxArenas = 3
SYMMETRY Symmetric
INVARIANTS
  SlotsInOnePlace
  SlotsStayWithTheirPool
