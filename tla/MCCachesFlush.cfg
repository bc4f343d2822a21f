SPECIFICATION Spec
CONSTANTS
  Threads = {t1, t2}
  Pools = {p1}
  Stage = 3
  kThreadLocalCacheBatchSize = 2
  SlotsPerArena = 3
  MaxArenas = 2
SYMMETRY Symmetric
INVARIANTS
  TypeOK
  SlotsInOnePlace
  CachesCountTheirSlots
PROPERTY
  ImplementsLedger
