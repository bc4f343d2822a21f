SPECIFICATION Spec
CONSTANTS
  Threads = {t1}
  Pools = {p1}
  Stage = 3
  kThreadLocalCacheBatchSize = 1
  SlotsPerArena = 2
  MaxArenas = 2
INVARIANTS
  IdleSlotsBounded
