SPECIFICATION Spec
CONSTANTS
  Threads = {t1, t2}
  Pools = {p1}
  NoPool = NoPool
  s1 = s1
  s2 = s2
  s3 = s3
  s4 = s4
  s5 = s5
  s6 = s6
  Regions <- MCRegions
  kThreadLocalCacheBatchSize = 2
SYMMETRY Symmetric
INVARIANTS
  OnePlace
  Bounded
