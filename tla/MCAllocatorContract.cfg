SPECIFICATION Spec
CONSTANTS
  Clients = {c1, c2}
  SizeMax <- MCSizeMax
  PageSize <- MCPageSize
  ArenaSize <- MCArenaSize
  Bases <- ContractBases
  Requests <- MCRequests
  kSlotsPerArena = 1
  PoolObject <- MCPoolObject
SYMMETRY Symmetric
PROPERTY
  ImplementsContract
