SPECIFICATION Spec
CONSTANTS
  Clients = {c1, c2}
  SizeMax <- MCSizeMax
  PageSize <- MCPageSize
  ArenaSize <- MCArenaSize
  Bases <- MCBases
  Requests <- MCRequests
  Arrays = {}
INVARIANT
  PointersServeRequests
