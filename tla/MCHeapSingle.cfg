SPECIFICATION Spec
CONSTANTS
  Clients = {c1, c2, c3, c4}
  SizeMax <- MCSizeMax
  PageSize <- MCPageSize
  ArenaSize <- SingleArenaSize
  Bases <- SingleBases
  Requests <- SingleRequests
  Arrays <- MCArrays
SYMMETRY Symmetric
INVARIANTS
  PointersServeRequests
PROPERTY
  ImplementsContract
