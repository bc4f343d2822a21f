SPECIFICATION Spec
CONSTANTS
  Clients = {c1, c2, c3}
  SizeMax <- MCSizeMax
  PageSize <- MCPageSize
  ArenaSize <- TouchingArenaSize
  Bases <- TouchingBases
  Requests <- TouchingRequests
  Arrays <- MCArrays
SYMMETRY Symmetric
INVARIANTS
  TypeOK
  BlocksTileArenas
  FootersInSync
  FreeListExact
  FullyCoalesced
  OneOwner
  PointersServeRequests
  CopyStaysInside
  FreedArenasAreWhole
PROPERTY
  HeldBlocksKeepTheirBytes
  ImplementsContract
