SPECIFICATION Spec
CONSTANTS
  Block = {b1, b2, b3}
  Null = Null
  Junk = Junk
  OneBlock = b1
  Data <- MCData
  PayloadSizes <- MCPayloadSizes
  Requests <- MCRequests
INVARIANTS
  TypeOK
  LinksSpellList
PROPERTIES
  ReturnsFirstFit
  SearchReturns
