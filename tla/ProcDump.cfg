SPECIFICATION Spec
CONSTANT Jobs <- MCJobs
INVARIANTS
  AddrCountsBytes
  TablesReadBack
  BodiesAligned
  SrcMapNamesOpcodes
  UserPtrsInBodies
PROPERTIES
  OffsetsStick
  ImplementsPlacement
