SPECIFICATION Spec
CONSTANTS
  Capacity = 8
  Degree = 3
  Group = 20
  MAX_FSMPAGES = 2
  Schemas <- Databases
  Table <- TablePages
  Path <- Paths
  Halves <- RightHalves
  Fresh <- FreshBlocks
  None = None
INVARIANTS
  TypeOK
  NoDanglingReference
