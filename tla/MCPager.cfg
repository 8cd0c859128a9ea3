SPECIFICATION Spec
CONSTANTS
  B = 3
  TailBits = 1
  MaxFSM = 3
INVARIANTS
  TypeOK
  CountsRealBits
  BitmapsMatchOwners
  ListIsAvailable
PROPERTIES
  GrowsOnlyWhenFull
  ImplementsAllocator
