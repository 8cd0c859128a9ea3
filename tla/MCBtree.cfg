SPECIFICATION Spec
CONSTANTS
  Key = {1,2,3,4,5,6,7}
  Value = {1, 2}
  Degree = 2
INVARIANTS
  TypeOK
  WellFormedUnlessRefused
  EveryCellFound
  ParentsMatchChildren
  Balanced
  Occupancy
PROPERTIES
  ImplementsDictionary
  InsertReturns
