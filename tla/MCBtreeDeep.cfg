SPECIFICATION Spec
CONSTANTS
  Key = {1, 2, 3, 4, 5, 6, 7, 8, 9, 10, 11}
  Value = {1}
  Degree = 2
INVARIANTS
  EveryCellFound
  ParentsMatchChildren
  Balanced
  Occupancy
