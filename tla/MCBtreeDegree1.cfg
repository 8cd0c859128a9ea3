SPECIFICATION Spec
CONSTANTS
  Key = {1, 2, 3}
  Value = {1}
  Degree = 1
INVARIANTS
  WellFormedUnlessRefused
