SPECIFICATION Spec
CONSTANTS
  Capacity = 2
  MaxBlocks = 3
  Class = {node, leaf}
  Data = {d1, d2}
  Blank = Blank
INVARIANTS
  TypeOK
  ListMatchesMap
PROPERTIES
  ReferencesSurvive
  ImplementsPageStore
SYMMETRY Symmetry
