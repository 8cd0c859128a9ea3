SPECIFICATION Spec
CONSTANTS
  Name = {students, courses}
  BadName = empty
  Types <- ColumnTypes
  Key = {k1, k2, k3, k4}
  Value = {v}
  MaxPages = 6
  MaxTables = 2
  MaxTypes = 1
  Degree = 2
SYMMETRY Symmetric
VIEW Core
INVARIANTS
  TypeOK
  CatalogMatches
  CountsMatch
  PagesApart
PROPERTIES
  DamageIsReported
  ImplementsCatalog
