SPECIFICATION Spec
CONSTANTS
  Name = {students, courses}
  BadName = empty
  Types <- ColumnTypes
  Key = {k1, k2, k3}
  Value = {v}
  MaxPages = 6
  MaxTables = 2
  MaxTypes = 1
  Degree = 2
PROPERTY
  DropFreesPages
