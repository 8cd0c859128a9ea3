SPECIFICATION Spec
CONSTANTS
  Name = {students}
  BadName = empty
  Types <- ColumnTypes
  Key = {k1, k2}
  Value = {v}
  MaxPages = 6
  MaxTables = 1
  MaxTypes = 1
  Degree = 2
PROPERTY
  ImplementsDocumentedCatalog
