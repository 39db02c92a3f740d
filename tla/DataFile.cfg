\* Two INSERT statements, four tables, a target size some of them reach.
SPECIFICATION Spec
CONSTANTS
  None = None
  Derived <- MCDerived
  MaxChildren <- MCMaxChildren
  InsertRows <- MCInsertRows
  FirstRowNum = 3
  Formats = {"sql", "csv", "csv_headers"}
  FileSize = 4
INVARIANTS FilesLoadable ChildrenCounted MainRowsConsecutive TargetSizeRespected
