\* The INSERT ... SET format, with more than one row in a statement.
SPECIFICATION Spec
CONSTANTS
  None = None
  Derived <- MCDerived
  MaxChildren <- MCMaxChildren
  InsertRows <- MCInsertRows
  FirstRowNum = 1
  Formats = {"insert_set"}
  FileSize = None
INVARIANT FilesLoadable
