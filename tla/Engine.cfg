\* Every fault but a failing drop: safety, and the job it implements.
SPECIFICATION FairSpec
CONSTANTS
  None = None
  MaxU32 = 500
  Jobs = 2
  MaxRows = 5
  Faults = {"prepare", "open", "write", "rotate"}
  CliSet <- MCCliSet
  StaleRows <- MCStaleRows
INVARIANTS TypeOK RowsAccounted FilesDisjoint OkMeansComplete OkMeansDurable ProgressExact
PROPERTIES RunReturns JobSpec
