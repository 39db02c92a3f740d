\* Every graph of three tables, five filters, three targets left by an earlier run.
SPECIFICATION Spec
CONSTANTS
  Tables = {1, 2, 3}
  Outside = {}
  None = None
  GraphChoices <- MCGraphChoices
  FilterChoices <- MCFilterChoices
  BeforeChoices <- MCBeforeChoices
  FilesCount = 1
INVARIANTS LoadedFromThisRun ZeroMeansAllGood ScriptAfterAllLoaded
INVARIANTS ParentsTriedFirst EveryTableTried
PROPERTIES OthersUntouched
