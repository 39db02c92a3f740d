\* A whole run over the target that an earlier one has left, with a cycle.
SPECIFICATION Spec
CONSTANTS
  Tables = {1, 2, 3}
  Outside = {}
  None = None
  GraphChoices <- CyclicChoices
  FilterChoices <- WholeRun
  BeforeChoices <- AllBefore
  FilesCount = 1
INVARIANT NoneRefused
