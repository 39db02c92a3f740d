\* Files counted by --files-count; in base 2 the counter and the index both
\* carry early.
SPECIFICATION NamesSpec
CONSTANTS
  Base = 2
  FileIndexes = {1, 2, 3, 4}
  FilesCount = 4
  MaxFiles = 6
INVARIANTS NoFileOverwritten NamesOrdered
CHECK_DEADLOCK FALSE
