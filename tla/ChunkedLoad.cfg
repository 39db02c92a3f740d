\* Five lines of one, three or six bytes, chunks of up to five, three attempts.
SPECIFICATION FairSpec
CONSTANTS
  Lines = 5
  SizeChoices = {1, 3, 6}
  ChunkBytes = 5
  Attempts = 3
INVARIANTS LoadedExactlyOnce NeverTwice OneChunkFile
PROPERTIES LoadEnds
