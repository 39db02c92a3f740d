\* Three constraints, three attempts as in the code, three looks at the server.
SPECIFICATION ScriptSpec
CONSTANTS
  Count = 3
  ScriptAttempts = 3
  Waits = 3
INVARIANTS NeverDuplicate ReturnedMeansAll ChecksOffWhileAdding
