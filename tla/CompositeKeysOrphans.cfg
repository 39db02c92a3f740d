\* The same tables: do the children reference rows that exist?
SPECIFICATION Spec
CONSTANTS
  None = None
  Size = 3
  MaxGroups = 2
  MaxDistinct = 3
  MaxSequence = 2
  Grid <- MCGrid
  Layouts = {"fks", "sequence", "partner", "plain"}
  Parents <- MCParents
  Children <- MCChildren
  Overrides = {None}
INVARIANT ChildTuplesExist
CHECK_DEADLOCK FALSE
