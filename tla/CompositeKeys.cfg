\* Keys of two columns over a 3 x 3 grid, of three columns for the fallback.
SPECIFICATION Spec
CONSTANTS
  None = None
  Size = 3
  MaxGroups = 2
  MaxDistinct = 3
  MaxSequence = 2
  Grid <- MCGrid
  Layouts = {"fks", "sequence", "partner", "plain"}
  Parents <- MCParents
  Children <- MCChildren
  Overrides = {None, 2, 5}
INVARIANTS KeysUnique ReferencesExist ShapedChildFits GridTuplesExist RerunAgrees
CHECK_DEADLOCK FALSE
