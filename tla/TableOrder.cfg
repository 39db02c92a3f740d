\* Every graph of four tables that may also reference a table of another schema.
SPECIFICATION Spec
CONSTANTS
  Tables = {1, 2, 3, 4}
  Outside = {9}
INVARIANTS SortAgrees ParentsFirst
