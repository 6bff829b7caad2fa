CONSTANTS
  Callers = {c1, c2}
  Values = {v1, v2, v3}
  None = None
SPECIFICATION Spec
SYMMETRY Symmetry
INVARIANTS
  MigrationIsWhole
PROPERTIES
  NothingStoredIsLost
  ImplementsDurableState
