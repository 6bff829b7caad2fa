CONSTANTS
  Dirs = {d1, d2, d3}
  Configs = {c1, c2}
  None = None
  MaxIdentity = 2
SPECIFICATION Spec
SYMMETRY Symmetry
INVARIANTS
  Safety
PROPERTIES
  ImplementsManagedCore
