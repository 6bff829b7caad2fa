CONSTANTS
  None = None
  Labels = {l}
  Subs = {a, b}
  Conns = {c1, c2}
  PoolIds = {p}
  RouteIds = {r1, r2, r3}
  MaxGen = 6
  MaxSources = 2
  MaxPools = 3
  MaxRoutes = 3
  MaxRevision = 3
  MaxWrites = 1
  MaxEdits = 1
  MaxOps = 1
SPECIFICATION Spec
SYMMETRY Symmetry
INVARIANT AppliedIsAlwaysWhatRuns
CHECK_DEADLOCK FALSE
