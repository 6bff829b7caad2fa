CONSTANTS
  Settings = {s1, s2, s3}
  Managed = Managed
  Torn = Torn
  Nothing = Nothing
  MayTear = TRUE
  MaxRestarts = 2
SPECIFICATION ProxySpec
SYMMETRY Symmetry
INVARIANTS
  Safety
PROPERTIES
  CoreOutlivesProxy
