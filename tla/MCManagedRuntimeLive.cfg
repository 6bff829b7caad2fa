CONSTANTS
  Ops = {o1, o2}
  Subs = {s1}
  None = None
  MaxGen = 1
  MaxEdits = 0
SPECIFICATION FairSpec
CHECK_DEADLOCK FALSE
PROPERTIES
  NobodyWaitsForever
