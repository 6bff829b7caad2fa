CONSTANTS
  Ops = {o1, o2, o3}
  Subs = {s1, s2}
  None = None
  MaxGen = 2
  MaxEdits = 1
SPECIFICATION Spec
SYMMETRY Symmetry
CHECK_DEADLOCK FALSE
INVARIANTS
  Consistent
  HotSwitchIsSafe
  NoCoreAfterShutdown
PROPERTIES
  NoLostEdit
  QuitFreezesSelection
  SwitchFollowsProtocol
