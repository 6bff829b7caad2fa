SPECIFICATION Spec
CONSTANTS
  Ops = {o1}
  Window = 1
  Capacity = 1
  MaxRevision = 3
  MaxClock = 2
  MaxActions = 1
  MaxRestores = 1
  MaxChannel = 1
CHECK_DEADLOCK FALSE
INVARIANTS
  Consistent
  EveryPayloadIsRead
  PageIsCurrent
PROPERTIES
  PageNeverGoesBack
