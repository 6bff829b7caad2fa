SPECIFICATION FairSpec
CONSTANTS
  None = None
  Labels = {"any"}
  MaxGen = 3
  Subs = {s1, s2}
  First = s1
  Urls = {u1, u2}
  Conns = {n1, n2}
  Intervals = {1}
  MaxClock = 1
  MaxAsks = 1
  MaxEvents = 1
CHECK_DEADLOCK FALSE
INVARIANTS
  Consistent
  ValidatorsNameContent
  OthersSurvive
PROPERTIES
  AttemptsAreSpaced
  CommitsAreJustified
  ShutdownEnds
  DueIsAttempted
