SPECIFICATION PageSpec
CONSTANTS
  Nil = Nil
  Ids = {a, b, c}
  FirstSub = a
  SecondSub = b
  Sites = {a, b}
  MaxGen = 3
  MaxActs = 2
  MaxTouches = 1
CHECK_DEADLOCK FALSE
INVARIANTS
  LocksAreTrue
  ShownIsStored
  EveryAnswerIsRead
  ListCatchesUp
PROPERTIES
  UntouchedStays
