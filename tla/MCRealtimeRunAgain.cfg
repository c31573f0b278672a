CONSTANTS
  Events = {e1, e2}
  Contexts = {c1}
  NoContext = NoContext
  Delays = {0, 2}
  Epoch = 3
  MaxWall = 7
  MaxRuns = 2
  Jiffy = 1
  SpareJiffies = 1
  IdleDelay = 3
  HardLimit = 1
SPECIFICATION Spec
SYMMETRY Interchangeable
INVARIANTS NeverInPastAgain
CHECK_DEADLOCK FALSE
