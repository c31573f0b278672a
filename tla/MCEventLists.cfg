CONSTANTS
  Kinds = {"list", "map", "heap", "calendar"}
  MaxEvents = 6
  Times = {1, 2, 5, 11}
SPECIFICATION Spec
INVARIANT FiledAndInScan
PROPERTY SchedulerContract
CHECK_DEADLOCK FALSE
