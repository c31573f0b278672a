CONSTANTS
  Kinds = {"heap"}
  MaxEvents = 7
  Times = {1, 2}
SPECIFICATION Spec
INVARIANT RootEarliest
CHECK_DEADLOCK FALSE
