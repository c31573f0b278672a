CONSTANTS
  Flows = {1}
  MaxPackets = 1
  Hops = 1
  MaxPerHopDelay = 3
  CheckInterval = 1
  Step = 1
  PromptNetwork = FALSE
  StartDelays = {0, 1}
  StopDelays = {1}
  MaxTime = 6
SPECIFICATION Spec
INVARIANT LostOnce
CHECK_DEADLOCK FALSE
