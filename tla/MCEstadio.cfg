CONSTANTS
  Flows = {0, 250}
  MaxPackets = 2
  Hops = 1
  MaxPerHopDelay = 125
  CheckInterval = 100
  Step = 25
  PromptNetwork = TRUE
  StartDelays = {}
  StopDelays = {}
  MaxTime = 600
  SimTimes = {350, 375, 400}
SPECIFICATION EstadioSpec
INVARIANTS BooksBalance LossDetectedInTime DelayWithinDuration
  EveryFanServed GeneratorsStop LineEverySecond ReportsAgree
CHECK_DEADLOCK FALSE
