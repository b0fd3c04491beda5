\* What size counts once the twin was reset.
CONSTANTS
  Jobs = {j1, j2}
  None = None
  RetryDelays <- TwoDelays
  TimeScale = 1
  Persistent = FALSE
  MaxResets = 1
  MaxRestarts = 0
SPECIFICATION Spec
CHECK_DEADLOCK FALSE
INVARIANT SizeCountsInFlight
