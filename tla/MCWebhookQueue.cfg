\* The queue in both modes, over a database file, with two immediate attempts and a
\* timed one, a reset and a restart. No symmetry: one property is a liveness
\* property. It may stop: after Close with no restart left.
CONSTANTS
  Jobs = {j1, j2, j3}
  None = None
  RetryDelays <- ThreeDelays
  TimeScale = 1
  Persistent = TRUE
  MaxResets = 1
  MaxRestarts = 1
SPECIFICATION FairSpec
CHECK_DEADLOCK FALSE
INVARIANTS
  NoStrandedJob
  NoSilentLoss
PROPERTIES
  PromiseSafety
  PromiseKept
