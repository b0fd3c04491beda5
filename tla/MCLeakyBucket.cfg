\* One client with two requests at a time, a bucket of three points, two of them
\* restored in a second of three milliseconds, and requests that overdraw it. The
\* clock is bounded, so it stops: at MaxTime with an empty bucket.
CONSTANTS
  k1 = k1
  Requests = {r1, r2}
  Keys = {k1}
  KeyOf <- OneClient
  None = None
  Costs <- MCCosts
  MaxAvailable = 3
  RestoreRate = 2
  Second = 3
  MaxTime = 5
  MaxResets = 1
SYMMETRY RequestSymmetry
SPECIFICATION Spec
CHECK_DEADLOCK FALSE
INVARIANTS
  OverdraftBounded
  RetryAfterSuffices
  BudgetKept
PROPERTY ImplementsPolicy
