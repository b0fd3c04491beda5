CONSTANTS
  Listers = {"history"}
  Limits = {1, 2}
  Shift <- MCShift
  Sizes = {2, 3}
  Filters <- MCFilters
  SinceIds = {0, 1}
  End = End
  MaxRow = 5
  MaxEdits = 0
SPECIFICATION WalkSpec
CHECK_DEADLOCK FALSE
INVARIANT EachOnce
