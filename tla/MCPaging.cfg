CONSTANTS
  Listers = {"rest", "graphql", "reverse", "list"}
  Limits = {1, 2}
  Shift <- MCShift
  Sizes = {0, 2, 5}
  Filters <- MCFilters
  SinceIds = {0, 1}
  End = End
  MaxRow = 6
  MaxEdits = 3
SPECIFICATION WalkSpec
CHECK_DEADLOCK FALSE
INVARIANTS
  PagesTypeOK
  EachOnce
  NothingSkipped
PROPERTIES
  WalkEnds
