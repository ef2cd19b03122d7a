SPECIFICATION Spec
CONSTANTS
  p1 = p1
  p2 = p2
  Processes = {p1, p2}
  MaxPolls = 4
  MaxTime = 5
  OneAtATime = TRUE
CHECK_DEADLOCK FALSE
INVARIANTS
  RowsHaveSnapshots
PROPERTIES
  HistoryOnlyGrows
