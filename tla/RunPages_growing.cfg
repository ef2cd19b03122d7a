SPECIFICATION Spec
CONSTANTS
  MaxRuns = 4
  OldRuns = 3
  PageSize = 2
  Cap = 4
  MaxPages = 0
CHECK_DEADLOCK FALSE
INVARIANTS
  ScanAddsOnlyNewRuns
PROPERTIES
  DateRangeHasNoGaps
  DateRangeIsComplete
