SPECIFICATION Spec
CONSTANTS
  j1 = j1
  j2 = j2
  p1 = p1
  p2 = p2
  Jobs = {j1, j2}
  Processes = {p1, p2}
  Matching = {j1}
SYMMETRY Symmetry
INVARIANTS
  LogsAreWhole
  CutLogsAreBeingWritten
PROPERTIES
  MatchingLogsStay
