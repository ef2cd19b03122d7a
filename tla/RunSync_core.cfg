SPECIFICATION Spec
CONSTANTS
  r1 = r1
  w1 = w1
  w2 = w2
  j1 = j1
  j2 = j2
  Nil = Nil
  Runs = {r1}
  Workflows = {w1, w2}
  Owner <- OneWorkflow
  MaxAttempt = 2
  JobNums = {j1, j2}
  Deletes = TRUE
  Workers = 1
  QuotaHits = TRUE
  WholeScans = FALSE
SYMMETRY JobSymmetry
INVARIANTS
  TypeOK
  CacheNeverAhead
  RunsKeepTheirWorkflow
  FrozenListIsComplete
PROPERTIES
  IsMirror
  JobsNeverLost
  AttemptsStayCompleted
