SPECIFICATION Spec
CONSTANTS
  r1 = r1
  w1 = w1
  w2 = w2
  j1 = j1
  j2 = j2
  Nil = Nil
  Runs = {r1}
  Workflows = {w1}
  Owner <- OneWorkflow
  MaxAttempt = 1
  JobNums = {j1}
  Deletes = FALSE
  Workers = 1
  QuotaHits = TRUE
  WholeScans = FALSE
INVARIANTS
  FrozenIsComplete
