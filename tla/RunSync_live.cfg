SPECIFICATION LiveSpec
CONSTANTS
  r1 = r1
  r2 = r2
  w1 = w1
  w2 = w2
  Nil = Nil
  Runs = {r1}
  Workflows = {w1}
  Owner <- OneWorkflow
  MaxAttempt = 2
  JobNums = {1}
  Deletes = FALSE
  Workers = 1
  QuotaHits = TRUE
  WholeScans = TRUE
PROPERTIES
  StaleRunsAreCorrected
  ActiveRunsGetCached
