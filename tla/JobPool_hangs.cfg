SPECIFICATION FairSpec
CONSTANTS
  i1 = i1
  i2 = i2
  i3 = i3
  i4 = i4
  t1 = t1
  t2 = t2
  Nil = Nil
  Items = {i1, i2, i3}
  Threads = {t1, t2}
  QuotaHits = TRUE
  Errors = FALSE
CHECK_DEADLOCK FALSE
PROPERTIES
  StageEnds
