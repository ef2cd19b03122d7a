SPECIFICATION Spec
CONSTANTS
  t1 = t1
  t2 = t2
  u1 = u1
  Threads = {t1, t2}
  Resources = {u1}
  Quota = 4
  quota_limit = 2
  retries = 2
  MaxVersion = 2
  MaxLost = 2
INVARIANTS
  TypeOK
  QuotaFloor
  BodiesAreFresh
PROPERTIES
  CallsEnd
