SPECIFICATION Spec
CONSTANTS
  r1 = r1
  r2 = r2
  p1 = p1
  p2 = p2
  Runs = {r1, r2}
  Processes = {p1, p2}
  MaxFetch = 3
  OneAtATime = TRUE
INVARIANTS
  TypeOK
PROPERTIES
  ActsAtomically
