SPECIFICATION Spec
CONSTANTS
  r1 = r1
  r2 = r2
  t1 = t1
  w1 = w1
  s1 = s1
  q1 = q1
  q2 = q2
  NoOwner = NoOwner
  Runs = {r1, r2}
  Threads = {t1}
  ThreadOf <- OneThread
  Workers = {w1}
  Owners = {w1}
  Slots = {s1}
  Requests = {q1, q2}
  Scanners = {}
  BulkCancel = FALSE
  SnapshotClaims = TRUE
  MaxGen = 1
  MaxFaults = 0
  MaxLosses = 0
SYMMETRY Symmetry
CHECK_DEADLOCK FALSE
INVARIANTS
  OneActiveRunPerThread
