SPECIFICATION Spec
CONSTANTS
  r1 = r1
  t1 = t1
  w1 = w1
  w2 = w2
  s1 = s1
  s2 = s2
  q1 = q1
  c1 = c1
  NoOwner = NoOwner
  Runs = {r1}
  Threads = {t1}
  ThreadOf <- OneThread
  Workers = {w1, w2}
  Owners = {w1, w2}
  Slots = {s1, s2}
  Requests = {q1}
  Scanners = {c1}
  BulkCancel = FALSE
  SnapshotClaims = FALSE
  MaxGen = 2
  MaxFaults = 1
  MaxLosses = 0
SYMMETRY Symmetry
CHECK_DEADLOCK FALSE
INVARIANTS
  ExecutesOnce
PROPERTIES
  KeepsContract
