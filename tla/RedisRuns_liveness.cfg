SPECIFICATION FairSpec
CONSTANTS
  r1 = r1
  t1 = t1
  w1 = w1
  w2 = w2
  s1 = s1
  q1 = q1
  c1 = c1
  NoOwner = NoOwner
  Runs = {r1}
  Threads = {t1}
  ThreadOf <- OneThread
  Workers = {w1, w2}
  Owners = {w1, w2}
  Slots = {s1}
  Requests = {q1}
  Scanners = {c1}
  BulkCancel = TRUE
  SnapshotClaims = FALSE
  MaxGen = 1
  MaxFaults = 2
  MaxLosses = 0
CHECK_DEADLOCK FALSE
PROPERTIES
  WorkDrains
