SPECIFICATION FairSpec
CONSTANTS
  bound = bound
  stateless = stateless
  th1 = th1
  th2 = th2
  th3 = th3
  r1 = r1
  r2 = r2
  p1 = p1
  p2 = p2
  NoRun = NoRun
  NoThread = NoThread
  NoScheduler = NoScheduler
  Crons = {bound, stateless}
  BoundTo <- Binding
  Deletes = {stateless}
  Hooked = {bound}
  MaxTicks = 1
  Runs = {r1}
  Threads = {th1, th2, th3}
  Schedulers = {p1}
  Limit = 2
  MaxAttempts = 2
  Strict = FALSE
  MaxFaults = 1
  MaxLosses = 1
  MaxEdits = 1
PROPERTIES
  TicksFollowedUp
