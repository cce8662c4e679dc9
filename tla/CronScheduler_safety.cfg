SPECIFICATION Spec
CONSTANTS
  bound = bound
  stateless = stateless
  th1 = th1
  th2 = th2
  th3 = th3
  r1 = r1
  r2 = r2
  p1 = p1
  p2 = p2
  NoRun = NoRun
  NoThread = NoThread
  NoScheduler = NoScheduler
  Crons = {bound, stateless}
  BoundTo <- Binding
  Deletes = {stateless}
  Hooked = {bound}
  MaxTicks = 1
  Runs = {r1, r2}
  Threads = {th1, th2, th3}
  Schedulers = {p1, p2}
  Limit = 1
  MaxAttempts = 2
  Strict = TRUE
  MaxFaults = 1
  MaxLosses = 0
  MaxEdits = 2
SYMMETRY Interchangeable
INVARIANTS
  TypeOK
  StartedHasNoRun
  TicksRunOnce
PROPERTIES
  DropsSpareDispatched
  OutcomesFinal
