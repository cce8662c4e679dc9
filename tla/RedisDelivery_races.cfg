SPECIFICATION FairSpec
CONSTANTS
  o1 = o1
  h1 = h1
  h2 = h2
  w1 = w1
  NoOwner = NoOwner
  Gap = Gap
  End = End
  NoOp = NoOp
  Ops = {o1}
  Helpers = {h1, h2}
  Owners = {w1}
  MaxGen = 2
  MaxFaults = 1
CHECK_DEADLOCK FALSE
INVARIANTS
  TypeOK
  DeliveredOnce
PROPERTIES
  KeepsPairs
  OutboxDrains
