SPECIFICATION FairSpec
CONSTANTS
  x1 = x1
  x2 = x2
  NoOwner = NoOwner
  Api = Api
  Owners = {x1}
  MaxGen = 1
  NEvents = 2
  MaxPending = 2
  Polls = 2
  MaxFaults = 1
  MaxDrops = 1
CHECK_DEADLOCK FALSE
INVARIANTS
  TypeOK
  ReaderTold
PROPERTIES
  StreamsEnd
