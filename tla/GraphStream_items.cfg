SPECIFICATION Spec
CONSTANTS
  c1 = c1
  c2 = c2
  t1 = t1
  t2 = t2
  a = a
  Calls = {c1, c2}
  Tools = {t1, t2}
  Texts = {a}
  Scenes <- MCScenes
  MaxChunks = 2
  MaxItems = 4
  MaxSteps = 2
CHECK_DEADLOCK FALSE
INVARIANTS
  TypeOK
  SdkMessages
  OneIdentity
  BlocksBalanced
  EndTellsAll
