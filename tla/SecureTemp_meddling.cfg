SPECIFICATION Spec
CONSTANTS
  artifact = artifact
  directory = directory
  maker = maker
  s1 = s1
  s2 = s2
  Artifacts = {artifact}
  Directories = {directory}
  Makers = {maker}
  Sweepers = {s1, s2}
  Objects = {1, 2, 3, 4, 5}
  Together = {{artifact, s1}, {directory, s1}, {maker, s1}}
  MaxTrouble = 2
CHECK_DEADLOCK FALSE
INVARIANTS
  TypeOK
  ContentsPrivate
  CleansUp
PROPERTIES
  RemovesOnlyItsOwn
