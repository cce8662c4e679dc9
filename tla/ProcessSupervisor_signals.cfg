SPECIFICATION FairSpec
CONSTANTS
  Platforms = {"posix", "windows"}
  MaxSignals = 2
  MaxForks = 2
  MaxFaults = 2
INVARIANTS
  TypeOK
  NothingLeft
  NeverAstray
  FirstSignalDecides
PROPERTIES
  Returns
CHECK_DEADLOCK FALSE
