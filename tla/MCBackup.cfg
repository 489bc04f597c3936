SPECIFICATION SpecParts
CONSTANTS
  Job = {scheduler, r1}
  Scheduler = scheduler
  None = None
  Keep = 1
  MaxVersions = 2
  MaxSeconds = 3
  MaxConsole = 2
  MaxCrashes = 1
INVARIANTS
  WholeUnlessOverlap
  AWorldSurvives
  WorldIsBack
  SavingComesBack
PROPERTIES
  PruneLeavesKeep
CHECK_DEADLOCK FALSE
