SPECIFICATION SpecBoth
CONSTANTS
  Sub = {s1, s2}
  None = None
  Ring = 3
  Cap = 4
  MaxLines = 7
  ConsoleRing = 1
  ConsoleCap = 1
  ConsoleLines = 1
CHECK_DEADLOCK FALSE
INVARIANTS
  ReplayFits
  Seamless
PROPERTIES
  NothingLeaks
