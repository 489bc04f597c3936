SPECIFICATION FairTailSpec
CONSTANTS
  Pieces = 2
  BacklogMax = 2
  Window = 5
  MaxWritten = 4
  MaxFiles = 2
  MaxRestarts = 1
INVARIANTS
  ShownAsWritten
PROPERTIES
  EveryLineIsShown
CHECK_DEADLOCK FALSE
