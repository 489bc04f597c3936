SPECIFICATION Spec
CONSTANTS
  Jvm = {j1, j2}
  None = None
  MaxVerbs = 2
  MaxBoots = 1
  MaxFaults = 1
  Publishing = FALSE
  Absent = Absent
  Empty = Empty
  Garbled = Garbled
CHECK_DEADLOCK FALSE
INVARIANTS
  StoppedMeansDown
PROPERTIES
  ImplementsSlot
  StopLeavesNothing
  HungJvmBlocksNobody
