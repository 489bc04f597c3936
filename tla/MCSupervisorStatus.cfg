SPECIFICATION Spec
CONSTANTS
  Jvm = {j1}
  None = None
  MaxVerbs = 0
  MaxBoots = 1
  MaxFaults = 1
  Publishing = TRUE
  Absent = Absent
  Empty = Empty
  Garbled = Garbled
CHECK_DEADLOCK FALSE
PROPERTIES
  BootPublishesFirst
  StatusSettles
