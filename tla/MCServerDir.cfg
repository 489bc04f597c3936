SPECIFICATION SpecParts
CONSTANTS
  Request = {r1, r2}
  Path <- Paths
  MaxServers = 2
SYMMETRY RequestSymmetry
INVARIANTS
  CreatedIsWhole
  FreshWorld
  ControlStays
CHECK_DEADLOCK FALSE
