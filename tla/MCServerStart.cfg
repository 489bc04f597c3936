SPECIFICATION SpecParts
CONSTANTS
  Request = {r1, r2}
  Limit = 2
  Ring = 2
  Cap = 2
  MaxSessions = 3
  MaxChatter = 2
  MaxTicks = 5
  MaxFifo = 2
SYMMETRY RequestSymmetry
INVARIANTS
  ReadyIsNotStale
PROPERTIES
  ServingIsNotKilled
CHECK_DEADLOCK FALSE
