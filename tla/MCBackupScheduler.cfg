SPECIFICATION SpecAll
CONSTANTS
  Request = {r1, r2}
  Minutes = {0, 1, 5, 11}
  Minute = 12
  Word = 256
  None = None
  Stopper = {s1, s2}
  StopLimit = 2
  Deadline = 3
  MaxVerbs = 3
  Caller = {c1, c2, c3}
  ServerID = {default, other}
  DefaultID = default
  MaxMade = 3
INVARIANTS
  ScheduleFollowsRow
  OnlyOverflowPanics
  
  OneRuntimePerServer
PROPERTIES
  ChangeIsRead
