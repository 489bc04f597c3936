SPECIFICATION SpecParts
CONSTANTS
  Writer = {r1, r2}
  Updater = {u1, u2}
  Player = {p1, p2}
  Key = {"level-name"}
  Listed <- ListedPlayers
  Value <- UserCaches
  Absent = Absent
  Empty = Empty
  Garbled = Garbled
  None = None
  MaxDeletions = 2
  MaxEvents = 2
SYMMETRY PlayersSymmetry
CHECK_DEADLOCK FALSE
INVARIANTS
  WholeUnlessMixed
  RemovedIsGone
  KeysAreKept
PROPERTIES
  CacheLosesOne
