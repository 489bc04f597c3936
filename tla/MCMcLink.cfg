SPECIFICATION SpecParts
CONSTANTS
  Request = {r1, r2}
  McName = {m1, m2}
  User = {u1}
  Code = {c1, c2}
  None = None
  MaxChanges = 2
  MaxAsked = 2
SYMMETRY LinkSymmetry
CHECK_DEADLOCK FALSE
INVARIANTS
  LinkIsProven
  CodeOnceUnlessRaced
PROPERTIES
  ListNeverGoesBack
