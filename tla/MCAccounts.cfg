SPECIFICATION SpecAll
CONSTANTS
  Request = {r1, r2}
  Name = {n1, n2}
  Token = {t1}
  Key = {k1, k2}
  Password = {p1}
  None = None
  User = {u1, u2}
  Change = {m1, m2}
  Address = {a1, a2}
  Rate = 2
  Cost = 3
  Burst = 2
  TTL = 3
  MaxTime = 5
  Editor = {e1, e2}
  Picture = {f1, f2, f3}
  NoPicture = NoPicture
SYMMETRY UserSymmetry
INVARIANTS
  ResetOnce
  InvitationOnceUnlessRaced
  OverridesFit
  ManagerRemains
  BurstBound
  AvatarsAgree
PROPERTIES
  ResetByNewest
CHECK_DEADLOCK FALSE
