\* From an empty store: unlinked accounts, two communities, every answer.
SPECIFICATION Spec
CONSTANTS
  CreateReq = {v1}
  CastReq = {b1}
  CloseReq = {k1}
  a1 = a1
  a2 = a2
  o1 = o1
  o2 = o2
  u1 = u1
  u2 = u2
  c1 = c1
  c2 = c2
  b1 = b1
  b2 = b2
  b3 = b3
  Account = {a1, a2}
  Owner = {o1, o2}
  Community = {c1, c2}
  Unit = {u1, u2}
  Option = {x}
  CommunityOf <- OneUnitEach
  Links0 <- OnlyA1Linked
  Owns0 <- O1OwnsU1
  MaxTime = 2
  None = None
SYMMETRY RequestSymmetry
INVARIANTS
  TypeOK
  BallotsAreEntitled
  ClosingIsCalculable
CHECK_DEADLOCK FALSE
