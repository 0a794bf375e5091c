\* Two registrations, two assignments, or one of each.
SPECIFICATION ScenariosSpec
CONSTANTS
  RegisterReq = {r1, r2}
  AssignReq = {s1, s2}
  ListReq = {i1}
  Unit = {u1, u2}
  Owner = {o1, o2}
  Cif = {f1, f2}
  UnitLists <- Lists
  GivenOwners <- OneOwnerOrNone
  r1 = r1
  r2 = r2
  s1 = s1
  u1 = u1
  u2 = u2
  o1 = o1
  o2 = o2
  f1 = f1
  None = None
INVARIANTS
  TypeOK
  RegistrationsAreWhole
  AssignmentsAreKept
PROPERTIES
  RegistrationsAreAnswered
  ImplementsUnitOwners
CHECK_DEADLOCK FALSE
