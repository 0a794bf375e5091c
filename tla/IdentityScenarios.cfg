\* Claims to owners, NIFs and emails: two unlinked accounts, no store, one owner.
SPECIFICATION ScenariosSpec
CONSTANTS
  OwnerReq = {o1, o2}
  AccountReq = {p1, p2, p3}
  LinkReq = {l1, l2}
  Nif = {n1, n2}
  Email = {e1, e2, e3}
  o1 = o1
  n1 = n1
  n2 = n2
  p1 = p1
  p2 = p2
  e1 = e1
  e2 = e2
  l1 = l1
  None = None
INVARIANTS
  TypeOK
  KeysAreUnique
  AnswersAreTrue
PROPERTIES
  ClaimsAreAnswered
  ImplementsOwnerLinks
CHECK_DEADLOCK FALSE
