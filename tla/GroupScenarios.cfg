\* Three changes of one group, or two groups and a change from an empty store.
SPECIFICATION ScenariosSpec
CONSTANTS
  CreateReq = {g1, g2}
  ChangeReq = {r1, r2, r3}
  Community = {c1, c2, c3}
  Name = {n1, n2, n3}
  Slug = {s1}
  SlugOf <- TwoNamesOneSlug
  n1 = n1
  n2 = n2
  n3 = n3
  s1 = s1
  None = None
SYMMETRY Symmetry
INVARIANTS
  TypeOK
  MembersAreTheSum
PROPERTY ImplementsMembership
CHECK_DEADLOCK FALSE
