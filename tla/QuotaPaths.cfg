\* Two requests of every kind, for a community with units, one without and none.
SPECIFICATION Spec
CONSTANTS
  QuotaReq = {r1, r2}
  Community = {k1, k2}
  CoefficientsOf <- ThreeUnitsOrNone
  MaxDay = 1
  Totals <- AllTotals
  Cent = 2
  Whole = 4
  k1 = k1
  k2 = k2
  None = None
SYMMETRY Symmetry
INVARIANTS
  TypeOK
  AnswersAreTrue
  OverlapsComeFromRaces
CHECK_DEADLOCK FALSE
