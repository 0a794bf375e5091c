\* A request whose total is a negative cent.
SPECIFICATION Spec
CONSTANTS
  QuotaReq = {r1}
  Community = {k1}
  CoefficientsOf <- ThreeUnits
  MaxDay = 0
  Totals <- AllTotals
  Cent = 2
  Whole = 4
  k1 = k1
  k2 = k2
  None = None
SYMMETRY Symmetry
INVARIANT NoTotalBelowZeroIsAnInternalError
CHECK_DEADLOCK FALSE
