\* Splits of up to eleven cents, in halves, over up to four units with coefficients
\* in eighths; identifiers; forms of up to three units with client numbers of five
\* digits, server numbers of six and percentages of four decimals.
SPECIFICATION Spec
CONSTANTS
  Cent = 2
  Whole = 8
  MaxUnits = 4
  MaxTotal = 22
  ClientDigits = 5
  ServerDigits = 6
  Scale = 4
  Values = {0, 1, 100, 10000, 333300, 333333, 333334, 333400, 499999, 500000, 500001, 666600, 666666, 666667, 990000, 999900, 999999, 1000000, 1000001}
INVARIANTS
  AllocationIsTheClosest
  MistypedIdentifiersAreRefused
  FormsAgreeWithTheServer
CHECK_DEADLOCK FALSE
