----------------------------- MODULE Allocation -----------------------------
(***************************************************************************)
(* allocate_largest_remainder: the split of a total over the units of a    *)
(* community by their participation coefficients, to the cent.  Decimals   *)
(* are exact here: a total is a number of ticks, Cent of them to a cent;   *)
(* a coefficient is a number of Whole-ths.  (The 28 digits of a Decimal    *)
(* are not modelled.)                                                      *)
(***************************************************************************)
EXTENDS Integers, Sequences, FiniteSets

CONSTANTS Cent, Whole

ASSUME UnitsOfMeasure == Cent \in Nat \ {0} /\ Whole \in Nat \ {0}

(* sum(f, Decimal("0"))                                                     *)
Total(f) == LET sum[i \in 0..Len(f)] == IF i = 0 THEN 0 ELSE sum[i - 1] + f[i]
            IN  sum[Len(f)]

(* ROUND_DOWN is towards zero.                                             *)
RoundedDown(a, b) == IF a >= 0 THEN a \div b ELSE -((-a) \div b)

(* to_integral_value: ROUND_HALF_EVEN, the context's default.              *)
HalfEven(a, b) ==
  LET up == 2 * (a % b) > b \/ (2 * (a % b) = b /\ (a \div b) % 2 = 1)
  IN (a \div b) + (IF up THEN 1 ELSE 0)

(* truncated_amounts, in cents, and remainders.                            *)
Truncated(t, coef) == [i \in DOMAIN coef |-> RoundedDown(t * coef[i], Cent * Whole)]
Remainders(t, coef) ==
  [i \in DOMAIN coef |-> t * coef[i] - Truncated(t, coef)[i] * Cent * Whole]

LeftoverCents(t, coef) == HalfEven(t - Cent * Total(Truncated(t, coef)), Cent)

\* Mutant: ties are broken from the last unit.
AheadFromTheEnd(rest, i, j) == rest[i] > rest[j] \/ (rest[i] = rest[j] /\ i > j)

(* Of the stable sort by remainder, the greatest first.                    *)
Ahead(rest, i, j) == rest[i] > rest[j] \/ (rest[i] = rest[j] /\ i < j)

Rank(rest, i) == Cardinality({j \in DOMAIN rest : Ahead(rest, j, i)})

(* ranked_indices[:n]: a negative n drops the last ones.                   *)
IndicesToBump(t, coef) ==
  LET n == LeftoverCents(t, coef)
  IN {i \in DOMAIN coef : Rank(Remainders(t, coef), i) < IF n >= 0 THEN n ELSE Len(coef) + n}

(* final_amounts, in ticks.                                                *)
Amounts(t, coef) ==
  [i \in DOMAIN coef |->
     Cent * (Truncated(t, coef)[i] + IF i \in IndicesToBump(t, coef) THEN 1 ELSE 0)]

(* Otherwise QuotaAllocationSumMismatchError is raised.                    *)
AddsUp(t, coef) == coef = <<>> \/ Total(Amounts(t, coef)) = t

-----------------------------------------------------------------------------
(* The splits of t into whole cents, in ticks.                             *)
Splits(t, coefs) ==
  {f \in [DOMAIN coefs -> {Cent * k : k \in 0..(t \div Cent)}] : Total(f) = t}

Distance(f, t, coefs) ==
  Total([i \in DOMAIN coefs |-> (f[i] * Whole - t * coefs[i]) * (f[i] * Whole - t * coefs[i])])

FavoursTheFirst(f, g) ==
  \E i \in DOMAIN f : f[i] > g[i] /\ \A j \in 1..(i - 1) : f[j] = g[j]

IsTheClosest(amounts, t, coefs) ==
  /\ amounts \in Splits(t, coefs)
  /\ \A f \in Splits(t, coefs) \ {amounts} :
       \/ Distance(amounts, t, coefs) < Distance(f, t, coefs)
       \/ Distance(amounts, t, coefs) = Distance(f, t, coefs) /\ FavoursTheFirst(amounts, f)
=============================================================================
