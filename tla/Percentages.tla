---------------------------- MODULE Percentages ----------------------------
(***************************************************************************)
(* The participation coefficients of a new community: the form of the      *)
(* browser adds up percentages with decimal.js, which keeps ClientDigits   *)
(* significant digits (20), and sends hundredths of them as strings; the   *)
(* server adds those up with Decimals, which keep ServerDigits (28).       *)
(*                                                                         *)
(* A percentage is a natural number of 10^-Scale percent, and so is the    *)
(* coefficient that stands for it, since the division by a hundred only    *)
(* moves the point.  Scale is as fine as what is typed in, and at least    *)
(* what the browser adds up exactly.                                       *)
(***************************************************************************)
EXTENDS Integers, Sequences, SequencesExt

CONSTANTS ClientDigits, ServerDigits, Scale

ASSUME DigitsAssumption == /\ ClientDigits \in Nat \ {0} /\ ServerDigits \in Nat \ {0}
                           /\ Scale \in Nat
                           /\ ClientDigits <= ServerDigits /\ ClientDigits <= Scale + 3

PowerOfTen(n) == LET power[i \in 0..n] == IF i = 0 THEN 1 ELSE 10 * power[i - 1]
                 IN  power[n]

Full == PowerOfTen(Scale + 2)

(* What a number of that size is written in units of: the least power of   *)
(* ten that leaves it no more than these digits.                           *)
LastPlace(n, digits) ==
  LET from[e \in 0..n] == IF n < PowerOfTen(digits + e) THEN PowerOfTen(e) ELSE from[e + 1]
  IN  from[0]

(* decimal.js rounds halves up, Python's default context to even.          *)
ClientRounded[n \in Nat] ==
  LET place == LastPlace(n, ClientDigits) IN ((2 * n + place) \div (2 * place)) * place
ServerRounded[n \in Nat] ==
  LET place == LastPlace(n, ServerDigits)
      up == 2 * (n % place) > place \/ (2 * (n % place) = place /\ (n \div place) % 2 = 1)
  IN ((n \div place) + (IF up THEN 1 ELSE 0)) * place

(* Each addition is rounded.                                               *)
RoundedTotal(rounded, f) ==
  LET sum[i \in 0..Len(f)] == IF i = 0 THEN 0 ELSE rounded[sum[i - 1] + f[i]]
  IN  sum[Len(f)]

-----------------------------------------------------------------------------
(* CommunityCreateView *)

ClientTotal(percentages) == RoundedTotal(ClientRounded, percentages)

\* Mutant: a row of nought percent is valid.
IsNotNegative(p) == p >= 0

(* parsePercentage                                                         *)
IsPercentage(p) == p > 0

CanSubmit(percentages) == /\ percentages # <<>>
                          /\ \A p \in ToSet(percentages) : IsPercentage(p)
                          /\ ClientTotal(percentages) = Full

Sent(percentages) == [i \in DOMAIN percentages |-> ClientRounded[percentages[i]]]

-----------------------------------------------------------------------------
(* ParticipationCoefficient and the invariant of Community *)

ServerTotal(coefficients) == RoundedTotal(ServerRounded, coefficients)

Accepted(coefficients) ==
  /\ \A c \in ToSet(coefficients) : 0 < c /\ c <= Full
  /\ coefficients # <<>> => ServerTotal(coefficients) = Full
=============================================================================
