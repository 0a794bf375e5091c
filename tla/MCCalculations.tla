--------------------------- MODULE MCCalculations ---------------------------
(***************************************************************************)
(* Allocation, Identifiers and Percentages over bounded inputs.  A job is  *)
(* one input of one of them; its answer is what the code makes of it.      *)
(***************************************************************************)
EXTENDS Allocation, Identifiers, Percentages

CONSTANTS MaxUnits,  \* units of a community
          MaxTotal,  \* in ticks
          Values     \* percentages that may be typed in

ASSUME BoundsAssumption == MaxUnits \in Nat /\ MaxTotal \in Nat /\ Values \subseteq Int

VARIABLES job, answer

vars == <<job, answer>>

(* The coefficients a community may have: they add up to the whole.        *)
Communities == {c \in UNION {[1..n -> 1..Whole] : n \in 1..MaxUnits} : Total(c) = Whole}

(* Identifiers whose digits are noughts but for two neighbours.  Each      *)
(* control is a sum over the positions, so that what one or two neighbours *)
(* add does not depend on the others.                                      *)
Neighbours(first, from) ==
  {[i \in 1..8 |-> IF i = 1 THEN first ELSE IF i = k THEN a ELSE IF i = k + 1 THEN b ELSE "0"] :
     k \in from..7, a \in ToSet(DigitChars), b \in ToSet(DigitChars)}

Nifs == {Append(s, c) : s \in UNION {Neighbours(f, 2) : f \in {"0", "7", "X", "Y", "Z"}},
                        c \in ToSet(NifLetters)}
Cifs == {Append(s, c) : s \in UNION {Neighbours(f, 2) : f \in {"H", "G", "P"}},
                        c \in ToSet(DigitChars) \cup ToSet(CifLetters)}

Init ==
  /\ answer = "none"
  /\ \/ \E t \in -MaxTotal..MaxTotal, c \in Communities :
          job = [of |-> "split", total |-> t, coefs |-> c, amounts |-> <<>>]
     \/ \E s \in {n \in Nifs : NifAccepted(n)} : job = [of |-> "nif", typed |-> s]
     \/ \E s \in {n \in Cifs : CifAccepted(n)} : job = [of |-> "cif", typed |-> s]
     \/ \E n \in 1..3 : \E ps \in [1..n -> Values] :
          job = [of |-> "form", percentages |-> ps]

(* allocate_largest_remainder                                              *)
Split == /\ answer = "none" /\ job.of = "split" /\ AddsUp(job.total, job.coefs)
         /\ answer' = "split"
         /\ job' = [job EXCEPT !.amounts = Amounts(job.total, job.coefs)]

Mismatch == /\ answer = "none" /\ job.of = "split" /\ ~AddsUp(job.total, job.coefs)
            /\ answer' = "mismatch" /\ UNCHANGED job

(* A form that may be sent is sent, and judged by the server.              *)
Send == /\ answer = "none" /\ job.of = "form" /\ CanSubmit(job.percentages)
        /\ answer' = IF Accepted(Sent(job.percentages)) THEN "accepted" ELSE "refused"
        /\ UNCHANGED job

Spec == Init /\ [][Split \/ Mismatch \/ Send]_vars

-----------------------------------------------------------------------------
(* allocate_largest_remainder splits every total that is a whole number of *)
(* cents and not negative, and no total that is not.  Of all splits in     *)
(* whole cents it answers the closest to the exact shares, and of equally  *)
(* close ones that which charges the first units.                          *)
AllocationIsTheClosest ==
  /\ answer = "split" => job.total % Cent = 0
  /\ answer = "mismatch" => job.total % Cent # 0 \/ job.total < 0
  /\ answer = "split" /\ job.total >= 0 => IsTheClosest(job.amounts, job.total, job.coefs)

(* What typing s with one slip may give: another character at i, or two    *)
(* neighbours swapped.                                                     *)
WithSlipAt(s, i, c) == [s EXCEPT ![i] = c]
Swapped(s, i) == [s EXCEPT ![i] = s[i + 1], ![i + 1] = s[i]]

Characters == ToSet(DigitChars) \cup ToSet(NifLetters) \cup ToSet(CifLetters)
              \cup Organizations \cup {" ", "\n"}

(* The control of a NIF, NIE or CIF finds a wrong digit, a wrong control   *)
(* and two digits swapped.  The exceptions: a CIF does not tell 09 from    *)
(* 90, and one of an organisation that takes both kinds of control has two *)
(* spellings.  Of all characters, a line break alone may follow, and then  *)
(* follows every identifier: each has that second spelling.                *)
MistypedIdentifiersAreRefused ==
  /\ job.of = "nif" =>
       LET s == job.typed IN
       /\ \A i \in 1..8 : \A c \in (DOMAIN ValueOf) \ {s[i]} :
            ValueOf[c] # ValueOf[s[i]] => ~NifAccepted(WithSlipAt(s, i, c))
       /\ \A c \in ToSet(NifLetters) \ {s[9]} : ~NifAccepted(WithSlipAt(s, 9, c))
       /\ \A i \in 1..7 : ValueOf[s[i]] # ValueOf[s[i + 1]] => ~NifAccepted(Swapped(s, i))
       /\ \A c \in Characters : NifAccepted(Append(s, c)) <=> c = "\n"
  /\ job.of = "cif" =>
       LET s == job.typed IN
       /\ \A i \in 2..8 : \A c \in ToSet(DigitChars) \ {s[i]} : ~CifAccepted(WithSlipAt(s, i, c))
       /\ \A i \in 2..7 :
            s[i] # s[i + 1] => (CifAccepted(Swapped(s, i)) <=> {s[i], s[i + 1]} = {"0", "9"})
       /\ \A c \in Characters : CifAccepted(Append(s, c)) <=> c = "\n"
       /\ LET controls == {c \in ToSet(DigitChars) \cup ToSet(CifLetters) :
                             CifAccepted(WithSlipAt(s, 9, c))}
          IN Cardinality(controls) = IF s[1] \in DigitControl \cup LetterControl THEN 1 ELSE 2

(* The last of the decimals that decimal.js adds up exactly: three fewer   *)
(* than its digits.                                                        *)
LastExact == PowerOfTen(Scale + 3 - ClientDigits)

NearlyFull(f) == /\ 2 * (Total(f) - Full) <= Len(f) * LastExact
                 /\ 2 * (Full - Total(f)) <= Len(f) * LastExact

(* "Could make a total that displays as 100.00% fail server-side": while   *)
(* percentages keep to those decimals, the form sends nothing the server   *)
(* refuses, and holds back nothing it would accept.  With more decimals    *)
(* the two may disagree, but by roundings alone: what a form may send, and *)
(* what the server accepts, adds up to the whole within half of the last   *)
(* of those decimals for each unit.                                        *)
FormsAgreeWithTheServer ==
  job.of = "form" =>
    LET typed == job.percentages IN
    /\ (\A p \in ToSet(typed) : p % LastExact = 0) =>
         answer # "refused" /\ (Accepted(typed) => CanSubmit(typed))
    /\ CanSubmit(typed) \/ Accepted(typed) => NearlyFull(typed)
    /\ answer = "accepted" => NearlyFull(Sent(typed))
=============================================================================
