-------------------------- MODULE CalculationProofs --------------------------
(***************************************************************************)
(* The calculations of MCCalculations, proved for any bounds of its        *)
(* inputs: every split is the closest one (from AllocationProofs), the     *)
(* controls of NIF, NIE and CIF find the slips that are promised, and the  *)
(* form of a new community and the server agree on what adds up.           *)
(***************************************************************************)
EXTENDS MCCalculations, AllocationProofs, SequenceTheorems

-----------------------------------------------------------------------------
(* Splits *)

SplitJob == [of: {"split"}, total: Int, coefs: Communities, amounts: Seq(Int)]

SplitInv ==
  /\ job.of = "split" => job \in SplitJob
  /\ answer \in {"split", "mismatch"} => job.of = "split"
  /\ answer = "split" => /\ AddsUp(job.total, job.coefs)
                         /\ job.amounts = Amounts(job.total, job.coefs)
  /\ answer = "mismatch" => ~AddsUp(job.total, job.coefs)

LEMMA CommunityCoefficients ==
  ASSUME NEW c \in Communities
  PROVE  c \in Seq(Nat) /\ Total(c) = Whole
<1>1. PICK n \in 1..MaxUnits : c \in [1..n -> 1..Whole]
  BY DEF Communities
<1>2. n \in Nat /\ Whole \in Nat
  BY BoundsAssumption, UnitsOfMeasure
<1>3. c \in [1..n -> Nat]
  BY <1>1, <1>2
<1>4. c \in Seq(Nat)
  BY <1>2, <1>3
<1> QED
  BY <1>4 DEF Communities

LEMMA SplitInvariance == Spec => []SplitInv
<1>1. Init => SplitInv
  <2> SUFFICES ASSUME Init PROVE SplitInv
    OBVIOUS
  <2>1. answer = "none"
    BY DEF Init
  <2>2. ASSUME job.of = "split" PROVE job \in SplitJob
    <3>1. PICK t \in -MaxTotal..MaxTotal, c \in Communities :
            job = [of |-> "split", total |-> t, coefs |-> c, amounts |-> <<>>]
      BY <2>2 DEF Init
    <3>2. t \in Int /\ <<>> \in Seq(Int)
      BY BoundsAssumption
    <3> QED
      BY <3>1, <3>2 DEF SplitJob
  <2> QED
    BY <2>1, <2>2 DEF SplitInv
<1>2. SplitInv /\ [Split \/ Mismatch \/ Send]_vars => SplitInv'
  <2> SUFFICES ASSUME SplitInv, [Split \/ Mismatch \/ Send]_vars PROVE SplitInv'
    OBVIOUS
  <2>1. CASE Split
    <3> DEFINE am == Amounts(job.total, job.coefs)
    <3>1. /\ job \in SplitJob /\ AddsUp(job.total, job.coefs)
          /\ job' = [job EXCEPT !.amounts = am] /\ answer' = "split"
      BY <2>1 DEF Split, SplitInv
    <3>2. job.total \in Int /\ job.coefs \in Communities
      BY <3>1 DEF SplitJob
    <3>3. am \in Seq(Int)
      BY <3>2, CommunityCoefficients, AmountsAreCents
    <3>4. \A o, v : o = job /\ v = am =>
            /\ job' \in SplitJob /\ job'.of = "split"
            /\ job'.total = o.total /\ job'.coefs = o.coefs /\ job'.amounts = v
      <4> SUFFICES ASSUME NEW o, NEW v, o = job, v = am
                   PROVE  /\ job' \in SplitJob /\ job'.of = "split"
                          /\ job'.total = o.total /\ job'.coefs = o.coefs /\ job'.amounts = v
        OBVIOUS
      <4>1. o \in SplitJob /\ v \in Seq(Int) /\ job' = [o EXCEPT !.amounts = v]
        BY <3>1, <3>3
      <4>2. [o EXCEPT !.amounts = v] \in SplitJob
        BY <4>1 DEF SplitJob
      <4> QED
        BY <4>1, <4>2 DEF SplitJob
    <3> QED
      BY <3>1, <3>4 DEF SplitInv
  <2>2. CASE Mismatch
    BY <2>2 DEF Mismatch, SplitInv
  <2>3. CASE Send
    BY <2>3 DEF Send, SplitInv
  <2>4. CASE UNCHANGED vars
    BY <2>4 DEF vars, SplitInv
  <2> QED
    BY <2>1, <2>2, <2>3, <2>4
<1> QED
  BY <1>1, <1>2, PTL DEF Spec

(* allocate_largest_remainder splits whole cents, refuses only fractions   *)
(* of a cent and totals below zero, and its split is the closest of all.   *)
THEOREM ClosestAllocation == Spec => []AllocationIsTheClosest
<1>1. SplitInv => AllocationIsTheClosest
  <2> SUFFICES ASSUME SplitInv PROVE AllocationIsTheClosest
    OBVIOUS
  <2> DEFINE t == job.total
             c == job.coefs
  <2>1. ASSUME job.of = "split"
        PROVE  t \in Int /\ c \in Seq(Nat) /\ Total(c) = Whole /\ c # <<>>
    <3>1. t \in Int /\ c \in Communities
      BY <2>1 DEF SplitInv, SplitJob
    <3>2. c \in Seq(Nat) /\ Total(c) = Whole
      BY <3>1, CommunityCoefficients
    <3> HIDE DEF c
    <3> QED
      BY <3>1, <3>2, TotalOfNothing, UnitsArePositive
  <2>2. ASSUME answer = "split" PROVE t % Cent = 0
    <3> DEFINE cents == Total(Truncated(t, c)) + Cardinality(IndicesToBump(t, c))
    <3>1. t \in Int /\ c \in Seq(Nat) /\ c # <<>> /\ AddsUp(t, c)
      BY <2>1, <2>2 DEF SplitInv
    <3> HIDE DEF t, c
    <3>2. t = Cent * cents
      BY <3>1, AmountsAreCents DEF AddsUp
    <3>3. cents \in Int
      <4>1. Total(Truncated(t, c)) \in Int
        BY <3>1, TruncatedAreNumbers, TotalIsANumber
      <4>2. Cardinality(IndicesToBump(t, c)) \in Int
        BY <3>1, AmountsAreCents, FS_CardinalityType
      <4> QED
        BY <4>1, <4>2
    <3> HIDE DEF cents
    <3> QED
      BY <3>2, <3>3, Multiples, UnitsArePositive
  <2>3. ASSUME answer = "mismatch" PROVE t % Cent # 0 \/ t < 0
    <3>1. t \in Int /\ c \in Seq(Nat) /\ Total(c) = Whole /\ ~AddsUp(t, c)
      BY <2>1, <2>3 DEF SplitInv
    <3> HIDE DEF t, c
    <3> QED
      BY <3>1, CentsAddUp
  <2>4. ASSUME answer = "split", t >= 0 PROVE IsTheClosest(job.amounts, t, c)
    <3>1. /\ t \in Int /\ c \in Seq(Nat) /\ Total(c) = Whole /\ AddsUp(t, c)
          /\ job.amounts = Amounts(t, c)
      BY <2>1, <2>4 DEF SplitInv
    <3> HIDE DEF t, c
    <3> QED
      BY <2>4, <3>1, ClosestSplit
  <2> QED
    BY <2>2, <2>3, <2>4 DEF AllocationIsTheClosest
<1> QED
  BY <1>1, SplitInvariance, PTL

-----------------------------------------------------------------------------
(* Identifiers *)

LEMMA Digits ==
  /\ \A c \in ToSet(DigitChars) : ValueOf[c] \in 0..9 /\ DigitChars[ValueOf[c] + 1] = c
  /\ \A c \in Foreign : ValueOf[c] \in 0..9
  /\ DOMAIN ValueOf = ToSet(DigitChars) \cup Foreign
  /\ \A d \in 0..9 : DigitChars[d + 1] \in ToSet(DigitChars)
<1>1. ToSet(DigitChars) = {"0", "1", "2", "3", "4", "5", "6", "7", "8", "9"}
  BY DEF ToSet, DigitChars
<1>2. ASSUME NEW c \in ToSet(DigitChars)
      PROVE  ValueOf[c] \in 0..9 /\ DigitChars[ValueOf[c] + 1] = c
  <2>1. c # "X" /\ c # "Y" /\ c # "Z"
    BY <1>1
  <2>2. \E d \in 0..9 : DigitChars[d + 1] = c
    <3>1. PICK k \in 1..10 : DigitChars[k] = c
      BY DEF ToSet, DigitChars
    <3>2. k - 1 \in 0..9 /\ (k - 1) + 1 = k
      OBVIOUS
    <3> QED
      BY <3>1, <3>2
  <2>3. ValueOf[c] = CHOOSE d \in 0..9 : DigitChars[d + 1] = c
    BY <2>1, SMT DEF ValueOf
  <2> QED
    BY <2>2, <2>3
<1>3. \A c \in Foreign : ValueOf[c] \in 0..9
  BY SMT DEF Foreign, ValueOf
<1>4. \A d \in 0..9 : DigitChars[d + 1] \in ToSet(DigitChars)
  BY DEF ToSet, DigitChars
<1>5. DOMAIN ValueOf = ToSet(DigitChars) \cup Foreign
  BY SMT DEF ValueOf
<1> QED
  BY <1>2, <1>3, <1>4, <1>5

(* Two letters of the control are equal at one remainder only.             *)
LEMMA NifLettersDiffer ==
  ASSUME NEW a \in 0..22, NEW b \in 0..22, NifLetters[a + 1] = NifLetters[b + 1]
  PROVE  a = b
BY DEF NifLetters

(* A number of eight digits, and the digits of an identifier.              *)
Weighted(v) == 10000000 * v[1] + 1000000 * v[2] + 100000 * v[3] + 10000 * v[4]
               + 1000 * v[5] + 100 * v[6] + 10 * v[7] + v[8]

ValuesOf(s) == [i \in 1..8 |-> ValueOf[s[i]]]

LEMMA NifNumberIsWeighted ==
  ASSUME NEW s
  PROVE  NifNumber(s) = Weighted(ValuesOf(s))
<1>1. /\ ValuesOf(s)[1] = ValueOf[s[1]] /\ ValuesOf(s)[2] = ValueOf[s[2]]
      /\ ValuesOf(s)[3] = ValueOf[s[3]] /\ ValuesOf(s)[4] = ValueOf[s[4]]
      /\ ValuesOf(s)[5] = ValueOf[s[5]] /\ ValuesOf(s)[6] = ValueOf[s[6]]
      /\ ValuesOf(s)[7] = ValueOf[s[7]] /\ ValuesOf(s)[8] = ValueOf[s[8]]
  BY DEF ValuesOf
<1> QED
  BY <1>1, SMT DEF NifNumber, Weighted

LEMMA WeightedIsNat ==
  ASSUME NEW v \in [1..8 -> Nat]
  PROVE  Weighted(v) \in Nat
<1>1. /\ v[1] \in Nat /\ v[2] \in Nat /\ v[3] \in Nat /\ v[4] \in Nat
      /\ v[5] \in Nat /\ v[6] \in Nat /\ v[7] \in Nat /\ v[8] \in Nat
  OBVIOUS
<1> QED
  BY <1>1, SMT DEF Weighted

LEMMA Remainder ==
  ASSUME NEW n \in Nat
  PROVE  n % 23 \in 0..22
OBVIOUS

LEMMA Opposite ==
  ASSUME NEW x \in Int, NEW y \in Int, NEW v \in Int, NEW w \in Int, NEW e \in Int,
         w + x = (v + y) + e
  PROVE  y + v = (x + w) + -e
OBVIOUS

LEMMA DigitsApart ==
  ASSUME NEW x \in 0..9, NEW y \in 0..9, x # y
  PROVE  \E d \in Int : d > -10 /\ d < 10 /\ d # 0 /\ x = y + d
<1>1. x - y \in Int /\ x - y > -10 /\ x - y < 10 /\ x - y # 0 /\ x = y + (x - y)
  OBVIOUS
<1> QED
  BY <1>1

LEMMA NifIsANumber ==
  ASSUME NEW s, NifAccepted(s)
  PROVE  /\ \A i \in 1..8 : s[i] \in DOMAIN ValueOf /\ ValueOf[s[i]] \in 0..9
         /\ NifNumber(s) \in Nat
         /\ s[9] = NifLetters[(NifNumber(s) % 23) + 1]
<1>1. \A i \in 1..8 : s[i] \in DOMAIN ValueOf /\ ValueOf[s[i]] \in 0..9
  BY Digits DEF NifAccepted, IsDigit
<1>2. NifNumber(s) \in Nat
  <2>1. ValuesOf(s) \in [1..8 -> Nat]
    BY <1>1 DEF ValuesOf
  <2> QED
    BY <2>1, NifNumberIsWeighted, WeightedIsNat
<1>3. s[9] = NifLetters[(NifNumber(s) % 23) + 1]
  BY DEF NifAccepted
<1> QED
  BY <1>1, <1>2, <1>3

Weights == {10000000, 1000000, 100000, 10000, 1000, 100, 10, 1}

(* No digit of another value at its place makes a multiple of 23, nor do   *)
(* two neighbours swapped.                                                 *)
LEMMA ControlMoves ==
  ASSUME NEW n \in Nat, NEW m \in Nat, NEW w \in Weights,
         NEW d \in Int, d > -10, d < 10, d # 0,
         m = n + w * d \/ m = n + 9 * (w * d)
  PROVE  n % 23 # m % 23
<1> SUFFICES ASSUME n % 23 = m % 23 PROVE FALSE
  OBVIOUS
<1> DEFINE k == m \div 23 - n \div 23
<1>1. k \in Int /\ m - n = 23 * k
  <2>1. m = 23 * (m \div 23) + (m % 23) /\ n = 23 * (n \div 23) + (n % 23)
    BY Division
  <2> QED
    BY <2>1
<1> HIDE DEF k
<1>2. w * d = 23 * k \/ 9 * (w * d) = 23 * k
  BY <1>1, SMT DEF Weights
<1>3. CASE w = 10000000
  BY <1>1, <1>2, <1>3, SMT
<1>4. CASE w = 1000000
  BY <1>1, <1>2, <1>4, SMT
<1>5. CASE w = 100000
  BY <1>1, <1>2, <1>5, SMT
<1>6. CASE w = 10000
  BY <1>1, <1>2, <1>6, SMT
<1>7. CASE w = 1000
  BY <1>1, <1>2, <1>7, SMT
<1>8. CASE w = 100
  BY <1>1, <1>2, <1>8, SMT
<1>9. CASE w = 10
  BY <1>1, <1>2, <1>9, SMT
<1>10. CASE w = 1
  BY <1>1, <1>2, <1>10, SMT
<1> QED
  BY <1>3, <1>4, <1>5, <1>6, <1>7, <1>8, <1>9, <1>10, SMT DEF Weights

(* What one other digit, or two neighbours swapped, does to the number.    *)
OneMoved(a, b, i, d) == \A j \in 1..8 : b[j] = IF i = j THEN a[j] + d ELSE a[j]
TwoMoved(a, b, i, d) == \A j \in 1..8 : b[j] = IF i = j THEN a[j] + d
                                              ELSE IF i + 1 = j THEN a[j] - d ELSE a[j]

LEMMA OneDigitMoves ==
  ASSUME NEW a \in [1..8 -> Int], NEW b, NEW i \in 1..8, NEW d \in Int, OneMoved(a, b, i, d)
  PROVE  \E w \in Weights : Weighted(b) = Weighted(a) + w * d
<1> DEFINE w == IF i = 1 THEN 10000000 ELSE IF i = 2 THEN 1000000 ELSE IF i = 3 THEN 100000
                ELSE IF i = 4 THEN 10000 ELSE IF i = 5 THEN 1000 ELSE IF i = 6 THEN 100
                ELSE IF i = 7 THEN 10 ELSE 1
<1>1. w \in Weights
  BY SMT DEF Weights
<1>2. /\ a[1] \in Int /\ a[2] \in Int /\ a[3] \in Int /\ a[4] \in Int
      /\ a[5] \in Int /\ a[6] \in Int /\ a[7] \in Int /\ a[8] \in Int
  OBVIOUS
<1>3. /\ b[1] = (IF i = 1 THEN a[1] + d ELSE a[1])
      /\ b[2] = (IF i = 2 THEN a[2] + d ELSE a[2])
      /\ b[3] = (IF i = 3 THEN a[3] + d ELSE a[3])
      /\ b[4] = (IF i = 4 THEN a[4] + d ELSE a[4])
      /\ b[5] = (IF i = 5 THEN a[5] + d ELSE a[5])
      /\ b[6] = (IF i = 6 THEN a[6] + d ELSE a[6])
      /\ b[7] = (IF i = 7 THEN a[7] + d ELSE a[7])
      /\ b[8] = (IF i = 8 THEN a[8] + d ELSE a[8])
  BY DEF OneMoved
<1>4. Weighted(b) = Weighted(a) + w * d
  BY <1>2, <1>3, SMT DEF Weighted
<1> HIDE DEF w
<1> QED
  BY <1>1, <1>4

LEMMA TwoDigitsMove ==
  ASSUME NEW a \in [1..8 -> Int], NEW b, NEW i \in 1..7, NEW d \in Int, TwoMoved(a, b, i, d)
  PROVE  \E w \in Weights : Weighted(b) = Weighted(a) + 9 * (w * d)
<1> DEFINE w == IF i = 1 THEN 1000000 ELSE IF i = 2 THEN 100000 ELSE IF i = 3 THEN 10000
                ELSE IF i = 4 THEN 1000 ELSE IF i = 5 THEN 100 ELSE IF i = 6 THEN 10 ELSE 1
<1>1. w \in Weights
  BY SMT DEF Weights
<1>2. /\ a[1] \in Int /\ a[2] \in Int /\ a[3] \in Int /\ a[4] \in Int
      /\ a[5] \in Int /\ a[6] \in Int /\ a[7] \in Int /\ a[8] \in Int
  OBVIOUS
<1>3. /\ b[1] = (IF i = 1 THEN a[1] + d ELSE a[1])
      /\ b[2] = (IF i = 2 THEN a[2] + d ELSE IF i = 1 THEN a[2] - d ELSE a[2])
      /\ b[3] = (IF i = 3 THEN a[3] + d ELSE IF i = 2 THEN a[3] - d ELSE a[3])
      /\ b[4] = (IF i = 4 THEN a[4] + d ELSE IF i = 3 THEN a[4] - d ELSE a[4])
      /\ b[5] = (IF i = 5 THEN a[5] + d ELSE IF i = 4 THEN a[5] - d ELSE a[5])
      /\ b[6] = (IF i = 6 THEN a[6] + d ELSE IF i = 5 THEN a[6] - d ELSE a[6])
      /\ b[7] = (IF i = 7 THEN a[7] + d ELSE IF i = 6 THEN a[7] - d ELSE a[7])
      /\ b[8] = (IF i = 7 THEN a[8] - d ELSE a[8])
  BY DEF TwoMoved
<1>4. Weighted(b) = Weighted(a) + 9 * (w * d)
  BY <1>2, <1>3, SMT DEF Weighted
<1> HIDE DEF w
<1> QED
  BY <1>1, <1>4

(* So two accepted sequences with the same letter differ by neither.       *)
LEMMA NifsDiffer ==
  ASSUME NEW s, NifAccepted(s), NEW p, NifAccepted(p), p[9] = s[9],
         NEW w \in Weights, NEW d \in Int, d > -10, d < 10, d # 0,
         NifNumber(p) = NifNumber(s) + w * d \/ NifNumber(p) = NifNumber(s) + 9 * (w * d)
  PROVE  FALSE
<1>1. /\ NifNumber(s) \in Nat /\ s[9] = NifLetters[(NifNumber(s) % 23) + 1]
      /\ NifNumber(p) \in Nat /\ p[9] = NifLetters[(NifNumber(p) % 23) + 1]
  BY NifIsANumber
<1>2. NifNumber(s) % 23 \in 0..22 /\ NifNumber(p) % 23 \in 0..22
  BY <1>1, Remainder
<1>3. NifNumber(s) % 23 = NifNumber(p) % 23
  BY <1>1, <1>2, NifLettersDiffer
<1> QED
  BY <1>1, <1>3, ControlMoves

LEMMA NifFindsASlip ==
  ASSUME NEW s \in Seq(Characters), Len(s) = 9, NifAccepted(s),
         NEW i \in 1..8, NEW c \in DOMAIN ValueOf, ValueOf[c] # ValueOf[s[i]]
  PROVE  ~NifAccepted(WithSlipAt(s, i, c))
<1> DEFINE p == WithSlipAt(s, i, c)
           a == ValuesOf(s)
           b == ValuesOf(p)
<1> SUFFICES ASSUME NifAccepted(p) PROVE FALSE
  OBVIOUS
<1>1. /\ p[9] = s[9] /\ p[i] = c
      /\ \A j \in 1..8 : j # i => p[j] = s[j]
  BY DEF WithSlipAt
<1> HIDE DEF p
<1>2. a \in [1..8 -> 0..9] /\ b \in [1..8 -> 0..9]
  BY NifIsANumber DEF ValuesOf
<1>3. b[i] # a[i] /\ \A j \in 1..8 : j # i => b[j] = a[j]
  BY <1>1 DEF ValuesOf
<1>4. NifNumber(s) = Weighted(a) /\ NifNumber(p) = Weighted(b)
  BY NifNumberIsWeighted
<1> HIDE DEF a, b
<1>5. PICK d \in Int : d > -10 /\ d < 10 /\ d # 0 /\ b[i] = a[i] + d
  <2>1. a[i] \in 0..9 /\ b[i] \in 0..9 /\ b[i] # a[i]
    BY <1>2, <1>3
  <2> QED
    BY <2>1, DigitsApart
<1>6. PICK w \in Weights : Weighted(b) = Weighted(a) + w * d
  <2>1. a \in [1..8 -> Int]
    BY <1>2
  <2>2. OneMoved(a, b, i, d)
    BY <1>3, <1>5 DEF OneMoved
  <2> QED
    BY <2>1, <2>2, OneDigitMoves
<1> QED
  BY <1>1, <1>4, <1>5, <1>6, NifsDiffer

LEMMA NifFindsASwap ==
  ASSUME NEW s \in Seq(Characters), Len(s) = 9, NifAccepted(s),
         NEW i \in 1..7, ValueOf[s[i]] # ValueOf[s[i + 1]]
  PROVE  ~NifAccepted(Swapped(s, i))
<1> DEFINE p == Swapped(s, i)
           a == ValuesOf(s)
           b == ValuesOf(p)
<1> SUFFICES ASSUME NifAccepted(p) PROVE FALSE
  OBVIOUS
<1>1. /\ p[9] = s[9] /\ p[i] = s[i + 1] /\ p[i + 1] = s[i]
      /\ \A j \in 1..8 : j # i /\ j # i + 1 => p[j] = s[j]
  BY DEF Swapped
<1>2. i \in 1..8 /\ i + 1 \in 1..8
  OBVIOUS
<1> HIDE DEF p
<1>3. a \in [1..8 -> 0..9] /\ b \in [1..8 -> 0..9]
  BY NifIsANumber DEF ValuesOf
<1>4. /\ b[i] = a[i + 1] /\ b[i + 1] = a[i] /\ b[i] # a[i]
      /\ \A j \in 1..8 : j # i /\ j # i + 1 => b[j] = a[j]
  BY <1>1, <1>2 DEF ValuesOf
<1>5. NifNumber(s) = Weighted(a) /\ NifNumber(p) = Weighted(b)
  BY NifNumberIsWeighted
<1> HIDE DEF a, b
<1>6. PICK d \in Int : d > -10 /\ d < 10 /\ d # 0 /\ b[i] = a[i] + d
  <2>1. a[i] \in 0..9 /\ b[i] \in 0..9 /\ b[i] # a[i]
    BY <1>2, <1>3, <1>4
  <2> QED
    BY <2>1, DigitsApart
<1>7. PICK w \in Weights : Weighted(b) = Weighted(a) + 9 * (w * d)
  <2>1. a \in [1..8 -> Int] /\ a[i] \in Int /\ a[i + 1] \in Int
    BY <1>2, <1>3
  <2>2. b[i + 1] = a[i + 1] - d
    <3>1. a[i + 1] = a[i] + d
      BY <1>4, <1>6
    <3>2. a[i] = a[i + 1] - d
      BY SMTT(30), <2>1, <3>1
    <3> QED
      BY <1>4, <3>2
  <2>3. TwoMoved(a, b, i, d)
    BY <1>4, <1>6, <2>2 DEF TwoMoved
  <2> QED
    BY <2>1, <2>3, TwoDigitsMove
<1> QED
  BY <1>1, <1>5, <1>6, <1>7, NifsDiffer

LEMMA NifFindsALetter ==
  ASSUME NEW s \in Seq(Characters), Len(s) = 9, NifAccepted(s), NEW c, c # s[9]
  PROVE  ~NifAccepted(WithSlipAt(s, 9, c))
<1> DEFINE p == WithSlipAt(s, 9, c)
<1>1. p[9] = c /\ \A j \in 1..8 : p[j] = s[j]
  BY DEF WithSlipAt
<1> HIDE DEF p
<1>2. ValuesOf(p) = ValuesOf(s)
  BY <1>1 DEF ValuesOf
<1>3. NifNumber(p) = NifNumber(s)
  BY <1>2, NifNumberIsWeighted
<1> QED
  BY <1>1, <1>3 DEF NifAccepted, p

LEMMA CharactersApart ==
  /\ \A a, b \in 0..9 : DigitChars[a + 1] = DigitChars[b + 1] => a = b
  /\ \A a, b \in 0..9 : CifLetters[a + 1] = CifLetters[b + 1] => a = b
  /\ \A a, b \in 0..9 : DigitChars[a + 1] # CifLetters[b + 1]
  /\ \A a \in 0..9 : CifLetters[a + 1] \in ToSet(CifLetters)
<1>1. \A a, b \in 0..9 : DigitChars[a + 1] = DigitChars[b + 1] => a = b
  BY DEF DigitChars
<1>2. \A a, b \in 0..9 : CifLetters[a + 1] = CifLetters[b + 1] => a = b
  BY DEF CifLetters
<1>3. \A a, b \in 0..9 : DigitChars[a + 1] # CifLetters[b + 1]
  BY DEF DigitChars, CifLetters
<1>4. \A a \in 0..9 : CifLetters[a + 1] \in ToSet(CifLetters)
  BY DEF CifLetters, ToSet
<1> QED
  BY <1>1, <1>2, <1>3, <1>4

(* A doubled digit is a digit, and another for another digit; what doubling *)
(* adds tells digits apart but for nought and nine.                        *)
LEMMA DoubledIs ==
  ASSUME NEW d \in 0..9
  PROVE  Doubled(d) = IF d < 5 THEN 2 * d ELSE 2 * d - 9
BY SMT DEF Doubled

LEMMA DoubledDigits ==
  ASSUME NEW x \in 0..9, NEW y \in 0..9, x # y
  PROVE  /\ Doubled(x) \in 0..9 /\ Doubled(y) \in 0..9 /\ Doubled(x) # Doubled(y)
         /\ {x, y} # {0, 9} => \E e \in Int : /\ e > -10 /\ e < 10 /\ e # 0
                                              /\ Doubled(y) + x = (Doubled(x) + y) + e
<1>1. /\ Doubled(x) = IF x < 5 THEN 2 * x ELSE 2 * x - 9
      /\ Doubled(y) = IF y < 5 THEN 2 * y ELSE 2 * y - 9
  BY DoubledIs
<1>2. Doubled(x) \in 0..9 /\ Doubled(y) \in 0..9 /\ Doubled(x) # Doubled(y)
  BY <1>1
<1>3. ASSUME {x, y} # {0, 9}
      PROVE  \E e \in Int : /\ e > -10 /\ e < 10 /\ e # 0
                            /\ Doubled(y) + x = (Doubled(x) + y) + e
  <2> DEFINE e == (Doubled(y) + x) - (Doubled(x) + y)
  <2>1. ~(x = 0 /\ y = 9) /\ ~(x = 9 /\ y = 0)
    BY <1>3
  <2>2. /\ e \in Int /\ e > -10 /\ e < 10 /\ e # 0
        /\ Doubled(y) + x = (Doubled(x) + y) + e
    BY <1>1, <1>2, <2>1
  <2> HIDE DEF e
  <2> QED
    BY <2>2
<1> QED
  BY <1>2, <1>3

(* What each digit of a CIF counts for, and the control of their sum.      *)
Counted(s) == [j \in 1..7 |-> IF j % 2 = 1 THEN Doubled(ValueOf[s[j + 1]]) ELSE ValueOf[s[j + 1]]]
SumOf(v) == v[1] + v[2] + v[3] + v[4] + v[5] + v[6] + v[7]
ControlOf(n) == (10 - (n % 10)) % 10

LEMMA SumIsNat ==
  ASSUME NEW v \in [1..7 -> 0..9]
  PROVE  SumOf(v) \in Nat
<1>1. /\ v[1] \in 0..9 /\ v[2] \in 0..9 /\ v[3] \in 0..9 /\ v[4] \in 0..9
      /\ v[5] \in 0..9 /\ v[6] \in 0..9 /\ v[7] \in 0..9
  OBVIOUS
<1> QED
  BY <1>1 DEF SumOf

LEMMA OneCountMoves ==
  ASSUME NEW a \in [1..7 -> 0..9], NEW b \in [1..7 -> 0..9], NEW k \in 1..7, NEW e \in Int,
         \A j \in 1..7 : j # k => b[j] = a[j], b[k] = a[k] + e
  PROVE  SumOf(b) = SumOf(a) + e
<1>1. /\ a[1] \in Int /\ a[2] \in Int /\ a[3] \in Int /\ a[4] \in Int
      /\ a[5] \in Int /\ a[6] \in Int /\ a[7] \in Int
  OBVIOUS
<1>2. /\ b[1] = (IF k = 1 THEN a[1] + e ELSE a[1]) /\ b[2] = (IF k = 2 THEN a[2] + e ELSE a[2])
      /\ b[3] = (IF k = 3 THEN a[3] + e ELSE a[3]) /\ b[4] = (IF k = 4 THEN a[4] + e ELSE a[4])
      /\ b[5] = (IF k = 5 THEN a[5] + e ELSE a[5]) /\ b[6] = (IF k = 6 THEN a[6] + e ELSE a[6])
      /\ b[7] = (IF k = 7 THEN a[7] + e ELSE a[7])
  OBVIOUS
<1> QED
  BY <1>1, <1>2, SMT DEF SumOf

LEMMA TwoCountsMove ==
  ASSUME NEW a \in [1..7 -> 0..9], NEW b \in [1..7 -> 0..9], NEW k \in 1..6, NEW e \in Int,
         \A j \in 1..7 : j # k /\ j # k + 1 => b[j] = a[j],
         b[k] + b[k + 1] = (a[k] + a[k + 1]) + e
  PROVE  SumOf(b) = SumOf(a) + e
<1>1. /\ a[1] \in Int /\ a[2] \in Int /\ a[3] \in Int /\ a[4] \in Int
      /\ a[5] \in Int /\ a[6] \in Int /\ a[7] \in Int
      /\ b[1] \in Int /\ b[2] \in Int /\ b[3] \in Int /\ b[4] \in Int
      /\ b[5] \in Int /\ b[6] \in Int /\ b[7] \in Int
  OBVIOUS
<1>2. CASE k = 1
  BY <1>1, <1>2, SMT DEF SumOf
<1>3. CASE k = 2
  BY <1>1, <1>3, SMT DEF SumOf
<1>4. CASE k = 3
  BY <1>1, <1>4, SMT DEF SumOf
<1>5. CASE k = 4
  BY <1>1, <1>5, SMT DEF SumOf
<1>6. CASE k = 5
  BY <1>1, <1>6, SMT DEF SumOf
<1>7. CASE k = 6
  BY <1>1, <1>7, SMT DEF SumOf
<1> QED
  BY <1>2, <1>3, <1>4, <1>5, <1>6, <1>7

LEMMA CifControlIs ==
  ASSUME NEW s
  PROVE  CifControl(s) = ControlOf(SumOf(Counted(s)))
BY DEF CifControl, ControlOf, SumOf, Counted

LEMMA Controls ==
  ASSUME NEW n \in Nat
  PROVE  ControlOf(n) \in 0..9
BY DEF ControlOf

LEMMA OtherControl ==
  ASSUME NEW n \in Nat, NEW m \in Nat, NEW e \in Int, e > -10, e < 10, e # 0, m = n + e
  PROVE  ControlOf(n) # ControlOf(m)
<1>1. PICK q \in Int, r \in 0..9 : n = 10 * q + r /\ n % 10 = r
  OBVIOUS
<1>2. PICK t \in Int, u \in 0..9 : m = 10 * t + u /\ m % 10 = u
  OBVIOUS
<1>3. r # u
  BY <1>1, <1>2
<1>4. (10 - r) % 10 # (10 - u) % 10
  BY <1>3
<1> QED
  BY <1>1, <1>2, <1>4 DEF ControlOf

LEMMA CifDigits ==
  ASSUME NEW s, CifAccepted(s)
  PROVE  /\ \A i \in 2..8 : s[i] \in ToSet(DigitChars) /\ ValueOf[s[i]] \in 0..9
         /\ Counted(s) \in [1..7 -> 0..9]
         /\ CifControl(s) \in 0..9
<1>1. \A i \in 2..8 : s[i] \in ToSet(DigitChars) /\ ValueOf[s[i]] \in 0..9
  BY Digits DEF CifAccepted, IsDigit
<1>2. ASSUME NEW j \in 1..7 PROVE Counted(s)[j] \in 0..9
  <2>1. ValueOf[s[j + 1]] \in 0..9
    BY <1>1
  <2>2. Doubled(ValueOf[s[j + 1]]) \in 0..9
    BY <2>1, DoubledIs
  <2> QED
    BY <2>1, <2>2 DEF Counted
<1>3. Counted(s) \in [1..7 -> 0..9]
  BY <1>2 DEF Counted
<1>4. SumOf(Counted(s)) \in Nat
  BY <1>3, SumIsNat
<1> QED
  BY <1>1, <1>3, <1>4, CifControlIs, Controls

(* Two accepted sequences with the same control count to the same.         *)
LEMMA CifsAgree ==
  ASSUME NEW s, CifAccepted(s), NEW p, CifAccepted(p), p[9] = s[9]
  PROVE  CifControl(p) = CifControl(s)
<1>1. CifControl(p) \in 0..9 /\ CifControl(s) \in 0..9
  BY CifDigits
<1>2. \/ s[9] = DigitChars[CifControl(s) + 1]
      \/ s[9] = CifLetters[CifControl(s) + 1]
  BY DEF CifAccepted
<1>3. \/ s[9] = DigitChars[CifControl(p) + 1]
      \/ s[9] = CifLetters[CifControl(p) + 1]
  BY DEF CifAccepted
<1> QED
  BY <1>1, <1>2, <1>3, CharactersApart

LEMMA SumsDiffer ==
  ASSUME NEW s, CifAccepted(s), NEW p, CifAccepted(p), p[9] = s[9],
         NEW e \in Int, e > -10, e < 10, e # 0,
         SumOf(Counted(p)) = SumOf(Counted(s)) + e
  PROVE  FALSE
<1> DEFINE n == SumOf(Counted(s))
           m == SumOf(Counted(p))
<1>1. n \in Nat /\ m \in Nat
  BY SumIsNat, CifDigits
<1>2. ControlOf(n) = ControlOf(m)
  BY CifsAgree, CifControlIs
<1> HIDE DEF n, m
<1>3. m = n + e
  BY DEF n, m
<1> QED
  BY <1>1, <1>2, <1>3, OtherControl

LEMMA CifFindsASlip ==
  ASSUME NEW s \in Seq(Characters), Len(s) = 9, CifAccepted(s),
         NEW i \in 2..8, NEW c \in ToSet(DigitChars), c # s[i]
  PROVE  ~CifAccepted(WithSlipAt(s, i, c))
<1> DEFINE p == WithSlipAt(s, i, c)
           a == Counted(s)
           b == Counted(p)
           k == i - 1
<1> SUFFICES ASSUME CifAccepted(p) PROVE FALSE
  OBVIOUS
<1>1. /\ p[9] = s[9] /\ p[i] = c
      /\ \A j \in 1..8 : j # i => p[j] = s[j]
  BY DEF WithSlipAt
<1> HIDE DEF p
<1>2. a \in [1..7 -> 0..9] /\ b \in [1..7 -> 0..9]
  BY CifDigits
<1>3. ValueOf[s[i]] \in 0..9 /\ ValueOf[c] \in 0..9 /\ ValueOf[c] # ValueOf[s[i]]
  BY CifDigits, Digits
<1>4. k \in 1..7 /\ k + 1 = i
  OBVIOUS
<1>5. b[k] # a[k]
  <2>1. Doubled(ValueOf[c]) # Doubled(ValueOf[s[i]])
    BY <1>3, DoubledDigits
  <2>2. b[k] = IF k % 2 = 1 THEN Doubled(ValueOf[c]) ELSE ValueOf[c]
    BY <1>1, <1>4 DEF Counted
  <2>3. a[k] = IF k % 2 = 1 THEN Doubled(ValueOf[s[i]]) ELSE ValueOf[s[i]]
    BY <1>4 DEF Counted
  <2> HIDE DEF a, b, k
  <2> QED
    BY <1>3, <2>1, <2>2, <2>3
<1>6. \A j \in 1..7 : j # k => b[j] = a[j]
  <2> SUFFICES ASSUME NEW j \in 1..7, j # k PROVE b[j] = a[j]
    OBVIOUS
  <2>1. p[j + 1] = s[j + 1]
    BY <1>1, <1>4
  <2> QED
    BY <2>1 DEF Counted
<1> HIDE DEF a, b, k
<1>7. PICK e \in Int : e > -10 /\ e < 10 /\ e # 0 /\ b[k] = a[k] + e
  <2>1. a[k] \in 0..9 /\ b[k] \in 0..9
    BY <1>2, <1>4
  <2> QED
    BY <2>1, <1>5, DigitsApart
<1>8. SumOf(b) = SumOf(a) + e
  BY <1>2, <1>4, <1>6, <1>7, OneCountMoves
<1> QED
  BY <1>1, <1>7, <1>8, SumsDiffer DEF a, b

LEMMA CifFindsASwap ==
  ASSUME NEW s \in Seq(Characters), Len(s) = 9, CifAccepted(s),
         NEW i \in 2..7, s[i] # s[i + 1], {s[i], s[i + 1]} # {"0", "9"}
  PROVE  ~CifAccepted(Swapped(s, i))
<1> DEFINE p == Swapped(s, i)
           a == Counted(s)
           b == Counted(p)
           x == ValueOf[s[i]]
           y == ValueOf[s[i + 1]]
           k == i - 1
<1> SUFFICES ASSUME CifAccepted(p) PROVE FALSE
  OBVIOUS
<1>1. /\ p[9] = s[9] /\ p[i] = s[i + 1] /\ p[i + 1] = s[i]
      /\ \A j \in 1..8 : j # i /\ j # i + 1 => p[j] = s[j]
  BY DEF Swapped
<1> HIDE DEF p
<1>2. a \in [1..7 -> 0..9] /\ b \in [1..7 -> 0..9]
  BY CifDigits
<1>3. i \in 2..8 /\ i + 1 \in 2..8
  OBVIOUS
<1>4. /\ x \in 0..9 /\ y \in 0..9 /\ DigitChars[x + 1] = s[i] /\ DigitChars[y + 1] = s[i + 1]
  BY <1>3, CifDigits, Digits
<1>5. x # y /\ {x, y} # {0, 9}
  <2>1. DigitChars[0 + 1] = "0" /\ DigitChars[9 + 1] = "9"
    BY DEF DigitChars
  <2> HIDE DEF x, y
  <2> QED
    BY <1>4, <2>1
<1>6. /\ k \in 1..6 /\ k + 1 = i /\ (k + 1) + 1 = i + 1
  OBVIOUS
<1>7. \A j \in 1..7 : j # k /\ j # k + 1 => b[j] = a[j]
  <2> SUFFICES ASSUME NEW j \in 1..7, j # k, j # k + 1 PROVE b[j] = a[j]
    OBVIOUS
  <2>1. p[j + 1] = s[j + 1]
    BY <1>1, <1>6
  <2> QED
    BY <2>1 DEF Counted
<1>8. \/ a[k] = Doubled(x) /\ a[k + 1] = y /\ b[k] = Doubled(y) /\ b[k + 1] = x
      \/ a[k] = x /\ a[k + 1] = Doubled(y) /\ b[k] = y /\ b[k + 1] = Doubled(x)
  BY <1>1, <1>6 DEF Counted
<1> HIDE DEF a, b, k, x, y
<1>9. PICK e \in Int : e > -10 /\ e < 10 /\ e # 0 /\ b[k] + b[k + 1] = (a[k] + a[k + 1]) + e
  <2>1. /\ Doubled(x) \in 0..9 /\ Doubled(y) \in 0..9
        /\ \E e \in Int : e > -10 /\ e < 10 /\ e # 0 /\ Doubled(y) + x = (Doubled(x) + y) + e
    BY <1>4, <1>5, DoubledDigits
  <2>2. PICK e \in Int : e > -10 /\ e < 10 /\ e # 0 /\ Doubled(y) + x = (Doubled(x) + y) + e
    BY <2>1
  <2>3. CASE a[k] = Doubled(x) /\ a[k + 1] = y /\ b[k] = Doubled(y) /\ b[k + 1] = x
    BY <2>2, <2>3
  <2>4. CASE a[k] = x /\ a[k + 1] = Doubled(y) /\ b[k] = y /\ b[k + 1] = Doubled(x)
    <3>1. -e \in Int /\ -e > -10 /\ -e < 10 /\ -e # 0
      BY <2>2
    <3>2. y + Doubled(x) = (x + Doubled(y)) + -e
      <4>1. x \in Int /\ y \in Int
        BY <1>4
      <4>2. Doubled(x) \in Int /\ Doubled(y) \in Int
        BY <2>1
      <4> QED
        BY <2>2, <4>1, <4>2, Opposite
    <3> QED
      BY <2>4, <3>1, <3>2
  <2> QED
    BY <1>8, <2>3, <2>4
<1>10. SumOf(b) = SumOf(a) + e
  BY <1>2, <1>6, <1>7, <1>9, TwoCountsMove
<1> QED
  BY <1>1, <1>9, <1>10, SumsDiffer DEF a, b

(* 0 counts 0 and 9 counts 9, doubled or not.                              *)
LEMMA CifMissesASwap ==
  ASSUME NEW s \in Seq(Characters), Len(s) = 9, CifAccepted(s),
         NEW i \in 2..7, {s[i], s[i + 1]} = {"0", "9"}
  PROVE  CifAccepted(Swapped(s, i))
<1> DEFINE p == Swapped(s, i)
           a == Counted(s)
           b == Counted(p)
           k == i - 1
<1>1. /\ Len(p) = 9 /\ p[1] = s[1] /\ p[9] = s[9] /\ p[i] = s[i + 1] /\ p[i + 1] = s[i]
      /\ \A j \in 1..8 : j # i /\ j # i + 1 => p[j] = s[j]
  BY DEF Swapped
<1> HIDE DEF p
<1>2. \A j \in 2..8 : s[j] \in ToSet(DigitChars)
  BY CifDigits
<1>3. i \in 2..8 /\ i + 1 \in 2..8
  OBVIOUS
<1>4. ASSUME NEW j \in 2..8 PROVE p[j] \in ToSet(DigitChars)
  <2>1. p[j] = IF j = i THEN s[i + 1] ELSE IF j = i + 1 THEN s[i] ELSE s[j]
    BY <1>1
  <2> QED
    BY <1>2, <1>3, <2>1
<1>5. ASSUME NEW c \in {"0", "9"}
      PROVE  ValueOf[c] \in 0..9 /\ Doubled(ValueOf[c]) = ValueOf[c]
  <2>1. c \in ToSet(DigitChars)
    BY DEF ToSet, DigitChars
  <2>2. ValueOf[c] \in 0..9 /\ DigitChars[ValueOf[c] + 1] = c
    BY <2>1, Digits
  <2>3. ValueOf[c] \in {0, 9}
    <3>1. ASSUME NEW v \in 0..9, DigitChars[v + 1] \in {"0", "9"} PROVE v \in {0, 9}
      BY <3>1, SMT DEF DigitChars
    <3> QED
      BY <2>2, <3>1
  <2>4. Doubled(ValueOf[c]) = IF ValueOf[c] < 5 THEN 2 * ValueOf[c] ELSE 2 * ValueOf[c] - 9
    BY <2>2, DoubledIs
  <2> QED
    BY <2>2, <2>3, <2>4
<1>6. a \in [1..7 -> 0..9]
  BY CifDigits
<1>7. b \in [1..7 -> 0..9]
  <2>1. ASSUME NEW j \in 1..7 PROVE b[j] \in 0..9
    <3>1. ValueOf[p[j + 1]] \in 0..9
      BY <1>4, Digits
    <3>2. Doubled(ValueOf[p[j + 1]]) \in 0..9
      <4>1. Doubled(ValueOf[p[j + 1]]) =
              IF ValueOf[p[j + 1]] < 5 THEN 2 * ValueOf[p[j + 1]] ELSE 2 * ValueOf[p[j + 1]] - 9
        BY <3>1, DoubledIs
      <4> QED
        BY SMTT(30), <3>1, <4>1
    <3> QED
      BY <3>1, <3>2 DEF Counted
  <2> QED
    BY <2>1 DEF Counted
<1>8. k \in 1..6 /\ k + 1 = i /\ (k + 1) + 1 = i + 1
  OBVIOUS
<1>9. \A j \in 1..7 : j # k /\ j # k + 1 => b[j] = a[j]
  <2> SUFFICES ASSUME NEW j \in 1..7, j # k, j # k + 1 PROVE b[j] = a[j]
    OBVIOUS
  <2>1. p[j + 1] = s[j + 1]
    BY <1>1, <1>8
  <2> QED
    BY <2>1 DEF Counted
<1>10. /\ a[k] = ValueOf[s[i]] /\ a[k + 1] = ValueOf[s[i + 1]]
       /\ b[k] = ValueOf[s[i + 1]] /\ b[k + 1] = ValueOf[s[i]]
  <2>1. /\ Doubled(ValueOf[s[i]]) = ValueOf[s[i]]
        /\ Doubled(ValueOf[s[i + 1]]) = ValueOf[s[i + 1]]
    BY <1>5
  <2> QED
    BY <1>1, <1>8, <2>1 DEF Counted
<1> HIDE DEF a, b, k
<1>11. PICK e \in Int : e = 0 /\ b[k] + b[k + 1] = (a[k] + a[k + 1]) + e
  <2>1. a[k] \in Int /\ a[k + 1] \in Int
    BY <1>6, <1>8
  <2> QED
    BY <1>10, <2>1
<1>12. SumOf(b) = SumOf(a) + e
  BY <1>6, <1>7, <1>8, <1>9, <1>11, TwoCountsMove
<1>13. CifControl(p) = CifControl(s)
  <2>1. SumOf(a) \in Nat /\ SumOf(b) = SumOf(a)
    BY <1>6, <1>11, <1>12, SumIsNat
  <2> QED
    BY <2>1, CifControlIs DEF a, b
<1> QED
  BY <1>1, <1>4, <1>13 DEF CifAccepted, NineCharacters, IsDigit, p

LEMMA CifControls ==
  ASSUME NEW s \in Seq(Characters), Len(s) = 9, CifAccepted(s)
  PROVE  LET controls == {c \in ToSet(DigitChars) \cup ToSet(CifLetters) :
                            CifAccepted(WithSlipAt(s, 9, c))}
         IN Cardinality(controls) = IF s[1] \in DigitControl \cup LetterControl THEN 1 ELSE 2
<1> DEFINE all == ToSet(DigitChars) \cup ToSet(CifLetters)
           controls == {c \in all : CifAccepted(WithSlipAt(s, 9, c))}
           digit == DigitChars[CifControl(s) + 1]
           letter == CifLetters[CifControl(s) + 1]
<1>1. /\ digit \in all /\ letter \in all /\ digit # letter
  <2>1. CifControl(s) \in 0..9
    BY CifDigits
  <2> QED
    BY <2>1, CharactersApart, Digits
<1>2. ASSUME NEW c
      PROVE  CifAccepted(WithSlipAt(s, 9, c)) <=> \/ s[1] \notin LetterControl /\ c = digit
                                                  \/ s[1] \notin DigitControl /\ c = letter
  <2> DEFINE p == WithSlipAt(s, 9, c)
  <2>1. Len(p) = 9 /\ p[9] = c /\ \A j \in 1..8 : p[j] = s[j]
    BY DEF WithSlipAt
  <2> HIDE DEF p
  <2>2. \A j \in 1..7 : p[j + 1] = s[j + 1]
    BY <2>1
  <2>3. Counted(p) = Counted(s)
    BY <2>2 DEF Counted
  <2>4. CifControl(p) = CifControl(s)
    BY <2>3, CifControlIs
  <2>5. /\ NineCharacters(p) /\ p[1] = s[1] /\ s[1] \in Organizations
        /\ \A j \in 2..8 : IsDigit(p[j])
    BY <2>1 DEF CifAccepted, NineCharacters
  <2> QED
    BY <2>1, <2>4, <2>5 DEF CifAccepted, p
<1> HIDE DEF digit, letter, all
<1>3. controls = {c \in all : \/ s[1] \notin LetterControl /\ c = digit
                              \/ s[1] \notin DigitControl /\ c = letter}
  BY <1>2
<1> HIDE DEF controls
<1>4. Cardinality({digit}) = 1 /\ Cardinality({letter}) = 1 /\ Cardinality({digit, letter}) = 2
  <2>1. Cardinality({digit}) = 1 /\ IsFiniteSet({digit})
    BY FS_Singleton
  <2>2. Cardinality({letter}) = 1
    BY FS_Singleton
  <2>3. Cardinality({digit} \cup {letter}) = Cardinality({digit}) + 1
    BY <1>1, <2>1, FS_AddElement
  <2>4. {digit} \cup {letter} = {digit, letter}
    OBVIOUS
  <2>5. Cardinality({digit, letter}) = Cardinality({digit}) + 1
    BY <2>3, <2>4, Zenon
  <2>6. Cardinality({digit, letter}) = 2
    BY <2>1, <2>5
  <2> QED
    BY <2>1, <2>2, <2>6, Zenon
<1>5. CASE s[1] \in DigitControl
  <2>1. s[1] \notin LetterControl
    BY <1>5 DEF DigitControl, LetterControl
  <2>2. controls = {digit}
    BY <1>1, <1>3, <1>5, <2>1
  <2> QED
    BY <1>4, <1>5, <2>2 DEF controls, all
<1>6. CASE s[1] \in LetterControl
  <2>1. s[1] \notin DigitControl
    BY <1>6 DEF DigitControl, LetterControl
  <2>2. controls = {letter}
    BY <1>1, <1>3, <1>6, <2>1
  <2> QED
    BY <1>4, <1>6, <2>2 DEF controls, all
<1>7. CASE s[1] \notin DigitControl \cup LetterControl
  <2>1. controls = {digit, letter}
    BY <1>1, <1>3, <1>7
  <2> QED
    BY <1>4, <1>7, <2>1 DEF controls, all
<1> QED
  BY <1>5, <1>6, <1>7

LEMMA Appended ==
  ASSUME NEW S, NEW t \in Seq(S), NEW c \in S
  PROVE  /\ Append(t, c) \in Seq(S) /\ Len(Append(t, c)) = Len(t) + 1
         /\ Append(t, c)[Len(t) + 1] = c
BY AppendProperties, Zenon

LEMMA AppendedKeeps ==
  ASSUME NEW S, NEW t \in Seq(S), NEW c \in S
  PROVE  \A i \in 1..Len(t) : Append(t, c)[i] = t[i]
<1> SUFFICES ASSUME NEW i \in 1..Len(t) PROVE Append(t, c)[i] = t[i]
  OBVIOUS
<1> QED
  BY AppendProperties

LEMMA OfLength ==
  ASSUME NEW S, NEW n \in Nat, NEW s \in [1..n -> S]
  PROVE  s \in Seq(S) /\ Len(s) = n
<1>1. s \in Seq(S)
  OBVIOUS
<1>2. DOMAIN s = 1..n /\ DOMAIN s = 1..Len(s) /\ Len(s) \in Nat
  BY <1>1, LenProperties
<1>3. n = Len(s)
  BY <1>2
<1> QED
  BY <1>1, <1>3

LEMMA OnlyALineBreakFollows ==
  ASSUME NEW s \in Seq(Characters), Len(s) = 9, NEW c \in Characters
  PROVE  /\ NineCharacters(Append(s, c)) <=> c = "\n"
         /\ \A i \in 1..9 : Append(s, c)[i] = s[i]
<1> DEFINE p == Append(s, c)
<1>1. Len(p) = Len(s) + 1 /\ p[Len(s) + 1] = c
  BY Appended
<1>2. \A i \in 1..9 : p[i] = s[i]
  <2> DEFINE n == Len(s)
  <2>1. n = 9
    OBVIOUS
  <2> HIDE DEF n
  <2>2. \A i \in 1..n : p[i] = s[i]
    BY AppendedKeeps DEF n
  <2> QED
    BY <2>1, <2>2
<1> HIDE DEF p
<1>3. Len(s) + 1 = 10
  OBVIOUS
<1>4. Len(p) = 10 /\ p[10] = c
  BY <1>1, <1>3
<1>5. Len(p) # 9
  BY <1>4
<1>6. NineCharacters(p) <=> c = "\n"
  BY <1>4, <1>5, Zenon DEF NineCharacters
<1> QED
  BY <1>2, <1>6 DEF p

(* An identifier is judged by its first nine characters.                   *)
LEMMA FollowedIdentifiers ==
  ASSUME NEW s \in Seq(Characters), Len(s) = 9, NEW c \in Characters
  PROVE  /\ NifAccepted(s) => (NifAccepted(Append(s, c)) <=> c = "\n")
         /\ CifAccepted(s) => (CifAccepted(Append(s, c)) <=> c = "\n")
<1> DEFINE p == Append(s, c)
<1>1. (NineCharacters(p) <=> c = "\n") /\ \A i \in 1..9 : p[i] = s[i]
  BY OnlyALineBreakFollows
<1> HIDE DEF p
<1>2. /\ p[1] = s[1] /\ p[2] = s[2] /\ p[3] = s[3] /\ p[4] = s[4] /\ p[5] = s[5]
      /\ p[6] = s[6] /\ p[7] = s[7] /\ p[8] = s[8] /\ p[9] = s[9]
  BY <1>1
<1>n. NifNumber(p) = NifNumber(s)
  BY <1>2, SMT DEF NifNumber
<1>f. CifControl(p) = CifControl(s)
  BY <1>2, SMT DEF CifControl
<1>3. /\ p[1] = s[1] /\ p[9] = s[9]
      /\ (\A i \in 2..8 : IsDigit(p[i])) <=> (\A i \in 2..8 : IsDigit(s[i]))
  BY <1>1
<1>4. NifAccepted(s) => (NifAccepted(p) <=> c = "\n")
  BY <1>1, <1>n, <1>3, Zenon DEF NifAccepted
<1>5. CifAccepted(s) => (CifAccepted(p) <=> c = "\n")
  BY <1>1, <1>f, <1>3, Zenon DEF CifAccepted
<1> QED
  BY <1>4, <1>5 DEF p

(* Of every NIF or NIE that NIF._validate accepts, with no line break after *)
(* it, the control letter refuses each such slip; only a line break may    *)
(* follow it, and may follow every one.                                    *)
THEOREM NifFindsSlips ==
  ASSUME NEW s \in Seq(Characters), Len(s) = 9, NifAccepted(s)
  PROVE  /\ \A i \in 1..8 : \A c \in (DOMAIN ValueOf) \ {s[i]} :
              ValueOf[c] # ValueOf[s[i]] => ~NifAccepted(WithSlipAt(s, i, c))
         /\ \A c \in ToSet(NifLetters) \ {s[9]} : ~NifAccepted(WithSlipAt(s, 9, c))
         /\ \A i \in 1..7 : ValueOf[s[i]] # ValueOf[s[i + 1]] => ~NifAccepted(Swapped(s, i))
         /\ \A c \in Characters : NifAccepted(Append(s, c)) <=> c = "\n"
<1>1. \A i \in 1..8 : \A c \in (DOMAIN ValueOf) \ {s[i]} :
        ValueOf[c] # ValueOf[s[i]] => ~NifAccepted(WithSlipAt(s, i, c))
  BY NifFindsASlip
<1>2. \A c \in ToSet(NifLetters) \ {s[9]} : ~NifAccepted(WithSlipAt(s, 9, c))
  BY NifFindsALetter
<1>3. \A i \in 1..7 : ValueOf[s[i]] # ValueOf[s[i + 1]] => ~NifAccepted(Swapped(s, i))
  BY NifFindsASwap
<1>4. \A c \in Characters : NifAccepted(Append(s, c)) <=> c = "\n"
  BY FollowedIdentifiers
<1> QED
  BY <1>1, <1>2, <1>3, <1>4

(* So does the control of every CIF that CIF._validate accepts, with the   *)
(* exceptions that MistypedIdentifiersAreRefused names.                    *)
THEOREM CifFindsSlips ==
  ASSUME NEW s \in Seq(Characters), Len(s) = 9, CifAccepted(s)
  PROVE  /\ \A i \in 2..8 : \A c \in ToSet(DigitChars) \ {s[i]} : ~CifAccepted(WithSlipAt(s, i, c))
         /\ \A i \in 2..7 :
              s[i] # s[i + 1] => (CifAccepted(Swapped(s, i)) <=> {s[i], s[i + 1]} = {"0", "9"})
         /\ \A c \in Characters : CifAccepted(Append(s, c)) <=> c = "\n"
         /\ LET controls == {c \in ToSet(DigitChars) \cup ToSet(CifLetters) :
                               CifAccepted(WithSlipAt(s, 9, c))}
            IN Cardinality(controls) = IF s[1] \in DigitControl \cup LetterControl THEN 1 ELSE 2
<1>1. \A i \in 2..8 : \A c \in ToSet(DigitChars) \ {s[i]} : ~CifAccepted(WithSlipAt(s, i, c))
  BY CifFindsASlip
<1>2. \A i \in 2..7 :
        s[i] # s[i + 1] => (CifAccepted(Swapped(s, i)) <=> {s[i], s[i + 1]} = {"0", "9"})
  BY CifFindsASwap, CifMissesASwap
<1>3. \A c \in Characters : CifAccepted(Append(s, c)) <=> c = "\n"
  BY FollowedIdentifiers
<1>4. LET controls == {c \in ToSet(DigitChars) \cup ToSet(CifLetters) :
                         CifAccepted(WithSlipAt(s, 9, c))}
      IN Cardinality(controls) = IF s[1] \in DigitControl \cup LetterControl THEN 1 ELSE 2
  BY CifControls
<1> QED
  BY <1>1, <1>2, <1>3, <1>4

(* What is typed is nine characters that were accepted, and no step        *)
(* changes it.                                                             *)
TypedInv ==
  /\ job.of = "nif" => job.typed \in Seq(Characters) /\ Len(job.typed) = 9 /\ NifAccepted(job.typed)
  /\ job.of = "cif" => job.typed \in Seq(Characters) /\ Len(job.typed) = 9 /\ CifAccepted(job.typed)

LEMMA NeighboursAreEight ==
  ASSUME NEW f \in Characters, NEW s \in Neighbours(f, 2)
  PROVE  s \in Seq(Characters) /\ Len(s) = 8
<1>1. "0" \in ToSet(DigitChars)
  BY DEF ToSet, DigitChars
<1>2. "0" \in Characters /\ ToSet(DigitChars) \subseteq Characters
  BY <1>1 DEF Characters
<1>3. s \in [1..8 -> Characters]
  BY <1>2 DEF Neighbours
<1>4. 8 \in Nat
  OBVIOUS
<1> QED
  BY ZenonT(30), <1>3, <1>4, OfLength

LEMMA NineTyped ==
  ASSUME NEW s \in Nifs \cup Cifs
  PROVE  s \in Seq(Characters) /\ Len(s) = 9
<1>1. /\ "0" \in Characters /\ "7" \in Characters
      /\ "X" \in Characters /\ "Y" \in Characters /\ "Z" \in Characters
      /\ "H" \in Characters /\ "G" \in Characters /\ "P" \in Characters
  BY DEF ToSet, DigitChars, NifLetters, CifLetters, Characters
<1>2. /\ ToSet(DigitChars) \subseteq Characters /\ ToSet(NifLetters) \subseteq Characters
      /\ ToSet(CifLetters) \subseteq Characters
  BY DEF Characters
<1>3. PICK f \in Characters : \E t \in Neighbours(f, 2) : \E c \in Characters : s = Append(t, c)
  <2>1. CASE s \in Nifs
    BY <1>1, <1>2, <2>1 DEF Nifs
  <2>2. CASE s \in Cifs
    BY <1>1, <1>2, <2>2 DEF Cifs
  <2> QED
    BY <2>1, <2>2
<1>4. PICK t \in Neighbours(f, 2) : \E c \in Characters : s = Append(t, c)
  BY <1>3
<1>5. PICK c \in Characters : s = Append(t, c)
  BY <1>4
<1>6. t \in Seq(Characters) /\ Len(t) = 8
  BY NeighboursAreEight
<1>7. s \in Seq(Characters) /\ Len(s) = Len(t) + 1
  BY <1>5, <1>6, Appended
<1> QED
  BY <1>6, <1>7

LEMMA TypedInvariance == Spec => []TypedInv
<1>1. Init => TypedInv
  <2> SUFFICES ASSUME Init PROVE TypedInv
    OBVIOUS
  <2>1. ASSUME job.of = "nif" PROVE job.typed \in Nifs /\ NifAccepted(job.typed)
    BY <2>1 DEF Init
  <2>2. ASSUME job.of = "cif" PROVE job.typed \in Cifs /\ CifAccepted(job.typed)
    BY <2>2 DEF Init
  <2> QED
    BY <2>1, <2>2, NineTyped DEF TypedInv
<1>2. TypedInv /\ [Split \/ Mismatch \/ Send]_vars => TypedInv'
  <2> SUFFICES ASSUME TypedInv, [Split \/ Mismatch \/ Send]_vars PROVE TypedInv'
    OBVIOUS
  <2>1. CASE UNCHANGED job
    BY <2>1 DEF TypedInv
  <2>2. CASE Split
    BY <2>2 DEF TypedInv, Split
  <2> QED
    BY <2>1, <2>2 DEF Mismatch, Send, vars
<1> QED
  BY <1>1, <1>2, PTL DEF Spec

(* MistypedIdentifiersAreRefused: every identifier of a job is one that was *)
(* accepted, so the two theorems above speak of it.                        *)
THEOREM FoundSlips == Spec => []MistypedIdentifiersAreRefused
<1>1. TypedInv => MistypedIdentifiersAreRefused
  <2> SUFFICES ASSUME TypedInv PROVE MistypedIdentifiersAreRefused
    OBVIOUS
  <2> DEFINE s == job.typed
  <2>1. ASSUME job.of = "nif"
        PROVE  s \in Seq(Characters) /\ Len(s) = 9 /\ NifAccepted(s)
    BY <2>1 DEF TypedInv
  <2>2. ASSUME job.of = "cif"
        PROVE  s \in Seq(Characters) /\ Len(s) = 9 /\ CifAccepted(s)
    BY <2>2 DEF TypedInv
  <2> QED
    BY <2>1, <2>2, NifFindsSlips, CifFindsSlips DEF MistypedIdentifiersAreRefused
<1> QED
  BY <1>1, TypedInvariance, PTL

-----------------------------------------------------------------------------
(* Powers of ten *)

(* The powers of the first n exponents.                                    *)
Powers(n, g) == /\ g \in [0..n -> Nat] /\ g[0] = 1
                /\ \A i \in 1..n : g[i] = 10 * g[i - 1]

LEMMA PowersExist ==
  ASSUME NEW n \in Nat
  PROVE  \E g : Powers(n, g)
<1> DEFINE S == {m \in Nat : \E g : Powers(m, g)}
<1>1. 0 \in S
  <2>1. Powers(0, [i \in 0..0 |-> 1])
    BY DEF Powers
  <2> QED
    BY <2>1
<1>2. ASSUME NEW m \in Nat, m \in S PROVE m + 1 \in S
  <2>1. PICK g : Powers(m, g)
    BY <1>2
  <2> DEFINE h == [i \in 0..(m + 1) |-> IF i = m + 1 THEN 10 * g[m] ELSE g[i]]
  <2>2. g[m] \in Nat /\ 10 * g[m] \in Nat
    BY <2>1 DEF Powers
  <2>3. h \in [0..(m + 1) -> Nat] /\ h[0] = 1
    BY <2>1, <2>2 DEF Powers
  <2>4. \A i \in 1..(m + 1) : h[i] = 10 * h[i - 1]
    BY <2>1 DEF Powers
  <2>5. Powers(m + 1, h)
    BY <2>3, <2>4 DEF Powers
  <2> QED
    BY <2>5
<1> HIDE DEF S
<1>3. \A m \in Nat : m \in S
  BY <1>1, <1>2, Induction
<1> QED
  BY <1>3 DEF S

LEMMA PowerIsTheLast ==
  ASSUME NEW n \in Nat, NEW g, Powers(n, g)
  PROVE  PowerOfTen(n) = g[n]
<1> DEFINE Rec(h) == h = [i \in 0..n |-> IF i = 0 THEN 1 ELSE 10 * h[i - 1]]
           h == CHOOSE h : Rec(h)
           S == {m \in Nat : m <= n => h[m] = g[m]}
<1>1. Rec(g)
  BY DEF Powers
<1>2. Rec(h)
  BY <1>1
<1>3. PowerOfTen(n) = h[n]
  BY DEF PowerOfTen
<1> HIDE DEF h
<1>4. 0 \in S
  BY <1>2 DEF Powers
<1>5. ASSUME NEW m \in Nat, m \in S PROVE m + 1 \in S
  <2> SUFFICES ASSUME m + 1 <= n PROVE h[m + 1] = g[m + 1]
    OBVIOUS
  <2>1. h[m] = g[m]
    BY <1>5
  <2>2. h[m + 1] = 10 * h[m]
    BY <1>2
  <2>3. g[m + 1] = 10 * g[m]
    BY DEF Powers
  <2> QED
    BY <2>1, <2>2, <2>3
<1> HIDE DEF S
<1>6. \A m \in Nat : m \in S
  BY <1>4, <1>5, Induction
<1> QED
  BY <1>3, <1>6 DEF S

LEMMA PowerOfZero ==
  PowerOfTen(0) = 1
<1>1. PICK g : Powers(0, g)
  BY PowersExist
<1> QED
  BY <1>1, PowerIsTheLast DEF Powers

LEMMA NextPower ==
  ASSUME NEW n \in Nat
  PROVE  /\ PowerOfTen(n) \in Nat
         /\ PowerOfTen(n + 1) = 10 * PowerOfTen(n)
<1>1. PICK g : Powers(n + 1, g)
  BY PowersExist
<1> DEFINE h == [i \in 0..n |-> g[i]]
<1>2. Powers(n, h)
  BY <1>1 DEF Powers
<1>3. PowerOfTen(n + 1) = g[n + 1] /\ PowerOfTen(n) = h[n]
  BY <1>1, <1>2, PowerIsTheLast
<1> QED
  BY <1>1, <1>3 DEF Powers

(* A power of ten is more than its exponent.                               *)
LEMMA PowersArePositive ==
  ASSUME NEW n \in Nat
  PROVE  PowerOfTen(n) \in Nat /\ n < PowerOfTen(n)
<1> DEFINE S == {m \in Nat : m < PowerOfTen(m)}
<1>1. 0 \in S
  BY PowerOfZero
<1>2. ASSUME NEW m \in Nat, m \in S PROVE m + 1 \in S
  BY <1>2, NextPower
<1> HIDE DEF S
<1>3. n \in S
  BY <1>1, <1>2, Induction
<1> QED
  BY <1>3, NextPower DEF S

LEMMA PowersMultiply ==
  ASSUME NEW m \in Nat, NEW n \in Nat
  PROVE  PowerOfTen(m + n) = PowerOfTen(m) * PowerOfTen(n)
<1> DEFINE S == {k \in Nat : PowerOfTen(m + k) = PowerOfTen(m) * PowerOfTen(k)}
           p == PowerOfTen(m)
<1>1. p \in Nat
  BY PowersArePositive
<1>2. 0 \in S
  BY <1>1, PowerOfZero
<1>3. ASSUME NEW k \in Nat, k \in S PROVE m + (k + 1) = (m + k) + 1 /\ k + 1 \in S
  <2> DEFINE q == PowerOfTen(k)
  <2>1. q \in Nat
    BY PowersArePositive
  <2>2. m + (k + 1) = (m + k) + 1 /\ m + k \in Nat
    OBVIOUS
  <2>3. PowerOfTen(m + (k + 1)) = 10 * (p * q)
    BY <1>3, <2>2, NextPower
  <2>4. PowerOfTen(k + 1) = 10 * q
    BY NextPower
  <2> HIDE DEF p, q
  <2>5. 10 * (p * q) = p * (10 * q)
    BY <1>1, <2>1
  <2> QED
    BY <2>2, <2>3, <2>4, <2>5 DEF p
<1> HIDE DEF S
<1>4. n \in S
  BY <1>2, <1>3, Induction
<1> QED
  BY <1>4 DEF S

LEMMA Times ==
  ASSUME NEW a \in Int, a >= 0, NEW b \in Int, b >= 1
  PROVE  a <= a * b /\ a * b \in Int
OBVIOUS

(* The lesser of two powers divides the greater.                           *)
LEMMA PowersDivide ==
  ASSUME NEW m \in Nat, NEW n \in Nat, m <= n
  PROVE  /\ n - m \in Nat
         /\ PowerOfTen(n) = PowerOfTen(m) * PowerOfTen(n - m)
         /\ PowerOfTen(m) <= PowerOfTen(n)
<1>1. n - m \in Nat /\ m + (n - m) = n
  OBVIOUS
<1>2. PowerOfTen(n) = PowerOfTen(m) * PowerOfTen(n - m)
  BY <1>1, PowersMultiply
<1>3. PowerOfTen(m) \in Nat /\ PowerOfTen(n - m) \in Nat /\ 0 < PowerOfTen(n - m)
  BY <1>1, PowersArePositive
<1> QED
  BY <1>1, <1>2, <1>3, Times

-----------------------------------------------------------------------------
(* Roundings *)

(* LastPlace finds the least power that leaves n no more than d digits.    *)
IsPlace(n, d, e) == n < PowerOfTen(d + e) /\ \A f \in Nat : f < e => PowerOfTen(d + f) <= n

LEMMA PlaceIs ==
  ASSUME NEW n \in Nat, NEW d \in Nat
  PROVE  \E e \in Nat : IsPlace(n, d, e) /\ LastPlace(n, d) = PowerOfTen(e)
<1> DEFINE Short == {e \in Nat : n < PowerOfTen(d + e)}
<1>1. n \in Short
  <2>1. d + n \in Nat /\ n <= d + n
    OBVIOUS
  <2> QED
    BY <2>1, PowersArePositive
<1>2. PICK e \in Short : \A f \in Short : e <= f
  <2>1. Short \in SUBSET Nat /\ Short # {}
    BY <1>1
  <2> HIDE DEF Short
  <2> QED
    BY <2>1, Least
<1>3. e \in 0..n
  BY <1>1, <1>2
<1>4. IsPlace(n, d, e)
  <2> SUFFICES ASSUME NEW f \in Nat, f < e PROVE PowerOfTen(d + f) <= n
    BY <1>2 DEF IsPlace
  <2>1. ~(n < PowerOfTen(d + f)) /\ d + f \in Nat
    BY <1>2
  <2> QED
    BY <2>1, PowersArePositive
<1> DEFINE Rec(h) == h = [i \in 0..n |-> IF n < PowerOfTen(d + i) THEN PowerOfTen(i) ELSE h[i + 1]]
           g == [i \in 0..n |-> IF i <= e THEN PowerOfTen(e) ELSE PowerOfTen(i)]
           h == CHOOSE h : Rec(h)
<1>5. ASSUME NEW i \in 0..n
      PROVE  g[i] = IF n < PowerOfTen(d + i) THEN PowerOfTen(i) ELSE g[i + 1]
  <2>1. CASE i < e
    <3>1. ~(n < PowerOfTen(d + i)) /\ i + 1 \in 0..n /\ i + 1 <= e
      BY <1>2, <1>3, <2>1
    <3> QED
      BY <2>1, <3>1
  <2>2. CASE i = e
    BY <1>2, <2>2
  <2>3. CASE e < i
    <3>1. d + e \in Nat /\ d + i \in Nat /\ d + e <= d + i
      BY <1>3, <2>3
    <3>2. /\ PowerOfTen(d + e) <= PowerOfTen(d + i)
          /\ PowerOfTen(d + e) \in Nat /\ PowerOfTen(d + i) \in Nat
      BY <3>1, PowersDivide, PowersArePositive
    <3>3. n < PowerOfTen(d + i)
      BY <1>2, <3>2
    <3> QED
      BY <1>3, <2>3, <3>3
  <2> QED
    BY <1>3, <2>1, <2>2, <2>3
<1>6. Rec(g)
  <2> DEFINE w == [i \in 0..n |-> IF n < PowerOfTen(d + i) THEN PowerOfTen(i) ELSE g[i + 1]]
  <2>1. DOMAIN g = 0..n /\ g = [i \in 0..n |-> g[i]]
    OBVIOUS
  <2> HIDE DEF g
  <2>2. [i \in 0..n |-> g[i]] = w
    BY <1>5
  <2> QED
    BY <2>1, <2>2
<1>7. Rec(h)
  <2> HIDE DEF g, Rec
  <2> QED
    BY <1>6
<1>8. LastPlace(n, d) = h[0]
  BY DEF LastPlace
<1> HIDE DEF h, g
<1> DEFINE S == {m \in Nat : m <= e => h[m] = h[0]}
<1>9. 0 \in S
  OBVIOUS
<1>10. ASSUME NEW m \in Nat, m \in S PROVE m + 1 \in S
  <2> SUFFICES ASSUME m + 1 <= e PROVE h[m + 1] = h[0]
    OBVIOUS
  <2>1. m \in 0..n /\ m < e /\ h[m] = h[0]
    BY <1>3, <1>10
  <2>2. ~(n < PowerOfTen(d + m))
    BY <1>2, <2>1
  <2>3. h[m] = h[m + 1]
    BY <1>7, <2>1, <2>2
  <2> QED
    BY <2>1, <2>3
<1> HIDE DEF S
<1>11. e \in S
  BY <1>3, <1>9, <1>10, Induction
<1>12. h[e] = PowerOfTen(e)
  BY <1>2, <1>3, <1>7
<1> QED
  BY <1>2, <1>4, <1>8, <1>11, <1>12 DEF S

(* Rounding n to multiples of p, halves up and halves to even, keeps a     *)
(* multiple of p and falls below none that n is not below.                 *)
RoundsTo(n, p, r) == /\ r \in Nat
                     /\ n % p = 0 => r = n
                     /\ \A c \in Nat : c * p <= n => c * p <= r

(* r is no further from n than half of p.                                  *)
Near(n, p, r) == 2 * (r - n) <= p /\ 2 * (n - r) <= p

LEMMA Quotient ==
  ASSUME NEW n \in Nat, NEW p \in Nat, p > 0, NEW q \in Nat, n \div p <= q,
         n % p = 0 => q = n \div p
  PROVE  RoundsTo(n, p, q * p)
<1> DEFINE d == n \div p
           r == n % p
<1>1. d \in Nat /\ r \in Nat /\ r < p /\ n = p * d + r
  BY Division
<1>2. q * p \in Nat /\ d * p \in Nat /\ d * p = p * d
  BY <1>1
<1>3. r = 0 => q * p = n
  BY <1>1, <1>2
<1>4. ASSUME NEW c \in Nat, c * p <= n PROVE c * p <= q * p
  <2>1. c <= d
    <3> SUFFICES ASSUME c >= d + 1 PROVE FALSE
      BY <1>1
    <3>1. PICK k \in Nat : c = (d + 1) + k
      <4>1. c - (d + 1) \in Nat /\ c = (d + 1) + (c - (d + 1))
        BY <1>1
      <4> QED
        BY <4>1
    <3> HIDE DEF d, r
    <3>2. c * p = d * p + p + k * p /\ k * p \in Nat
      BY <1>1, <3>1
    <3> QED
      BY <1>1, <1>2, <1>4, <3>2
  <2>2. PICK k \in Nat : q = c + k
    <3>1. q - c \in Nat /\ q = c + (q - c)
      BY <1>1, <2>1
    <3> QED
      BY <3>1
  <2>3. q * p = c * p + k * p /\ k * p \in Nat /\ c * p \in Nat
    BY <2>2
  <2> QED
    BY <2>3
<1> QED
  BY <1>2, <1>3, <1>4 DEF RoundsTo

LEMMA HalvesUp ==
  ASSUME NEW n \in Nat, NEW p \in Nat, p > 0
  PROVE  /\ RoundsTo(n, p, ((2 * n + p) \div (2 * p)) * p)
         /\ Near(n, p, ((2 * n + p) \div (2 * p)) * p)
<1> DEFINE q == (2 * n + p) \div (2 * p)
           s == (2 * n + p) % (2 * p)
           d == n \div p
           r == n % p
           m == p * d
           w == p * q
<1>1. d \in Nat /\ r \in Nat /\ r < p /\ n = m + r
  BY Division
<1>2. q \in Int /\ s \in Int /\ 0 <= s /\ s < 2 * p /\ 2 * n + p = (2 * p) * q + s /\ q >= 0
  <2>1. 2 * n + p \in Int /\ 2 * p \in Int /\ 2 * p > 0 /\ 2 * n + p >= 0
    OBVIOUS
  <2> QED
    BY <2>1, Division
<1>3. (2 * p) * q = 2 * w /\ w \in Int /\ m \in Int
  BY <1>1, <1>2
<1> HIDE DEF s, r, m, w
<1>4. m + r + r + m + p = 2 * w + s
  BY <1>1, <1>2, <1>3
<1> HIDE DEF q, d
<1>5. d <= q
  <2> SUFFICES ASSUME q + 1 <= d PROVE FALSE
    BY <1>1, <1>2
  <2>1. PICK k \in Nat : d = (q + 1) + k
    <3>1. d - (q + 1) \in Nat /\ d = (q + 1) + (d - (q + 1))
      BY <1>1, <1>2
    <3> QED
      BY <3>1
  <2>2. m = w + p + p * k /\ p * k \in Nat
    BY <1>1, <1>2, <2>1 DEF m, w
  <2> QED
    BY <1>1, <1>2, <1>3, <1>4, <2>2
<1>6. ASSUME r = 0 PROVE q = d
  <2> SUFFICES ASSUME d + 1 <= q PROVE FALSE
    BY <1>1, <1>2, <1>5
  <2>1. PICK k \in Nat : q = (d + 1) + k
    <3>1. q - (d + 1) \in Nat /\ q = (d + 1) + (q - (d + 1))
      BY <1>1, <1>2
    <3> QED
      BY <3>1
  <2>2. w = m + p + p * k /\ p * k \in Nat
    BY <1>1, <1>2, <2>1 DEF m, w
  <2> QED
    BY <1>1, <1>2, <1>3, <1>4, <1>6, <2>2
<1>7. q \in Nat
  BY <1>2
<1>8. n \div p <= q /\ (n % p = 0 => q = n \div p)
  BY <1>5, <1>6 DEF d, r
<1>9. RoundsTo(n, p, q * p)
  BY <1>7, <1>8, Quotient
<1>10. Near(n, p, q * p)
  <2>1. q * p = w
    BY <1>2 DEF w
  <2>2. Near(n, p, w)
    BY <1>1, <1>2, <1>3, <1>4 DEF Near
  <2> QED
    BY <2>1, <2>2
<1> QED
  BY <1>9, <1>10 DEF q

LEMMA HalvesToEven ==
  ASSUME NEW n \in Nat, NEW p \in Nat, p > 0, NEW up \in BOOLEAN, n % p = 0 => ~up,
         up => p <= 2 * (n % p), ~up => 2 * (n % p) <= p
  PROVE  /\ RoundsTo(n, p, ((n \div p) + (IF up THEN 1 ELSE 0)) * p)
         /\ Near(n, p, ((n \div p) + (IF up THEN 1 ELSE 0)) * p)
<1> DEFINE q == (n \div p) + (IF up THEN 1 ELSE 0)
<1>1. n \div p \in Nat
  BY Division
<1>2. q \in Nat /\ n \div p <= q /\ (n % p = 0 => q = n \div p)
  BY <1>1
<1>3. RoundsTo(n, p, q * p)
  BY <1>2, Quotient
<1>4. Near(n, p, q * p)
  <2> DEFINE d == n \div p
             r == n % p
             m == p * d
  <2>1. d \in Nat /\ r \in Nat /\ r < p /\ n = m + r
    BY Division
  <2>2. m \in Int /\ d * p = m /\ (d + 1) * p = m + p
    BY <2>1
  <2>3. /\ up => q * p = m + p /\ p <= 2 * r
        /\ ~up => q * p = m /\ 2 * r <= p
    <3>1. q = d + (IF up THEN 1 ELSE 0)
      OBVIOUS
    <3> HIDE DEF q, d, m
    <3>2. (up => q = d + 1) /\ (~up => q = d)
      BY <2>1, <3>1
    <3> QED
      BY <2>2, <3>2
  <2> HIDE DEF q, m, r, d
  <2> QED
    BY <2>1, <2>2, <2>3 DEF Near
<1> QED
  BY <1>3, <1>4

(* The least number that the digits do not reach: ten times the whole.     *)
Beyond == PowerOfTen(Scale + 3)

LEMMA LastAndBeyond ==
  /\ LastExact \in Nat /\ LastExact > 0 /\ Beyond \in Nat /\ Full \in Nat /\ Full < Beyond
  /\ Scale + 3 - ClientDigits \in Nat /\ ClientDigits \in Nat /\ ClientDigits > 0
  /\ ServerDigits \in Nat /\ ServerDigits >= ClientDigits /\ Scale \in Nat
<1>1. /\ Scale + 3 - ClientDigits \in Nat /\ ClientDigits \in Nat /\ ClientDigits > 0
      /\ ServerDigits \in Nat /\ ServerDigits >= ClientDigits /\ Scale \in Nat
      /\ Scale + 2 \in Nat /\ Scale + 3 \in Nat /\ (Scale + 2) + 1 = Scale + 3
  BY DigitsAssumption
<1>2. LastExact \in Nat /\ LastExact > 0
  BY <1>1, PowersArePositive DEF LastExact
<1>3. Full \in Nat /\ 0 < Full /\ Beyond = 10 * Full
  BY <1>1, PowersArePositive, NextPower DEF Full, Beyond
<1> QED
  BY <1>1, <1>2, <1>3

(* A rounding that keeps the multiples of LastExact that are not beyond,   *)
(* moves no other by more than half of it, and takes nothing that is       *)
(* beyond below it.                                                        *)
Keeps(R) == /\ \A n \in Nat : R[n] \in Nat
            /\ \A n \in Nat : n < Beyond /\ n % LastExact = 0 => R[n] = n
            /\ \A n \in Nat : Beyond <= n => Beyond <= R[n]
            /\ \A n \in Nat : n < Beyond => Near(n, LastExact, R[n])

LEMMA PlacesKeep ==
  ASSUME NEW n \in Nat, NEW d \in Nat, ClientDigits <= d, NEW e \in Nat, IsPlace(n, d, e)
  PROVE  /\ n < Beyond => PowerOfTen(e) <= LastExact
         /\ n < Beyond /\ n % LastExact = 0 => n % PowerOfTen(e) = 0
         /\ Beyond <= n => \E c \in Nat : Beyond <= c * PowerOfTen(e) /\ c * PowerOfTen(e) <= n
<1> DEFINE K == Scale + 3 - ClientDigits
           p == PowerOfTen(e)
<1>1. K \in Nat /\ K + ClientDigits = Scale + 3 /\ p \in Nat /\ p > 0 /\ d > 0
  BY LastAndBeyond, PowersArePositive
<1>0. ASSUME n < Beyond PROVE e <= K
  <2> SUFFICES ASSUME K < e PROVE FALSE
    BY <1>1
  <2>1. PowerOfTen(d + K) <= n
    BY <1>1 DEF IsPlace
  <2>2. Scale + 3 \in Nat /\ d + K \in Nat /\ Scale + 3 <= d + K
    BY <1>1, LastAndBeyond
  <2>3. Beyond <= PowerOfTen(d + K) /\ PowerOfTen(d + K) \in Nat
    BY <2>2, PowersDivide, PowersArePositive DEF Beyond
  <2> QED
    BY <1>0, <2>1, <2>3, LastAndBeyond
<1>n. n < Beyond => p <= LastExact
  BY <1>0, <1>1, PowersDivide DEF LastExact
<1>2. ASSUME n < Beyond, n % LastExact = 0 PROVE n % p = 0
  <2>1. e <= K
    BY <1>0, <1>2
  <2>2. LastExact = p * PowerOfTen(K - e) /\ K - e \in Nat
    BY <1>1, <2>1, PowersDivide DEF LastExact
  <2> DEFINE u == PowerOfTen(K - e)
             q == n \div LastExact
  <2>3. u \in Nat
    BY <2>2, PowersArePositive
  <2>4. q \in Nat /\ n = LastExact * q
    <3>1. q \in Nat /\ n = LastExact * q + (n % LastExact)
      BY LastAndBeyond, Division
    <3>2. LastExact * q \in Int
      BY <3>1, LastAndBeyond
    <3> HIDE DEF q
    <3> QED
      BY <1>2, <3>1, <3>2
  <2> HIDE DEF p, u, q
  <2>5. n = p * (u * q) /\ u * q \in Int
    <3>1. (p * u) * q = p * (u * q) /\ u * q \in Int
      BY <1>1, <2>3, <2>4
    <3> QED
      BY <2>2, <2>4, <3>1 DEF u
  <2> QED
    BY <1>1, <2>5, Multiples
<1>3. ASSUME Beyond <= n PROVE \E c \in Nat : Beyond <= c * p /\ c * p <= n
  <2>1. CASE e <= Scale + 3
    <3>1. Beyond = p * PowerOfTen(Scale + 3 - e) /\ Scale + 3 - e \in Nat
      BY <2>1, LastAndBeyond, PowersDivide DEF Beyond
    <3> DEFINE c == PowerOfTen(Scale + 3 - e)
    <3>2. c \in Nat
      BY <3>1, PowersArePositive
    <3>3. c * p = Beyond
      <4>1. c * p = p * c
        BY <1>1, <3>2
      <4> QED
        BY <3>1, <4>1
    <3> HIDE DEF c, p
    <3> QED
      BY <1>3, <3>2, <3>3, LastAndBeyond
  <2>2. CASE Scale + 3 < e
    <3>1. Scale + 3 \in Nat /\ Beyond <= p
      BY <2>2, LastAndBeyond, PowersDivide DEF Beyond
    <3>2. e - 1 \in Nat /\ e - 1 < e /\ e <= d + (e - 1) /\ d + (e - 1) \in Nat
      BY <1>1, <2>2, LastAndBeyond
    <3>3. PowerOfTen(d + (e - 1)) <= n
      BY <3>2 DEF IsPlace
    <3>4. p <= PowerOfTen(d + (e - 1)) /\ PowerOfTen(d + (e - 1)) \in Nat
      BY <3>2, PowersDivide, PowersArePositive
    <3>5. 1 * p = p /\ p <= n
      BY <1>1, <3>3, <3>4
    <3> HIDE DEF p
    <3> QED
      BY <3>1, <3>5
  <2> QED
    BY <2>1, <2>2, LastAndBeyond
<1> QED
  BY <1>n, <1>2, <1>3

LEMMA RoundingsKeep ==
  ASSUME NEW n \in Nat, NEW d \in Nat, ClientDigits <= d, NEW r, RoundsTo(n, LastPlace(n, d), r),
         Near(n, LastPlace(n, d), r)
  PROVE  /\ r \in Nat
         /\ n < Beyond /\ n % LastExact = 0 => r = n
         /\ Beyond <= n => Beyond <= r
         /\ n < Beyond => Near(n, LastExact, r)
<1>1. PICK e \in Nat : IsPlace(n, d, e) /\ LastPlace(n, d) = PowerOfTen(e)
  BY PlaceIs
<1> DEFINE p == PowerOfTen(e)
<1>2. /\ r \in Nat
      /\ n % p = 0 => r = n
      /\ \A c \in Nat : c * p <= n => c * p <= r
      /\ Near(n, p, r)
  BY <1>1 DEF RoundsTo
<1>3. /\ n < Beyond /\ n % LastExact = 0 => n % p = 0
      /\ Beyond <= n => \E c \in Nat : Beyond <= c * p /\ c * p <= n
      /\ n < Beyond => p <= LastExact
  BY <1>1, PlacesKeep
<1>4. p \in Nat
  BY PowersArePositive
<1> HIDE DEF p
<1>5. ASSUME Beyond <= n PROVE Beyond <= r
  <2>1. PICK c \in Nat : Beyond <= c * p /\ c * p <= n
    BY <1>3, <1>5
  <2>2. c * p <= r /\ c * p \in Nat
    BY <1>2, <1>4, <2>1
  <2> QED
    BY <1>2, <2>1, <2>2, LastAndBeyond
<1>6. ASSUME n < Beyond PROVE Near(n, LastExact, r)
  BY <1>2, <1>3, <1>4, <1>6, LastAndBeyond DEF Near
<1> QED
  BY <1>2, <1>3, <1>5, <1>6

LEMMA BothKeep ==
  Keeps(ClientRounded) /\ Keeps(ServerRounded)
<1>1. ASSUME NEW n \in Nat
      PROVE  /\ RoundsTo(n, LastPlace(n, ClientDigits), ClientRounded[n])
             /\ Near(n, LastPlace(n, ClientDigits), ClientRounded[n])
             /\ RoundsTo(n, LastPlace(n, ServerDigits), ServerRounded[n])
             /\ Near(n, LastPlace(n, ServerDigits), ServerRounded[n])
  <2>1. ASSUME NEW d \in Nat PROVE LastPlace(n, d) \in Nat /\ LastPlace(n, d) > 0
    <3>1. PICK e \in Nat : LastPlace(n, d) = PowerOfTen(e)
      BY PlaceIs
    <3> QED
      BY <3>1, PowersArePositive
  <2>2. /\ RoundsTo(n, LastPlace(n, ClientDigits), ClientRounded[n])
        /\ Near(n, LastPlace(n, ClientDigits), ClientRounded[n])
    <3> DEFINE p == LastPlace(n, ClientDigits)
    <3>1. ClientRounded[n] = ((2 * n + p) \div (2 * p)) * p
      BY DEF ClientRounded
    <3>2. p \in Nat /\ p > 0
      BY <2>1, LastAndBeyond
    <3> HIDE DEF p
    <3>3. /\ RoundsTo(n, p, ((2 * n + p) \div (2 * p)) * p)
          /\ Near(n, p, ((2 * n + p) \div (2 * p)) * p)
      BY <3>2, HalvesUp
    <3> QED
      BY <3>1, <3>3 DEF p
  <2>3. /\ RoundsTo(n, LastPlace(n, ServerDigits), ServerRounded[n])
        /\ Near(n, LastPlace(n, ServerDigits), ServerRounded[n])
    <3> DEFINE p == LastPlace(n, ServerDigits)
               up == 2 * (n % p) > p \/ (2 * (n % p) = p /\ (n \div p) % 2 = 1)
    <3>1. ServerRounded[n] = ((n \div p) + (IF up THEN 1 ELSE 0)) * p
      BY DEF ServerRounded
    <3>2. p \in Nat /\ p > 0
      BY <2>1, LastAndBeyond
    <3> HIDE DEF p
    <3>3. /\ up \in BOOLEAN /\ (n % p = 0 => ~up)
          /\ up => p <= 2 * (n % p)
          /\ ~up => 2 * (n % p) <= p
      <4>1. n % p \in Nat
        BY <3>2, Division
      <4> QED
        BY <3>2, <4>1
    <3> HIDE DEF up
    <3>4. /\ RoundsTo(n, p, ((n \div p) + (IF up THEN 1 ELSE 0)) * p)
          /\ Near(n, p, ((n \div p) + (IF up THEN 1 ELSE 0)) * p)
      BY <3>2, <3>3, HalvesToEven
    <3> QED
      BY <3>1, <3>4 DEF p
  <2> QED
    BY <2>2, <2>3
<1>2. ASSUME NEW n \in Nat
      PROVE  /\ ClientRounded[n] \in Nat
             /\ n < Beyond /\ n % LastExact = 0 => ClientRounded[n] = n
             /\ Beyond <= n => Beyond <= ClientRounded[n]
             /\ n < Beyond => Near(n, LastExact, ClientRounded[n])
  BY <1>1, RoundingsKeep, LastAndBeyond
<1>3. ASSUME NEW n \in Nat
      PROVE  /\ ServerRounded[n] \in Nat
             /\ n < Beyond /\ n % LastExact = 0 => ServerRounded[n] = n
             /\ Beyond <= n => Beyond <= ServerRounded[n]
             /\ n < Beyond => Near(n, LastExact, ServerRounded[n])
  BY <1>1, RoundingsKeep, LastAndBeyond
<1> QED
  BY <1>2, <1>3 DEF Keeps

-----------------------------------------------------------------------------
(* Forms *)

(* g are the running totals of f.                                          *)
Running(R, f, g) == /\ g \in [0..Len(f) -> Nat] /\ g[0] = 0
                    /\ \A i \in 1..Len(f) : g[i] = R[g[i - 1] + f[i]]

LEMMA RunningExist ==
  ASSUME NEW R, Keeps(R), NEW f \in Seq(Int), \A i \in 1..Len(f) : f[i] \in Nat
  PROVE  \E g : Running(R, f, g)
<1> DEFINE Upto(n, g) == /\ g \in [0..n -> Nat] /\ g[0] = 0
                         /\ \A i \in 1..n : g[i] = R[g[i - 1] + f[i]]
           S == {n \in Nat : n <= Len(f) => \E g : Upto(n, g)}
<1>1. 0 \in S
  <2>1. Upto(0, [i \in 0..0 |-> 0])
    OBVIOUS
  <2> QED
    BY <2>1
<1>2. ASSUME NEW n \in Nat, n \in S PROVE n + 1 \in S
  <2> SUFFICES ASSUME n + 1 <= Len(f) PROVE \E g : Upto(n + 1, g)
    <3> HIDE DEF Upto
    <3> QED
      OBVIOUS
  <2>1. PICK g : Upto(n, g)
    <3> HIDE DEF Upto
    <3> QED
      BY <1>2
  <2> DEFINE h == [i \in 0..(n + 1) |-> IF i = n + 1 THEN R[g[n] + f[n + 1]] ELSE g[i]]
  <2>2. f[n + 1] \in Nat /\ g[n] \in Nat /\ g[n] + f[n + 1] \in Nat
    BY <2>1
  <2>3. h \in [0..(n + 1) -> Nat] /\ h[0] = 0
    <3>1. R[g[n] + f[n + 1]] \in Nat
      BY <2>2 DEF Keeps
    <3> QED
      BY <2>1, <2>2, <3>1
  <2>4. ASSUME NEW i \in 1..(n + 1) PROVE h[i] = R[h[i - 1] + f[i]]
    <3>1. CASE i = n + 1
      <4>1. i - 1 = n /\ h[i - 1] = g[n] /\ h[i] = R[g[n] + f[n + 1]]
        BY <3>1
      <4> QED
        BY <3>1, <4>1
    <3>2. CASE i # n + 1
      <4>1. i \in 1..n /\ h[i] = g[i] /\ h[i - 1] = g[i - 1]
        BY <3>2
      <4> QED
        BY <2>1, <4>1
    <3> QED
      BY <3>1, <3>2
  <2> HIDE DEF h
  <2> QED
    BY <2>3, <2>4
<1> HIDE DEF S
<1>3. \A n \in Nat : n \in S
  BY <1>1, <1>2, Induction
<1>4. Len(f) \in S /\ Len(f) \in Nat
  BY <1>3
<1> QED
  BY <1>4 DEF S, Running

LEMMA RoundedTotalIsTheLast ==
  ASSUME NEW R, Keeps(R), NEW f \in Seq(Int), \A i \in 1..Len(f) : f[i] \in Nat, NEW g,
         Running(R, f, g)
  PROVE  RoundedTotal(R, f) = g[Len(f)]
<1> DEFINE Rec(h) == h = [i \in 0..Len(f) |-> IF i = 0 THEN 0 ELSE R[h[i - 1] + f[i]]]
           h == CHOOSE h : Rec(h)
           S == {n \in Nat : n <= Len(f) => h[n] = g[n]}
<1>1. Rec(g)
  BY DEF Running
<1>2. Rec(h)
  BY <1>1
<1>3. RoundedTotal(R, f) = h[Len(f)]
  BY DEF RoundedTotal
<1> HIDE DEF h
<1>4. 0 \in S
  BY <1>2 DEF Running
<1>5. ASSUME NEW n \in Nat, n \in S PROVE n + 1 \in S
  <2> SUFFICES ASSUME n + 1 <= Len(f) PROVE h[n + 1] = g[n + 1]
    OBVIOUS
  <2>1. h[n] = g[n]
    BY <1>5
  <2>2. h[n + 1] = R[h[n] + f[n + 1]]
    BY <1>2
  <2>3. g[n + 1] = R[g[n] + f[n + 1]]
    BY DEF Running
  <2> QED
    BY <2>1, <2>2, <2>3
<1> HIDE DEF S
<1>6. \A n \in Nat : n \in S
  BY <1>4, <1>5, Induction
<1>7. Len(f) \in S /\ Len(f) \in Nat
  BY <1>6
<1> QED
  BY <1>3, <1>7 DEF S

LEMMA MultiplesAdd ==
  ASSUME NEW a \in Nat, NEW b \in Nat, NEW u \in Nat, u > 0, a % u = 0, b % u = 0
  PROVE  (a + b) % u = 0
<1> DEFINE p == a \div u
           q == b \div u
<1>1. p \in Int /\ q \in Int /\ a = u * p /\ b = u * q
  <2>1. p \in Int /\ q \in Int /\ a = u * p + (a % u) /\ b = u * q + (b % u)
    BY Division
  <2>2. u * p \in Int /\ u * q \in Int
    BY <2>1
  <2> HIDE DEF p, q
  <2> QED
    BY <2>1, <2>2
<1> HIDE DEF p, q
<1>2. a + b = u * (p + q) /\ p + q \in Int
  BY <1>1, Distributes
<1> QED
  BY <1>2, Multiples

(* Two totals up to n: either both are exact, or both are beyond.          *)
Together(f, c, v, n) ==
  \/ Beyond <= c /\ Beyond <= v
  \/ /\ c = v /\ c < Beyond /\ c % LastExact = 0
     /\ \A j \in 1..n : f[j] <= c

LEMMA TotalsKeepTogether ==
  ASSUME NEW R, Keeps(R), NEW Q, Keeps(Q),
         NEW f \in Seq(Int), \A i \in 1..Len(f) : f[i] \in Nat /\ f[i] % LastExact = 0
  PROVE  /\ RoundedTotal(R, f) \in Nat /\ RoundedTotal(Q, f) \in Nat
         /\ Together(f, RoundedTotal(R, f), RoundedTotal(Q, f), Len(f))
<1>1. PICK c : Running(R, f, c)
  BY RunningExist
<1>2. PICK v : Running(Q, f, v)
  BY RunningExist
<1> DEFINE S == {n \in Nat : n <= Len(f) => Together(f, c[n], v[n], n)}
<1>3. 0 \in S
  <2>1. c[0] = 0 /\ v[0] = 0
    BY <1>1, <1>2 DEF Running
  <2>2. 0 < Beyond /\ 0 % LastExact = 0
    <3>1. LastExact * 0 = 0
      BY LastAndBeyond
    <3> QED
      BY <3>1, LastAndBeyond, Multiples
  <2> QED
    BY <2>1, <2>2 DEF Together
<1>4. ASSUME NEW n \in Nat, n \in S PROVE n + 1 \in S
  <2> SUFFICES ASSUME n + 1 <= Len(f) PROVE Together(f, c[n + 1], v[n + 1], n + 1)
    OBVIOUS
  <2> DEFINE x == f[n + 1]
  <2>1. n + 1 \in 1..Len(f) /\ n \in 0..Len(f) /\ (n + 1) - 1 = n /\ x \in Nat /\ x % LastExact = 0
    OBVIOUS
  <2>2. /\ c[n] \in Nat /\ v[n] \in Nat
        /\ c[n + 1] = R[c[n] + x] /\ v[n + 1] = Q[v[n] + x]
    BY <1>1, <1>2, <2>1 DEF Running
  <2>3. Together(f, c[n], v[n], n)
    BY <1>4, <2>1
  <2> HIDE DEF x
  <2>4. c[n] + x \in Nat /\ v[n] + x \in Nat
    BY SMTT(30), <2>1, <2>2
  <2>5. CASE Beyond <= c[n] + x /\ Beyond <= v[n] + x
    BY <2>2, <2>4, <2>5 DEF Together, Keeps
  <2>6. CASE ~(Beyond <= c[n] + x /\ Beyond <= v[n] + x)
    <3>1. c[n] = v[n] /\ c[n] % LastExact = 0 /\ c[n] + x < Beyond
      BY SMTT(30), <2>1, <2>2, <2>3, <2>6, LastAndBeyond DEF Together
    <3>2. (c[n] + x) % LastExact = 0
      BY <2>1, <2>2, <3>1, MultiplesAdd, LastAndBeyond
    <3>3. c[n + 1] = c[n] + x /\ v[n + 1] = c[n] + x
      BY <2>2, <2>4, <3>1, <3>2 DEF Keeps
    <3>4. ASSUME NEW j \in 1..(n + 1) PROVE f[j] <= c[n] + x
      <4>1. CASE j = n + 1
        BY <2>1, <2>2, <4>1 DEF x
      <4>2. CASE j # n + 1
        <5>1. j \in 1..n /\ f[j] \in Nat
          BY <2>1, <4>2
        <5>2. f[j] <= c[n]
          BY SMTT(30), <2>1, <2>2, <2>3, <2>6, <5>1, LastAndBeyond DEF Together
        <5> QED
          BY <2>1, <2>2, <5>1, <5>2
      <4> QED
        BY <4>1, <4>2
    <3> QED
      BY <3>1, <3>2, <3>3, <3>4 DEF Together
  <2> QED
    BY <2>5, <2>6
<1> HIDE DEF S
<1>5. \A n \in Nat : n \in S
  BY <1>3, <1>4, Induction
<1>6. Len(f) \in S /\ Len(f) \in Nat
  BY <1>5
<1>7. RoundedTotal(R, f) = c[Len(f)] /\ RoundedTotal(Q, f) = v[Len(f)]
  BY <1>1, <1>2, RoundedTotalIsTheLast
<1>8. c[Len(f)] \in Nat /\ v[Len(f)] \in Nat
  BY <1>1, <1>2, <1>6 DEF Running
<1> QED
  BY <1>6, <1>7, <1>8 DEF S

(* A total that is not beyond is off by half of LastExact for each         *)
(* addition at most.                                                       *)
LEMMA TotalsAreNear ==
  ASSUME NEW R, Keeps(R), NEW f \in Seq(Int), \A i \in 1..Len(f) : f[i] \in Nat,
         RoundedTotal(R, f) < Beyond
  PROVE  Near(Total(f), Len(f) * LastExact, RoundedTotal(R, f)) /\ RoundedTotal(R, f) \in Nat
<1>1. PICK g : Running(R, f, g)
  BY RunningExist
<1>2. PICK h : Sums(f, h)
  BY SumsExist
<1> DEFINE Off(n) == Beyond <= g[n] \/ Near(h[n], n * LastExact, g[n])
           S == {n \in Nat : n <= Len(f) => Off(n)}
<1>3. 0 \in S
  <2>1. g[0] = 0 /\ h[0] = 0 /\ 0 * LastExact = 0
    BY <1>1, <1>2, LastAndBeyond DEF Running, Sums
  <2> QED
    BY <2>1 DEF Near
<1>4. ASSUME NEW n \in Nat, n \in S PROVE n + 1 \in S
  <2> SUFFICES ASSUME n + 1 <= Len(f) PROVE Off(n + 1)
    OBVIOUS
  <2> DEFINE x == f[n + 1]
             a == g[n]
             b == h[n]
             r == R[a + x]
             e == n * LastExact
  <2>1. n + 1 \in 1..Len(f) /\ n \in 0..Len(f) /\ (n + 1) - 1 = n /\ x \in Nat
    OBVIOUS
  <2>2. a \in Nat /\ b \in Int /\ g[n + 1] = r /\ h[n + 1] = b + x
    BY <1>1, <1>2, <2>1 DEF Running, Sums
  <2>3. Beyond <= a \/ Near(b, e, a)
    BY <1>4, <2>1
  <2>4. e \in Int /\ (n + 1) * LastExact = e + LastExact
    BY LastAndBeyond
  <2>5. a + x \in Nat
    BY <2>1, <2>2
  <2>6. /\ r \in Nat
        /\ Beyond <= a + x => Beyond <= r
        /\ a + x < Beyond => Near(a + x, LastExact, r)
    BY <2>5 DEF Keeps
  <2> HIDE DEF x, a, b, r, e
  <2>7. CASE Beyond <= a + x
    BY <2>2, <2>6, <2>7
  <2>8. CASE a + x < Beyond
    <3>1. Near(b, e, a)
      BY <2>1, <2>2, <2>3, <2>8, LastAndBeyond
    <3>2. Near(b + x, e + LastExact, r)
      BY <2>1, <2>2, <2>4, <2>6, <2>8, <3>1, LastAndBeyond DEF Near
    <3> QED
      BY <2>2, <2>4, <3>2
  <2> QED
    BY <2>5, <2>7, <2>8, LastAndBeyond
<1> HIDE DEF S
<1>5. \A n \in Nat : n \in S
  BY <1>3, <1>4, Induction
<1>6. Len(f) \in S /\ Len(f) \in Nat
  BY <1>5
<1>7. RoundedTotal(R, f) = g[Len(f)] /\ Total(f) = h[Len(f)]
  BY <1>1, <1>2, RoundedTotalIsTheLast, TotalIsTheLastSum
<1>8. g[Len(f)] \in Nat
  BY <1>1, <1>6 DEF Running
<1>9. Off(Len(f))
  BY <1>6 DEF S
<1> QED
  BY <1>7, <1>8, <1>9, LastAndBeyond

(* What may be submitted, and what the server accepts, adds up to the      *)
(* whole but for roundings: half of the last decimal that decimal.js adds  *)
(* up exactly, for each unit.                                              *)
THEOREM WhatAddsUpIsNearlyFull ==
  ASSUME NEW f \in Seq(Int), f # <<>>, CanSubmit(f) \/ Accepted(f)
  PROVE  NearlyFull(f)
<1>1. ToSet(f) = {f[i] : i \in 1..Len(f)}
  BY DEF ToSet
<1>2. \A i \in 1..Len(f) : f[i] \in Nat
  <2>1. \A p \in ToSet(f) : p > 0
    BY DEF CanSubmit, IsPercentage, Accepted
  <2> QED
    BY <1>1, <2>1
<1>3. PICK R : Keeps(R) /\ RoundedTotal(R, f) = Full
  BY BothKeep DEF CanSubmit, Accepted, ClientTotal, ServerTotal
<1>4. Near(Total(f), Len(f) * LastExact, Full)
  BY <1>2, <1>3, TotalsAreNear, LastAndBeyond
<1> QED
  BY <1>4 DEF Near, NearlyFull

(* A community whose percentages keep to the decimals that decimal.js adds *)
(* up exactly may be submitted (canSubmit of CommunityCreateView) if and   *)
(* only if the server accepts it (Community._check_units_are_valid), and   *)
(* is then sent as it was typed.                                           *)
THEOREM SubmittedIsAccepted ==
  ASSUME NEW f \in Seq(Int), f # <<>>, \A p \in ToSet(f) : p % LastExact = 0
  PROVE  /\ CanSubmit(f) <=> Accepted(f)
         /\ CanSubmit(f) => Sent(f) = f
<1>1. ToSet(f) = {f[i] : i \in 1..Len(f)}
  BY DEF ToSet
<1>2. CASE \A p \in ToSet(f) : p > 0
  <2>1. \A i \in 1..Len(f) : f[i] \in Nat /\ f[i] > 0 /\ f[i] % LastExact = 0
    BY <1>1, <1>2
  <2> DEFINE c == ClientTotal(f)
             v == ServerTotal(f)
  <2>3. c \in Nat /\ v \in Nat /\ Together(f, c, v, Len(f))
    BY <2>1, BothKeep, TotalsKeepTogether DEF Keeps, ClientTotal, ServerTotal
  <2> HIDE DEF c, v
  <2>4. c = Full <=> v = Full
    BY <2>3, LastAndBeyond DEF Together
  <2>5. c = Full => \A i \in 1..Len(f) : f[i] <= Full
    BY <2>3, LastAndBeyond DEF Together
  <2>6. CanSubmit(f) <=> c = Full
    BY <1>2 DEF CanSubmit, IsPercentage, c
  <2>7. Accepted(f) <=> v = Full
    <3>1. v = Full => \A p \in ToSet(f) : 0 < p /\ p <= Full
      BY <1>1, <1>2, <2>4, <2>5
    <3> QED
      BY <3>1 DEF Accepted, v
  <2>8. ASSUME c = Full PROVE Sent(f) = f
    <3>1. ASSUME NEW i \in 1..Len(f) PROVE ClientRounded[f[i]] = f[i]
      <4>1. f[i] \in Nat /\ f[i] < Beyond /\ f[i] % LastExact = 0
        BY <2>1, <2>5, <2>8, LastAndBeyond
      <4> QED
        BY <4>1, BothKeep DEF Keeps
    <3>2. DOMAIN f = 1..Len(f) /\ f = [i \in 1..Len(f) |-> f[i]]
      OBVIOUS
    <3> QED
      BY <3>1, <3>2 DEF Sent
  <2> QED
    BY <2>4, <2>6, <2>7, <2>8
<1>3. CASE ~(\A p \in ToSet(f) : p > 0)
  <2>1. \A p \in ToSet(f) : p \in Int
    BY <1>1
  <2> QED
    BY <1>3, <2>1 DEF CanSubmit, IsPercentage, Accepted
<1> QED
  BY <1>2, <1>3

(* A form has rows, and what was sent was fit to be.                       *)
FormInv ==
  /\ job.of = "form" => job.percentages \in Seq(Int) /\ job.percentages # <<>>
  /\ answer = "refused" => CanSubmit(job.percentages) /\ ~Accepted(Sent(job.percentages))
  /\ answer = "accepted" => CanSubmit(job.percentages) /\ Accepted(Sent(job.percentages))

LEMMA FormInvariance == Spec => []FormInv
<1>1. Init => FormInv
  <2> SUFFICES ASSUME Init, job.of = "form"
               PROVE  job.percentages \in Seq(Int) /\ job.percentages # <<>>
    BY DEF Init, FormInv
  <2>1. PICK n \in 1..3 : job.percentages \in [1..n -> Values]
    BY DEF Init
  <2>2. job.percentages \in [1..n -> Int] /\ n \in Nat /\ n > 0
    <3>1. [1..n -> Values] \subseteq [1..n -> Int]
      BY BoundsAssumption
    <3>2. n \in Nat /\ n > 0
      OBVIOUS
    <3> QED
      BY <2>1, <3>1, <3>2
  <2>3. job.percentages \in Seq(Int) /\ Len(job.percentages) = n
    BY <2>2, OfLength
  <2> QED
    BY <2>2, <2>3
<1>2. FormInv /\ [Split \/ Mismatch \/ Send]_vars => FormInv'
  <2> SUFFICES ASSUME FormInv, [Split \/ Mismatch \/ Send]_vars PROVE FormInv'
    OBVIOUS
  <2>1. CASE Split
    BY <2>1 DEF FormInv, Split
  <2>2. CASE Mismatch
    BY <2>2 DEF FormInv, Mismatch
  <2>3. CASE Send
    BY <2>3 DEF FormInv, Send
  <2>4. CASE UNCHANGED vars
    BY <2>4 DEF FormInv, vars
  <2> QED
    BY <2>1, <2>2, <2>3, <2>4
<1> QED
  BY <1>1, <1>2, PTL DEF Spec

(* What is sent is as long as what was typed.                              *)
LEMMA SentIsASequence ==
  ASSUME NEW f \in Seq(Int), CanSubmit(f)
  PROVE  Sent(f) \in Seq(Int) /\ Sent(f) # <<>>
<1> DEFINE n == Len(f)
<1>1. n \in Nat /\ n > 0 /\ DOMAIN f = 1..n
  BY DEF CanSubmit
<1>2. ASSUME NEW i \in 1..n PROVE ClientRounded[f[i]] \in Int
  <2>1. f[i] \in Nat
    <3>1. ToSet(f) = {f[k] : k \in 1..n}
      BY DEF ToSet
    <3> QED
      BY <3>1 DEF CanSubmit, IsPercentage
  <2> QED
    BY <2>1, BothKeep DEF Keeps
<1>3. Sent(f) = [i \in 1..n |-> ClientRounded[f[i]]]
  BY <1>1 DEF Sent
<1>4. Sent(f) \in [1..n -> Int]
  BY <1>2, <1>3
<1> HIDE DEF n
<1>5. Sent(f) \in Seq(Int) /\ Len(Sent(f)) = n
  BY <1>1, <1>4, OfLength
<1> QED
  BY <1>1, <1>5

(* FormsAgreeWithTheServer, from the theorems before, for percentages of   *)
(* as many digits as Scale says.                                           *)
THEOREM FormsAgree == Spec => []FormsAgreeWithTheServer
<1>1. FormInv => FormsAgreeWithTheServer
  <2> SUFFICES ASSUME FormInv, job.of = "form" PROVE FormsAgreeWithTheServer
    BY DEF FormsAgreeWithTheServer
  <2> DEFINE typed == job.percentages
  <2>1. typed \in Seq(Int) /\ typed # <<>>
    BY DEF FormInv
  <2>2. ASSUME \A p \in ToSet(typed) : p % LastExact = 0
        PROVE  answer # "refused" /\ (Accepted(typed) => CanSubmit(typed))
    BY <2>1, <2>2, SubmittedIsAccepted DEF FormInv
  <2>3. CanSubmit(typed) \/ Accepted(typed) => NearlyFull(typed)
    BY <2>1, WhatAddsUpIsNearlyFull
  <2>4. ASSUME answer = "accepted" PROVE NearlyFull(Sent(typed))
    <3>1. CanSubmit(typed) /\ Accepted(Sent(typed))
      BY <2>4 DEF FormInv
    <3>2. Sent(typed) \in Seq(Int) /\ Sent(typed) # <<>>
      BY <2>1, <3>1, SentIsASequence
    <3> QED
      BY <3>1, <3>2, WhatAddsUpIsNearlyFull
  <2> QED
    BY <2>2, <2>3, <2>4 DEF FormsAgreeWithTheServer
<1> QED
  BY <1>1, FormInvariance, PTL
=============================================================================
