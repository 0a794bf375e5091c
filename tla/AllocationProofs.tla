-------------------------- MODULE AllocationProofs --------------------------
(***************************************************************************)
(* The largest remainder method, proved for every total and every          *)
(* coefficients that add up to the whole: what is split in whole cents and *)
(* is not negative adds up, charges each unit its share to less than a     *)
(* cent, and is the closest of all splits; below zero only shares in whole *)
(* cents add up.                                                           *)
(*                                                                         *)
(* Sums are over sequences of any length, so that the proofs are by        *)
(* induction: the lemma Induction states it of a set of numbers.           *)
(***************************************************************************)
EXTENDS Allocation, FiniteSetTheorems, FunctionTheorems, WellFoundedInduction, TLAPS

LEMMA Least ==
  ASSUME NEW S \in SUBSET Nat, S # {}
  PROVE  \E x \in S : \A y \in S : x <= y
<1> DEFINE less == OpToRel(<, Nat)
<1>1. PICK x \in S : \A y \in S : <<y, x>> \notin less
  <2>1. IsWellFoundedOn(less, Nat)
    BY NatLessThanWellFounded
  <2> HIDE DEF less
  <2> QED
    BY <2>1, WFMin
<1>2. \A y \in Nat : y < x => <<y, x>> \in less
  BY DEF OpToRel
<1> HIDE DEF less
<1>3. \A y \in S : ~(y < x)
  BY <1>1, <1>2
<1> QED
  BY <1>3

(* A set with 0 and the successor of each of its numbers has them all.     *)
LEMMA Induction ==
  ASSUME NEW S, 0 \in S, \A n \in Nat : n \in S => n + 1 \in S
  PROVE  \A n \in Nat : n \in S
<1> SUFFICES ASSUME Nat \ S # {} PROVE FALSE
  OBVIOUS
<1>1. PICK x \in Nat \ S : \A y \in Nat \ S : x <= y
  BY Least
<1>2. x \in Nat /\ x # 0 /\ x - 1 \in Nat /\ ~(x <= x - 1) /\ x = (x - 1) + 1
  BY <1>1
<1>3. x - 1 \in S
  BY <1>1, <1>2
<1> QED
  BY <1>1, <1>2, <1>3

LEMMA Distributes ==
  ASSUME NEW k \in Int, NEW x \in Int, NEW y \in Int
  PROVE  k * (x + y) = k * x + k * y /\ k * x \in Int /\ k * y \in Int
OBVIOUS

LEMMA Negates ==
  ASSUME NEW k \in Int, NEW x \in Int
  PROVE  (-k) * x = -(k * x) /\ k * x \in Int
OBVIOUS

-----------------------------------------------------------------------------
(* Sums *)

(* g are the sums of the first elements of f.                              *)
Sums(f, g) == /\ g \in [0..Len(f) -> Int] /\ g[0] = 0
              /\ \A i \in 1..Len(f) : g[i] = g[i - 1] + f[i]

LEMMA SumsExist ==
  ASSUME NEW f \in Seq(Int)
  PROVE  \E g : Sums(f, g)
<1> DEFINE Upto(n, g) == /\ g \in [0..n -> Int] /\ g[0] = 0
                         /\ \A i \in 1..n : g[i] = g[i - 1] + f[i]
           S == {n \in Nat : n <= Len(f) => \E g : Upto(n, g)}
<1>1. 0 \in S
  <2>1. Upto(0, [i \in 0..0 |-> 0])
    OBVIOUS
  <2> QED
    BY <2>1
<1>2. ASSUME NEW n \in Nat, n \in S PROVE n + 1 \in S
  <2> SUFFICES ASSUME n + 1 <= Len(f) PROVE \E g : Upto(n + 1, g)
    <3> HIDE DEF Upto
    <3> QED
      OBVIOUS
  <2>1. PICK g : Upto(n, g)
    <3> HIDE DEF Upto
    <3> QED
      BY <1>2
  <2> DEFINE h == [i \in 0..(n + 1) |-> IF i = n + 1 THEN g[n] + f[n + 1] ELSE g[i]]
  <2>2. f[n + 1] \in Int /\ g[n] \in Int
    BY <2>1
  <2>3. h \in [0..(n + 1) -> Int] /\ h[0] = 0
    BY <2>1, <2>2
  <2>4. \A i \in 1..(n + 1) : h[i] = h[i - 1] + f[i]
    BY <2>1
  <2> QED
    BY <2>3, <2>4
<1> HIDE DEF S
<1>3. \A n \in Nat : n \in S
  BY <1>1, <1>2, Induction
<1>4. Len(f) \in S /\ Len(f) \in Nat
  BY <1>3
<1> QED
  BY <1>4 DEF S, Sums

LEMMA TotalIsTheLastSum ==
  ASSUME NEW f \in Seq(Int), NEW g, Sums(f, g)
  PROVE  Total(f) = g[Len(f)]
<1> DEFINE Rec(h) == h = [i \in 0..Len(f) |-> IF i = 0 THEN 0 ELSE h[i - 1] + f[i]]
           h == CHOOSE h : Rec(h)
           S == {n \in Nat : n <= Len(f) => h[n] = g[n]}
<1>1. Rec(g)
  BY DEF Sums
<1>2. Rec(h)
  BY <1>1
<1>3. Total(f) = h[Len(f)]
  BY DEF Total
<1> HIDE DEF h
<1>4. 0 \in S
  BY <1>2 DEF Sums
<1>5. ASSUME NEW n \in Nat, n \in S PROVE n + 1 \in S
  <2> SUFFICES ASSUME n + 1 <= Len(f) PROVE h[n + 1] = g[n + 1]
    OBVIOUS
  <2>1. h[n] = g[n]
    BY <1>5
  <2>2. h[n + 1] = h[n] + f[n + 1]
    BY <1>2
  <2>3. g[n + 1] = g[n] + f[n + 1]
    BY DEF Sums
  <2> QED
    BY <2>1, <2>2, <2>3
<1> HIDE DEF S
<1>6. \A n \in Nat : n \in S
  BY <1>4, <1>5, Induction
<1>7. Len(f) \in S /\ Len(f) \in Nat
  BY <1>6
<1> QED
  BY <1>3, <1>7 DEF S

LEMMA TotalIsANumber ==
  ASSUME NEW f \in Seq(Int)
  PROVE  Total(f) \in Int
<1>1. PICK g : Sums(f, g)
  BY SumsExist
<1>2. Total(f) = g[Len(f)]
  BY <1>1, TotalIsTheLastSum
<1> QED
  BY <1>1, <1>2 DEF Sums

LEMMA TotalOfNothing ==
  Total(<<>>) = 0
<1>1. <<>> \in Seq(Int) /\ Len(<<>>) = 0
  OBVIOUS
<1>2. PICK g : Sums(<<>>, g)
  BY <1>1, SumsExist
<1>3. Total(<<>>) = g[Len(<<>>)]
  BY <1>1, <1>2, TotalIsTheLastSum
<1> QED
  BY <1>1, <1>2, <1>3 DEF Sums

IsCombination(f, b, p, c, q) == \A i \in 1..Len(f) : f[i] = b * p[i] + c * q[i]

(* The total of a combination is the combination of the totals.            *)
LEMMA TotalsCombine ==
  ASSUME NEW f \in Seq(Int), NEW p \in Seq(Int), NEW q \in Seq(Int),
         Len(p) = Len(f), Len(q) = Len(f), NEW b \in Int, NEW c \in Int,
         IsCombination(f, b, p, c, q)
  PROVE  Total(f) = b * Total(p) + c * Total(q)
<1>1. PICK F : Sums(f, F)
  BY SumsExist
<1>2. PICK P : Sums(p, P)
  BY SumsExist
<1>3. PICK Q : Sums(q, Q)
  BY SumsExist
<1> DEFINE S == {n \in Nat : n <= Len(f) => F[n] = b * P[n] + c * Q[n]}
<1>4. 0 \in S
  BY <1>1, <1>2, <1>3 DEF Sums
<1>5. ASSUME NEW n \in Nat, n \in S PROVE n + 1 \in S
  <2> SUFFICES ASSUME n + 1 <= Len(f) PROVE F[n + 1] = b * P[n + 1] + c * Q[n + 1]
    OBVIOUS
  <2>1. /\ n + 1 \in 1..Len(f) /\ n \in 0..Len(f) /\ (n + 1) - 1 = n
        /\ f[n + 1] \in Int /\ p[n + 1] \in Int /\ q[n + 1] \in Int
    BY SMTT(30)
  <2>2. /\ F[n + 1] = F[n] + f[n + 1]
        /\ P[n] \in Int /\ P[n + 1] = P[n] + p[n + 1]
        /\ Q[n] \in Int /\ Q[n + 1] = Q[n] + q[n + 1]
    BY <1>1, <1>2, <1>3, <2>1 DEF Sums
  <2>3. F[n] = b * P[n] + c * Q[n]
    BY <1>5
  <2>4. f[n + 1] = b * p[n + 1] + c * q[n + 1]
    BY <2>1 DEF IsCombination
  <2>5. (b * P[n] + c * Q[n]) + (b * p[n + 1] + c * q[n + 1])
          = b * (P[n] + p[n + 1]) + c * (Q[n] + q[n + 1])
    <3>1. b * (P[n] + p[n + 1]) = b * P[n] + b * p[n + 1]
      BY SMTT(30), <2>1, <2>2, Distributes
    <3>2. c * (Q[n] + q[n + 1]) = c * Q[n] + c * q[n + 1]
      BY SMTT(30), <2>1, <2>2, Distributes
    <3> DEFINE w == b * P[n]
               x == b * p[n + 1]
               y == c * Q[n]
               z == c * q[n + 1]
    <3>3. w \in Int /\ x \in Int /\ y \in Int /\ z \in Int
      BY <2>1, <2>2, Distributes
    <3> HIDE DEF w, x, y, z, S
    <3>4. (w + y) + (x + z) = (w + x) + (y + z)
      BY <3>3
    <3> QED
      BY <3>1, <3>2, <3>4 DEF w, x, y, z
  <2> QED
    BY <2>2, <2>3, <2>4, <2>5
<1> HIDE DEF S
<1>6. \A n \in Nat : n \in S
  BY <1>4, <1>5, Induction
<1>7. Len(f) \in S /\ Len(f) \in Nat
  BY <1>6
<1>8. Total(f) = F[Len(f)] /\ Total(p) = P[Len(f)] /\ Total(q) = Q[Len(f)]
  BY <1>1, <1>2, <1>3, TotalIsTheLastSum
<1> QED
  BY <1>7, <1>8 DEF S

LEMMA TotalsCompare ==
  ASSUME NEW f \in Seq(Int), NEW p \in Seq(Int), Len(p) = Len(f),
         \A i \in 1..Len(f) : f[i] <= p[i]
  PROVE  Total(f) <= Total(p)
<1>1. PICK F : Sums(f, F)
  BY SumsExist
<1>2. PICK P : Sums(p, P)
  BY SumsExist
<1> DEFINE S == {n \in Nat : n <= Len(f) => F[n] <= P[n]}
<1>3. 0 \in S
  BY <1>1, <1>2 DEF Sums
<1>4. ASSUME NEW n \in Nat, n \in S PROVE n + 1 \in S
  <2> SUFFICES ASSUME n + 1 <= Len(f) PROVE F[n + 1] <= P[n + 1]
    OBVIOUS
  <2>1. /\ n + 1 \in 1..Len(f) /\ n \in 0..Len(f) /\ (n + 1) - 1 = n
        /\ f[n + 1] \in Int /\ p[n + 1] \in Int
    OBVIOUS
  <2>2. /\ F[n] \in Int /\ F[n + 1] = F[n] + f[n + 1]
        /\ P[n] \in Int /\ P[n + 1] = P[n] + p[n + 1]
    BY <1>1, <1>2, <2>1 DEF Sums
  <2>3. F[n] <= P[n] /\ f[n + 1] <= p[n + 1]
    BY <1>4, <2>1
  <2> QED
    BY <2>1, <2>2, <2>3
<1> HIDE DEF S
<1>5. \A n \in Nat : n \in S
  BY <1>3, <1>4, Induction
<1>6. Len(f) \in S /\ Len(f) \in Nat
  BY <1>5
<1>7. Total(f) = F[Len(f)] /\ Total(p) = P[Len(f)]
  BY <1>1, <1>2, TotalIsTheLastSum
<1> QED
  BY <1>6, <1>7 DEF S

(* A one for every element of a set.                                       *)
LEMMA TotalsCount ==
  ASSUME NEW f \in Seq(Int), NEW B \in SUBSET (1..Len(f)),
         \A i \in 1..Len(f) : f[i] = IF i \in B THEN 1 ELSE 0
  PROVE  IsFiniteSet(B) /\ Total(f) = Cardinality(B)
<1>1. PICK F : Sums(f, F)
  BY SumsExist
<1> DEFINE Until(n) == B \cap (1..n)
           S == {n \in Nat : n <= Len(f) => IsFiniteSet(Until(n)) /\ F[n] = Cardinality(Until(n))}
<1>2. 0 \in S
  <2>1. Until(0) = {}
    OBVIOUS
  <2> QED
    BY <1>1, <2>1, FS_EmptySet DEF Sums
<1>3. ASSUME NEW n \in Nat, n \in S PROVE n + 1 \in S
  <2> SUFFICES ASSUME n + 1 <= Len(f)
               PROVE  IsFiniteSet(Until(n + 1)) /\ F[n + 1] = Cardinality(Until(n + 1))
    OBVIOUS
  <2>1. IsFiniteSet(Until(n)) /\ F[n] = Cardinality(Until(n))
    BY <1>3
  <2>2. F[n + 1] = F[n] + f[n + 1] /\ F[n] \in Int
    <3>1. n + 1 \in 1..Len(f) /\ n \in 0..Len(f) /\ (n + 1) - 1 = n
      OBVIOUS
    <3> QED
      BY <1>1, <3>1 DEF Sums
  <2>3. CASE n + 1 \in B
    <3>1. Until(n + 1) = Until(n) \cup {n + 1} /\ n + 1 \notin Until(n)
      BY <2>3
    <3>2. f[n + 1] = 1
      BY <2>3
    <3> HIDE DEF Until
    <3> QED
      BY <2>1, <2>2, <3>1, <3>2, FS_AddElement
  <2>4. CASE n + 1 \notin B
    <3>1. Until(n + 1) = Until(n)
      BY <2>4
    <3>2. f[n + 1] = 0
      BY <2>4
    <3> HIDE DEF Until
    <3> QED
      BY <2>1, <2>2, <3>1, <3>2
  <2> QED
    BY <2>3, <2>4
<1> HIDE DEF S
<1>4. \A n \in Nat : n \in S
  BY <1>2, <1>3, Induction
<1>5. Len(f) \in S /\ Len(f) \in Nat
  BY <1>4
<1>6. Until(Len(f)) = B
  OBVIOUS
<1>7. Total(f) = F[Len(f)]
  BY <1>1, TotalIsTheLastSum
<1>8. IsFiniteSet(Until(Len(f))) /\ F[Len(f)] = Cardinality(Until(Len(f)))
  BY <1>5 DEF S
<1> HIDE DEF Until
<1> QED
  BY <1>6, <1>7, <1>8

-----------------------------------------------------------------------------
(* Ranks *)

LEMMA RanksAreApart ==
  ASSUME NEW rest \in Seq(Int), NEW i \in DOMAIN rest, NEW j \in DOMAIN rest
  PROVE  /\ Rank(rest, i) \in 0..(Len(rest) - 1)
         /\ Ahead(rest, i, j) => Rank(rest, i) < Rank(rest, j)
<1> DEFINE before(k) == {m \in DOMAIN rest : Ahead(rest, m, k)}
<1>1. DOMAIN rest = 1..Len(rest) /\ \A k \in DOMAIN rest : rest[k] \in Int /\ k \in Int
  OBVIOUS
<1>2. /\ IsFiniteSet(DOMAIN rest) /\ Cardinality(DOMAIN rest) = Len(rest)
      /\ Len(rest) \in Nat
  <2>1. Len(rest) \in Nat
    OBVIOUS
  <2>2. /\ IsFiniteSet(1..Len(rest))
        /\ Cardinality(1..Len(rest)) = IF 1 > Len(rest) THEN 0 ELSE Len(rest) - 1 + 1
    BY <2>1, FS_Interval
  <2> QED
    BY <1>1, <2>1, <2>2
<1>3. ASSUME NEW k \in DOMAIN rest, NEW U \in SUBSET (DOMAIN rest), before(k) \subseteq U, k \in U
      PROVE  /\ IsFiniteSet(U) /\ Rank(rest, k) \in Nat /\ Rank(rest, k) < Cardinality(U)
             /\ Cardinality(U) \in Nat
  <2>1. IsFiniteSet(U) /\ IsFiniteSet(before(k))
    BY <1>2, FS_Subset
  <2>2. k \notin before(k)
    BY <1>1 DEF Ahead
  <2> HIDE DEF before
  <2>3. Cardinality(before(k)) <= Cardinality(U) /\ Cardinality(before(k)) # Cardinality(U)
    BY <1>3, <2>1, <2>2, FS_Subset
  <2>4. Cardinality(before(k)) \in Nat /\ Cardinality(U) \in Nat
    BY <2>1, FS_CardinalityType
  <2>5. Rank(rest, k) = Cardinality(before(k))
    BY DEF Rank, before
  <2> QED
    BY <2>1, <2>3, <2>4, <2>5
<1>4. Rank(rest, i) \in 0..(Len(rest) - 1)
  BY <1>2, <1>3
<1>5. ASSUME Ahead(rest, i, j) PROVE Rank(rest, i) < Rank(rest, j)
  <2>1. before(i) \subseteq before(j) /\ i \in before(j)
    BY <1>1, <1>5 DEF Ahead
  <2>2. Rank(rest, j) = Cardinality(before(j))
    BY DEF Rank
  <2> QED
    BY <1>3, <2>1, <2>2
<1> QED
  BY <1>4, <1>5

(* The first m of the ranking are m, and there is one of every rank.       *)
LEMMA RanksCount ==
  ASSUME NEW rest \in Seq(Int), NEW m \in 0..Len(rest)
  PROVE  /\ Cardinality({i \in DOMAIN rest : Rank(rest, i) < m}) = m
         /\ \A k \in 0..(Len(rest) - 1) : \E i \in DOMAIN rest : Rank(rest, i) = k
<1> DEFINE D == DOMAIN rest
           R == 0..(Len(rest) - 1)
           r == [i \in D |-> Rank(rest, i)]
           B == {i \in D : r[i] < m}
           h == [i \in B |-> r[i]]
<1>1. D = 1..Len(rest) /\ Len(rest) \in Nat /\ \A k \in D : rest[k] \in Int /\ k \in Int
  OBVIOUS
<1>2. r \in [D -> R]
  BY RanksAreApart
<1>3. \A i, j \in D : r[i] = r[j] => i = j
  <2> SUFFICES ASSUME NEW i \in D, NEW j \in D, i # j PROVE r[i] # r[j]
    OBVIOUS
  <2>1. Ahead(rest, i, j) \/ Ahead(rest, j, i)
    BY <1>1 DEF Ahead
  <2>2. r[i] < r[j] \/ r[j] < r[i]
    BY <2>1, RanksAreApart
  <2> QED
    BY <1>2, <2>2
<1> HIDE DEF r
<1>4. IsFiniteSet(D) /\ Cardinality(D) = Len(rest) /\ IsFiniteSet(R) /\ Cardinality(R) = Len(rest)
  <2>2. /\ Len(rest) - 1 \in Int /\ 0 \in Int /\ 1 \in Int /\ Len(rest) \in Int
    BY <1>1
  <2>1. /\ IsFiniteSet(1..Len(rest))
        /\ Cardinality(1..Len(rest)) = IF 1 > Len(rest) THEN 0 ELSE Len(rest) - 1 + 1
    BY <2>2, FS_Interval
  <2>3. /\ IsFiniteSet(0..(Len(rest) - 1))
        /\ Cardinality(0..(Len(rest) - 1)) =
             IF 0 > Len(rest) - 1 THEN 0 ELSE (Len(rest) - 1) - 0 + 1
    BY <2>2, FS_Interval
  <2> QED
    BY <1>1, <2>1, <2>3
<1>5. r \in Surjection(D, R)
  <2>1. r \in Injection(D, R)
    BY <1>2, <1>3 DEF Injection, IsInjective
  <2> QED
    BY <1>4, <2>1, FS_Injection
<1>6. h \in Bijection(B, 0..(m - 1))
  <2>1. h \in [B -> 0..(m - 1)]
    BY <1>1, <1>2
  <2>2. h \in Injection(B, 0..(m - 1))
    BY <1>3, <2>1 DEF Injection, IsInjective
  <2>3. \A k \in 0..(m - 1) : \E i \in B : h[i] = k
    <3> SUFFICES ASSUME NEW k \in 0..(m - 1) PROVE \E i \in B : h[i] = k
      OBVIOUS
    <3>1. k \in R
      BY <1>1
    <3>2. PICK i \in D : r[i] = k
      BY <1>5, <3>1 DEF Surjection
    <3> QED
      BY <3>2
  <2> QED
    BY <2>1, <2>2, <2>3 DEF Bijection, Surjection
<1>7. IsFiniteSet(B)
  BY <1>4, FS_Subset
<1>8. Cardinality(0..(m - 1)) = m
  BY <1>1, FS_Interval
<1>9. Cardinality(B) = m
  <2>1. ExistsBijection(B, 0..(m - 1))
    BY <1>6 DEF ExistsBijection
  <2> HIDE DEF B
  <2> QED
    BY <1>7, <1>8, <2>1, FS_Bijection
<1>10. B = {i \in DOMAIN rest : Rank(rest, i) < m}
  BY DEF r
<1>11. \A k \in R : \E i \in D : r[i] = k
  BY <1>5 DEF Surjection
<1> QED
  BY <1>9, <1>10, <1>11 DEF r

-----------------------------------------------------------------------------
(* Roundings *)

LEMMA Division ==
  ASSUME NEW a \in Int, NEW b \in Int, b > 0
  PROVE  /\ a \div b \in Int /\ a % b \in Int /\ 0 <= a % b /\ a % b < b
         /\ a = b * (a \div b) + (a % b)
         /\ a >= 0 => a \div b >= 0
OBVIOUS

LEMMA Multiples ==
  ASSUME NEW m \in Int, NEW b \in Int, b > 0
  PROVE  (b * m) % b = 0 /\ (b * m) \div b = m
OBVIOUS

LEMMA Cancels ==
  ASSUME NEW b \in Int, b > 0, NEW x \in Int, NEW y \in Int
  PROVE  b * x <= b * y => x <= y
OBVIOUS

LEMMA RoundedDownIsANumber ==
  ASSUME NEW a \in Int, NEW b \in Int, b > 0
  PROVE  /\ RoundedDown(a, b) \in Int
         /\ a >= 0 => /\ RoundedDown(a, b) >= 0
                      /\ 0 <= a - b * RoundedDown(a, b)
                      /\ a - b * RoundedDown(a, b) < b
<1>1. CASE a >= 0
  <2>1. RoundedDown(a, b) = a \div b
    BY <1>1 DEF RoundedDown
  <2> DEFINE d == a \div b
             m == b * d
             r == a % b
  <2>2. d \in Int /\ r \in Int /\ 0 <= r /\ r < b /\ a = m + r /\ d >= 0
    BY <1>1, Division
  <2>3. m \in Int
    BY <2>2
  <2> HIDE DEF r, m
  <2>4. 0 <= a - m /\ a - m < b
    BY <2>2, <2>3
  <2> QED
    BY <2>1, <2>2, <2>4 DEF m
<1>2. CASE ~(a >= 0)
  BY <1>2, Division DEF RoundedDown
<1> QED
  BY <1>1, <1>2

LEMMA WholeCents ==
  ASSUME NEW m \in Int
  PROVE  HalfEven(Cent * m, Cent) = m
<1>1. Cent \in Int /\ Cent > 0
  BY UnitsOfMeasure
<1>2. (Cent * m) % Cent = 0 /\ (Cent * m) \div Cent = m
  BY <1>1, Multiples
<1> QED
  BY <1>1, <1>2 DEF HalfEven

LEMMA UnitsArePositive ==
  /\ Cent \in Int /\ Cent > 0 /\ Whole \in Int /\ Whole > 0
  /\ Cent * Whole \in Int /\ Cent * Whole > 0
BY UnitsOfMeasure

(* What is truncated, and what remains.                                    *)
LEMMA TruncatedAreNumbers ==
  ASSUME NEW t \in Int, NEW coef \in Seq(Nat)
  PROVE  /\ Truncated(t, coef) \in Seq(Int) /\ Len(Truncated(t, coef)) = Len(coef)
         /\ Remainders(t, coef) \in Seq(Int) /\ Len(Remainders(t, coef)) = Len(coef)
         /\ \A i \in 1..Len(coef) :
              Remainders(t, coef)[i] = t * coef[i] - (Cent * Whole) * Truncated(t, coef)[i]
         /\ t >= 0 => \A i \in 1..Len(coef) :
                        /\ 0 <= Truncated(t, coef)[i]
                        /\ 0 <= Remainders(t, coef)[i]
                        /\ Remainders(t, coef)[i] < Cent * Whole
<1> DEFINE T == Truncated(t, coef)
           R == Remainders(t, coef)
           unit == Cent * Whole
<1>1. \A i \in 1..Len(coef) : coef[i] \in Int /\ coef[i] >= 0
  OBVIOUS
<1>2. unit \in Int /\ unit > 0
  BY UnitsArePositive
<1>3. \A i \in 1..Len(coef) : T[i] = RoundedDown(t * coef[i], unit)
  BY DEF Truncated
<1>4. \A i \in 1..Len(coef) : R[i] = t * coef[i] - T[i] * Cent * Whole
  BY DEF Remainders
<1>5. DOMAIN T = 1..Len(coef) /\ DOMAIN R = 1..Len(coef) /\ Len(coef) \in Nat
      /\ T = [i \in 1..Len(coef) |-> T[i]] /\ R = [i \in 1..Len(coef) |-> R[i]]
  BY DEF Truncated, Remainders
<1> HIDE DEF T, R, unit
<1>6. ASSUME NEW i \in 1..Len(coef)
      PROVE  /\ T[i] \in Int /\ R[i] \in Int /\ R[i] = t * coef[i] - unit * T[i]
             /\ t >= 0 => 0 <= T[i] /\ 0 <= R[i] /\ R[i] < unit
  <2> DEFINE a == t * coef[i]
  <2>1. a \in Int /\ (t >= 0 => a >= 0)
    BY <1>1
  <2>2. T[i] = RoundedDown(a, unit) /\ R[i] = a - T[i] * Cent * Whole
    BY <1>3, <1>4
  <2> HIDE DEF a
  <2>3. /\ T[i] \in Int
        /\ t >= 0 => 0 <= T[i] /\ 0 <= a - unit * T[i] /\ a - unit * T[i] < unit
    BY <1>2, <2>1, <2>2, RoundedDownIsANumber
  <2>4. T[i] * Cent * Whole = unit * T[i] /\ unit * T[i] \in Int
    BY <2>3, UnitsArePositive DEF unit
  <2>5. R[i] = a - unit * T[i] /\ R[i] \in Int
    BY <2>1, <2>2, <2>4
  <2> QED
    BY <2>3, <2>5 DEF a
<1>7. /\ T \in Seq(Int) /\ Len(T) = Len(coef) /\ R \in Seq(Int) /\ Len(R) = Len(coef)
  <2>1. T \in [1..Len(coef) -> Int] /\ R \in [1..Len(coef) -> Int] /\ Len(coef) \in Nat
    BY <1>5, <1>6
  <2>2. T \in Seq(Int) /\ Len(T) = Len(coef)
    BY <2>1
  <2>3. R \in Seq(Int) /\ Len(R) = Len(coef)
    BY <2>1
  <2> QED
    BY <2>2, <2>3
<1> QED
  BY <1>6, <1>7 DEF T, R, unit

-----------------------------------------------------------------------------
(* The leftover, and who bears it *)

Ones(B, n) == [i \in 1..n |-> IF i \in B THEN 1 ELSE 0]

LEMMA OnesCount ==
  ASSUME NEW n \in Nat, NEW B \in SUBSET (1..n)
  PROVE  /\ Ones(B, n) \in Seq(Int) /\ Len(Ones(B, n)) = n
         /\ IsFiniteSet(B) /\ Total(Ones(B, n)) = Cardinality(B)
<1>1. Ones(B, n) \in Seq(Int) /\ Len(Ones(B, n)) = n
  BY DEF Ones
<1>2. \A i \in 1..n : Ones(B, n)[i] = IF i \in B THEN 1 ELSE 0
  BY DEF Ones
<1> QED
  BY <1>1, <1>2, TotalsCount

(* The remainders add up to the leftover, which is no more cents than      *)
(* there are units.                                                        *)
LEMMA LeftoverIsShared ==
  ASSUME NEW coef \in Seq(Nat), Total(coef) = Whole,
         NEW k \in Int, NEW t \in Int, t = Cent * k, t >= 0
  PROVE  /\ LeftoverCents(t, coef) = k - Total(Truncated(t, coef))
         /\ LeftoverCents(t, coef) \in 0..Len(coef)
         /\ Total(Remainders(t, coef)) = (Cent * Whole) * LeftoverCents(t, coef)
<1> DEFINE T == Truncated(t, coef)
           R == Remainders(t, coef)
           unit == Cent * Whole
           n == LeftoverCents(t, coef)
           sum == Total(T)
<1>1. /\ T \in Seq(Int) /\ Len(T) = Len(coef) /\ R \in Seq(Int) /\ Len(R) = Len(coef)
      /\ coef \in Seq(Int)
      /\ \A i \in 1..Len(coef) : /\ R[i] = t * coef[i] - unit * T[i]
                                 /\ 0 <= R[i] /\ R[i] < unit
  <2>1. coef \in Seq(Int)
    OBVIOUS
  <2> QED
    BY <2>1, TruncatedAreNumbers
<1>2. sum \in Int /\ Total(R) \in Int /\ Len(coef) \in Nat
  BY <1>1, TotalIsANumber
<1>3. n = k - sum
  <2>1. t - Cent * sum = Cent * (k - sum)
    BY <1>2, UnitsArePositive
  <2>2. k - sum \in Int
    BY <1>2
  <2> QED
    BY <2>1, <2>2, WholeCents DEF LeftoverCents
<1> HIDE DEF T, R, n, sum
<1>4. Total(R) = unit * n
  <2>1. unit \in Int /\ -unit \in Int
    BY UnitsArePositive
  <2>2. ASSUME NEW i \in 1..Len(R) PROVE R[i] = t * coef[i] + (-unit) * T[i]
    <3>1. coef[i] \in Int /\ T[i] \in Int /\ R[i] = t * coef[i] - unit * T[i]
      BY <1>1
    <3> HIDE DEF unit
    <3>2. (-unit) * T[i] = -(unit * T[i]) /\ t * coef[i] \in Int /\ unit * T[i] \in Int
      BY <2>1, <3>1, Negates
    <3> QED
      BY <3>1, <3>2
  <2>3. IsCombination(R, t, coef, -unit, T)
    BY <2>2 DEF IsCombination
  <2>4. Total(R) = t * Whole + (-unit) * sum
    BY <1>1, <2>1, <2>3, TotalsCombine DEF sum
  <2>5. t * Whole + (-unit) * sum = unit * (k - sum)
    BY <1>2, UnitsArePositive
  <2> QED
    BY <1>3, <2>4, <2>5
<1>5. 0 <= n
  <2>1. /\ Ones({}, Len(R)) \in Seq(Int) /\ Len(Ones({}, Len(R))) = Len(R)
        /\ Total(Ones({}, Len(R))) = 0
    BY <1>1, <1>2, OnesCount, FS_EmptySet
  <2>2. \A i \in 1..Len(R) : Ones({}, Len(R))[i] <= R[i]
    BY <1>1 DEF Ones
  <2>3. 0 <= Total(R)
    BY <1>1, <2>1, <2>2, TotalsCompare
  <2>4. unit * 0 <= unit * n /\ n \in Int
    BY <1>2, <1>3, <1>4, <2>3, UnitsArePositive
  <2> QED
    BY <2>4, Cancels, UnitsArePositive
<1>6. n <= Len(coef)
  <2> DEFINE ones == Ones(1..Len(R), Len(R))
             units == [i \in 1..Len(R) |-> unit]
  <2>1. ones \in Seq(Int) /\ Len(ones) = Len(R) /\ Total(ones) = Len(R)
    <3>1. Cardinality(1..Len(R)) = Len(R)
      <4>1. Len(R) \in Int /\ 1 \in Int /\ Len(R) >= 0
        BY <1>1, <1>2
      <4>2. Cardinality(1..Len(R)) = IF 1 > Len(R) THEN 0 ELSE Len(R) - 1 + 1
        BY <4>1, FS_Interval
      <4> QED
        BY <4>1, <4>2
    <3> QED
      BY <1>1, <1>2, <3>1, OnesCount
  <2>2. units \in Seq(Int) /\ Len(units) = Len(R)
    BY <1>1, <1>2, UnitsArePositive
  <2>3. Total(units) = unit * Len(R)
    <3>1. IsCombination(units, unit, ones, 0, ones)
      BY <1>2, <2>1, <2>2, UnitsArePositive DEF IsCombination, Ones
    <3>2. Total(units) = unit * Len(R) + 0 * Len(R)
      <4>1. /\ unit \in Int /\ 0 \in Int /\ ones \in Seq(Int) /\ units \in Seq(Int)
            /\ Len(ones) = Len(units)
        BY <2>1, <2>2, UnitsArePositive
      <4> HIDE DEF ones, units, unit
      <4>2. Total(units) = unit * Total(ones) + 0 * Total(ones)
        BY <3>1, <4>1, TotalsCombine
      <4> QED
        BY <2>1, <4>2
    <3> QED
      BY <1>1, <1>2, <3>2, UnitsArePositive
  <2>4. \A i \in 1..Len(R) : R[i] <= units[i]
    BY SMTT(30), <1>1, UnitsArePositive
  <2>5. Total(R) <= Total(units)
    <3> HIDE DEF units
    <3> QED
      BY <1>1, <2>2, <2>4, TotalsCompare
  <2>6. unit * n <= unit * Len(coef) /\ n \in Int
    BY <1>1, <1>2, <1>3, <1>4, <2>3, <2>5
  <2> QED
    BY SMTT(30), <1>2, <2>6, Cancels, UnitsArePositive
<1>7. n \in 0..Len(coef)
  BY <1>2, <1>3, <1>5, <1>6
<1> QED
  BY <1>3, <1>4, <1>7 DEF T, R, n, sum

-----------------------------------------------------------------------------
(* The split *)

(* What is split are cents: the total is Cent times the truncated amounts  *)
(* and the cents added.                                                    *)
LEMMA AmountsAreCents ==
  ASSUME NEW t \in Int, NEW coef \in Seq(Nat)
  PROVE  /\ Amounts(t, coef) \in Seq(Int) /\ Len(Amounts(t, coef)) = Len(coef)
         /\ IsFiniteSet(IndicesToBump(t, coef))
         /\ Total(Amounts(t, coef)) =
              Cent * (Total(Truncated(t, coef)) + Cardinality(IndicesToBump(t, coef)))
<1> DEFINE T == Truncated(t, coef)
           B == IndicesToBump(t, coef)
           A == Amounts(t, coef)
           ones == Ones(B, Len(coef))
<1>1. /\ T \in Seq(Int) /\ Len(T) = Len(coef) /\ Len(coef) \in Nat /\ DOMAIN coef = 1..Len(coef)
  BY TruncatedAreNumbers
<1>2. B \in SUBSET (1..Len(coef))
  BY DEF IndicesToBump
<1>3. \A i \in 1..Len(coef) : A[i] = Cent * (T[i] + IF i \in B THEN 1 ELSE 0)
  BY DEF Amounts
<1>4. A = [i \in 1..Len(coef) |-> A[i]]
  BY DEF Amounts
<1> HIDE DEF T, B, A
<1>5. /\ ones \in Seq(Int) /\ Len(ones) = Len(coef)
      /\ IsFiniteSet(B) /\ Total(ones) = Cardinality(B)
  BY <1>1, <1>2, OnesCount
<1>6. ASSUME NEW i \in 1..Len(coef)
      PROVE  A[i] \in Int /\ A[i] = Cent * T[i] + Cent * ones[i]
  <2>1. T[i] \in Int /\ ones[i] = (IF i \in B THEN 1 ELSE 0) /\ ones[i] \in Int
    BY <1>1 DEF Ones
  <2>2. A[i] = Cent * (T[i] + ones[i])
    BY <1>3, <2>1
  <2> HIDE DEF ones
  <2> QED
    BY <2>1, <2>2, UnitsArePositive, Distributes
<1> HIDE DEF ones
<1>7. A \in Seq(Int) /\ Len(A) = Len(coef)
  <2>1. A \in [1..Len(coef) -> Int]
    BY <1>4, <1>6
  <2> QED
    BY <1>1, <2>1
<1>8. IsCombination(A, Cent, T, Cent, ones)
  BY <1>6, <1>7 DEF IsCombination
<1>9. Total(A) = Cent * Total(T) + Cent * Cardinality(B)
  BY <1>1, <1>5, <1>7, <1>8, UnitsArePositive, TotalsCombine
<1>10. Cent * (Total(T) + Cardinality(B)) = Cent * Total(T) + Cent * Cardinality(B)
  <2>1. Total(T) \in Int /\ Cardinality(B) \in Int
    BY <1>1, <1>5, TotalIsANumber, FS_CardinalityType
  <2> QED
    BY <2>1, UnitsArePositive, Distributes
<1> QED
  BY <1>5, <1>7, <1>9, <1>10 DEF T, B, A

(* Of a total of whole cents that is not negative, each leftover cent goes *)
(* to one unit, the first in the ranking.                                  *)
LEMMA LeftoverIsBorne ==
  ASSUME NEW coef \in Seq(Nat), Total(coef) = Whole,
         NEW k \in Int, NEW t \in Int, t = Cent * k, t >= 0
  PROVE  /\ IndicesToBump(t, coef) =
              {i \in 1..Len(coef) : Rank(Remainders(t, coef), i) < LeftoverCents(t, coef)}
         /\ Cardinality(IndicesToBump(t, coef)) = LeftoverCents(t, coef)
<1> DEFINE R == Remainders(t, coef)
           n == LeftoverCents(t, coef)
<1>1. R \in Seq(Int) /\ Len(R) = Len(coef) /\ n \in 0..Len(coef)
  BY TruncatedAreNumbers, LeftoverIsShared
<1>2. IndicesToBump(t, coef) = {i \in 1..Len(coef) : Rank(R, i) < n}
  BY <1>1 DEF IndicesToBump
<1> HIDE DEF R, n
<1>3. Cardinality({i \in DOMAIN R : Rank(R, i) < n}) = n
  BY <1>1, RanksCount
<1>4. DOMAIN R = 1..Len(coef)
  BY <1>1
<1> QED
  BY <1>2, <1>3, <1>4 DEF R, n

(* allocate_largest_remainder splits every total of whole cents that is    *)
(* not negative, and no other that is not negative:                        *)
(* QuotaAllocationSumMismatchError is raised for fractions of a cent only. *)
THEOREM CentsAddUp ==
  ASSUME NEW coef \in Seq(Nat), coef = <<>> \/ Total(coef) = Whole,
         NEW t \in Int, t >= 0
  PROVE  AddsUp(t, coef) <=> coef = <<>> \/ t % Cent = 0
<1>1. CASE coef = <<>>
  BY <1>1 DEF AddsUp
<1>2. CASE coef # <<>>
  <2> DEFINE sum == Total(Truncated(t, coef))
             bumped == Cardinality(IndicesToBump(t, coef))
  <2>1. Total(Amounts(t, coef)) = Cent * (sum + bumped) /\ sum + bumped \in Int
    <3>1. IsFiniteSet(IndicesToBump(t, coef)) /\ Total(Amounts(t, coef)) = Cent * (sum + bumped)
      BY AmountsAreCents
    <3>2. bumped \in Int /\ sum \in Int
      BY <3>1, FS_CardinalityType, TruncatedAreNumbers, TotalIsANumber
    <3> QED
      BY <3>1, <3>2
  <2> HIDE DEF sum, bumped
  <2>2. ASSUME AddsUp(t, coef) PROVE t % Cent = 0
    BY <1>2, <2>1, <2>2, Multiples, UnitsArePositive DEF AddsUp
  <2>3. ASSUME t % Cent = 0 PROVE AddsUp(t, coef)
    <3> DEFINE k == t \div Cent
    <3>1. t = Cent * k /\ k \in Int
      BY <2>3, UnitsArePositive, Division
    <3> HIDE DEF k
    <3>2. LeftoverCents(t, coef) = k - sum /\ bumped = LeftoverCents(t, coef)
      BY <1>2, <3>1, LeftoverIsShared, LeftoverIsBorne DEF sum, bumped
    <3>3. sum \in Int
      BY TruncatedAreNumbers, TotalIsANumber DEF sum
    <3>4. sum + bumped = k
      BY <3>1, <3>2, <3>3
    <3> QED
      BY <2>1, <3>1, <3>4 DEF AddsUp
  <2> QED
    BY <1>2, <2>2, <2>3
<1> QED
  BY <1>1, <1>2

(* A unit that bears a leftover cent had a remainder.                      *)
LEMMA BearersHaveRemainders ==
  ASSUME NEW coef \in Seq(Nat), Total(coef) = Whole,
         NEW k \in Int, NEW t \in Int, t = Cent * k, t >= 0,
         NEW i \in IndicesToBump(t, coef)
  PROVE  Remainders(t, coef)[i] > 0
<1> DEFINE R == Remainders(t, coef)
           B == IndicesToBump(t, coef)
           n == LeftoverCents(t, coef)
           unit == Cent * Whole
           others == B \ {i}
           ones == Ones(others, Len(R))
           bound == [j \in 1..Len(R) |-> unit * ones[j]]
<1>1. /\ R \in Seq(Int) /\ Len(R) \in Nat /\ unit \in Int /\ unit > 0
      /\ \A j \in 1..Len(R) : R[j] \in Int /\ 0 <= R[j] /\ R[j] < unit
  BY TruncatedAreNumbers, UnitsArePositive
<1>2. /\ B = {j \in 1..Len(R) : Rank(R, j) < n} /\ Cardinality(B) = n
      /\ n \in Nat /\ Total(R) = unit * n
  BY LeftoverIsBorne, LeftoverIsShared, TruncatedAreNumbers
<1>3. IsFiniteSet(B)
  BY AmountsAreCents
<1> HIDE DEF R, B, n, unit
<1> SUFFICES ASSUME ~(R[i] > 0) PROVE FALSE
  BY DEF R
<1>4. i \in B /\ i \in 1..Len(R) /\ R[i] = 0 /\ Rank(R, i) < n /\ DOMAIN R = 1..Len(R)
  <2>1. i \in B
    BY DEF B
  <2> QED
    BY <1>1, <1>2, <2>1
<1>5. \A j \in 1..Len(R) : j \notin B => R[j] = 0
  <2> SUFFICES ASSUME NEW j \in 1..Len(R), j \notin B, R[j] > 0 PROVE FALSE
    BY <1>1
  <2>1. Ahead(R, j, i)
    BY <1>4 DEF Ahead
  <2>2. Rank(R, j) < Rank(R, i) /\ Rank(R, j) \in Int /\ Rank(R, i) \in Int
    <3>1. i \in DOMAIN R /\ j \in DOMAIN R
      BY <1>4
    <3>2. /\ Rank(R, j) \in 0..(Len(R) - 1) /\ Rank(R, i) \in 0..(Len(R) - 1)
          /\ Rank(R, j) < Rank(R, i)
      BY <1>1, <2>1, <3>1, RanksAreApart
    <3> QED
      BY <1>1, <3>2
  <2>3. ~(Rank(R, j) < n)
    BY <1>2
  <2> QED
    BY <1>2, <1>4, <2>2, <2>3
<1>6. /\ ones \in Seq(Int) /\ Len(ones) = Len(R) /\ Total(ones) = n - 1
      /\ \A j \in 1..Len(R) : ones[j] = IF j \in others THEN 1 ELSE 0
  <2>1. others \in SUBSET (1..Len(R))
    BY <1>2
  <2>2. Cardinality(others) = n - 1
    <3>1. Cardinality(B \ {i}) = Cardinality(B) - 1
      BY <1>3, <1>4, FS_RemoveElement
    <3> QED
      BY <1>2, <3>1
  <2>3. \A j \in 1..Len(R) : ones[j] = IF j \in others THEN 1 ELSE 0
    BY DEF Ones
  <2> HIDE DEF others
  <2> QED
    BY <1>1, <2>1, <2>2, <2>3, OnesCount
<1> HIDE DEF ones
<1>7. ASSUME NEW j \in 1..Len(R)
      PROVE  bound[j] \in Int /\ bound[j] = unit * ones[j] + 0 * ones[j] /\ R[j] <= bound[j]
  <2>1. ones[j] \in {0, 1} /\ (ones[j] = 0 => j \notin B \/ j = i)
    BY <1>6
  <2>2. bound[j] = unit * ones[j]
    OBVIOUS
  <2> HIDE DEF bound
  <2>3. CASE ones[j] = 0
    BY <1>1, <1>4, <1>5, <2>1, <2>2, <2>3
  <2>4. CASE ones[j] = 1
    BY <1>1, <2>2, <2>4
  <2> QED
    BY <2>1, <2>3, <2>4
<1>8. bound \in Seq(Int) /\ Len(bound) = Len(R)
  <2>1. bound \in [1..Len(R) -> Int]
    BY <1>7
  <2> QED
    BY SMTT(30), <1>1, <2>1
<1>9. IsCombination(bound, unit, ones, 0, ones)
  BY <1>7, <1>8 DEF IsCombination
<1> HIDE DEF bound
<1>10. Total(bound) = unit * (n - 1)
  <2>1. Total(bound) = unit * Total(ones) + 0 * Total(ones)
    BY <1>1, <1>6, <1>8, <1>9, TotalsCombine
  <2>2. n - 1 \in Int /\ 0 * (n - 1) = 0 /\ unit * (n - 1) \in Int
    BY <1>1, <1>2
  <2> QED
    BY <1>6, <2>1, <2>2
<1>11. Total(R) <= Total(bound)
  BY <1>1, <1>7, <1>8, TotalsCompare
<1>12. n <= n - 1
  BY <1>1, <1>2, <1>10, <1>11, Cancels
<1> QED
  BY <1>2, <1>12

(* What a unit is charged, less its share: the cent it bears, less its     *)
(* remainder.                                                              *)
LEMMA ShareOf ==
  ASSUME NEW coef \in Seq(Nat), NEW t \in Int, t >= 0, NEW i \in 1..Len(coef)
  PROVE  LET one == IF i \in IndicesToBump(t, coef) THEN 1 ELSE 0
             rest == Remainders(t, coef)[i]
             unit == Cent * Whole
         IN  /\ rest \in Int /\ 0 <= rest /\ rest < unit
             /\ t * coef[i] \in Int
             /\ Truncated(t, coef)[i] \in Int
             /\ Amounts(t, coef)[i] = Cent * (Truncated(t, coef)[i] + one)
             /\ Amounts(t, coef)[i] * Whole - t * coef[i] = unit * one - rest
<1> DEFINE T == Truncated(t, coef)
           R == Remainders(t, coef)
           B == IndicesToBump(t, coef)
           unit == Cent * Whole
           one == IF i \in B THEN 1 ELSE 0
<1>1. /\ T[i] \in Int /\ R[i] \in Int /\ R[i] = t * coef[i] - unit * T[i]
      /\ 0 <= R[i] /\ R[i] < unit /\ unit \in Int
  BY TruncatedAreNumbers, UnitsArePositive
<1>2. Amounts(t, coef)[i] = Cent * (T[i] + one)
  BY DEF Amounts
<1>3. Amounts(t, coef)[i] * Whole = unit * T[i] + unit * one
  <2>1. one \in Int
    OBVIOUS
  <2> HIDE DEF one, T, R, B
  <2>2. (Cent * (T[i] + one)) * Whole = (Cent * Whole) * (T[i] + one)
    BY <1>1, <2>1, UnitsArePositive
  <2>3. unit * (T[i] + one) = unit * T[i] + unit * one
    BY <1>1, <2>1, Distributes
  <2> QED
    BY <1>2, <2>2, <2>3
<1>4. t * coef[i] \in Int /\ unit * T[i] \in Int /\ unit * one \in Int
  <2>1. coef[i] \in Int /\ one \in Int
    OBVIOUS
  <2> HIDE DEF one, T, R, unit
  <2> QED
    BY SMTT(30), <1>1, <2>1
<1> DEFINE x == t * coef[i]
           y == unit * T[i]
           z == unit * one
           a == Amounts(t, coef)[i] * Whole
<1>5. x \in Int /\ y \in Int /\ z \in Int /\ R[i] = x - y /\ a = y + z
  BY <1>1, <1>3, <1>4
<1> HIDE DEF x, y, z, a, unit, R, T, B, one
<1>6. a - x = z - R[i]
  BY <1>1, <1>5
<1> QED
  BY <1>1, <1>2, <1>5, <1>6 DEF a, x, z, unit, R, T, B, one

(* Each unit is charged its share of the total, to less than a cent.       *)
THEOREM SharesToTheCent ==
  ASSUME NEW coef \in Seq(Nat), Total(coef) = Whole,
         NEW t \in Int, t >= 0, AddsUp(t, coef), NEW i \in 1..Len(coef)
  PROVE  LET short == Amounts(t, coef)[i] * Whole - t * coef[i]
         IN  -(Cent * Whole) < short /\ short < Cent * Whole
<1> DEFINE rest == Remainders(t, coef)[i]
           unit == Cent * Whole
           one == IF i \in IndicesToBump(t, coef) THEN 1 ELSE 0
           short == Amounts(t, coef)[i] * Whole - t * coef[i]
           k == t \div Cent
<1>1. coef # <<>> /\ t % Cent = 0
  BY CentsAddUp
<1>2. t = Cent * k /\ k \in Int
  BY <1>1, UnitsArePositive, Division
<1> HIDE DEF k
<1>3. one = 1 => rest > 0
  BY <1>2, BearersHaveRemainders
<1>4. rest \in Int /\ 0 <= rest /\ rest < unit /\ short = unit * one - rest
  BY ShareOf
<1>5. unit \in Int /\ one \in {0, 1}
  BY UnitsArePositive
<1> HIDE DEF rest, one, unit, short
<1>6. -unit < short /\ short < unit
  <2>1. CASE one = 0
    BY <1>4, <1>5, <2>1
  <2>2. CASE one = 1
    BY <1>3, <1>4, <1>5, <2>2
  <2> QED
    BY <1>5, <2>1, <2>2
<1> QED
  BY <1>6 DEF short, unit

-----------------------------------------------------------------------------
(* The closest split *)

LEMMA Signs ==
  ASSUME NEW x \in Int, NEW y \in Int
  PROVE  /\ x * y \in Int
         /\ x > 0 /\ y > 0 => x * y > 0
         /\ x < 0 /\ y < 0 => x * y > 0
         /\ x = 0 \/ y = 0 => x * y = 0
         /\ x > 0 /\ y >= 0 => x * y >= 0
         /\ x < 0 /\ y <= 0 => x * y >= 0
         /\ (x > 0 \/ x < 0) /\ x * y = 0 => y = 0
OBVIOUS

LEMMA Squares ==
  ASSUME NEW e \in Int, NEW z \in Int, NEW m \in Int
  PROVE  /\ (e + z) * (e + z) = (e * e + m * z) + z * (2 * e + z - m)
         /\ e * e + m * z \in Int /\ (e + z) * (e + z) \in Int
OBVIOUS

LEMMA Strides ==
  ASSUME NEW unit \in Int, unit > 0, NEW y \in Int
  PROVE  /\ unit * y \in Int
         /\ y = 0 => unit * y = 0
         /\ y = 1 => unit * y = unit
         /\ y >= 1 => unit * y >= unit
         /\ y >= 2 => unit * y >= unit + unit
         /\ y <= -1 => unit * y <= -unit
         /\ y = -1 => unit * y = -unit
         /\ y <= -2 => unit * y <= -(unit + unit)
OBVIOUS

(* One unit of a split.  Its share lies rest below a cent it is charged    *)
(* (one is 0), or above one it bears (1).  Charged y cents more, the       *)
(* square of its distance grows by no less than m ticks for each, and by   *)
(* just that only if rest is the threshold and y takes the cent away.      *)
LEMMA SquaresGrow ==
  ASSUME NEW unit \in Int, unit > 0, NEW rho \in Int, 0 <= rho, rho < unit,
         NEW rest \in Int, 0 <= rest, rest < unit, NEW one \in {0, 1},
         one = 1 => rest >= rho, one = 0 => rest <= rho, NEW y \in Int
  PROVE  LET e == unit * one - rest
             z == unit * y
             m == unit - 2 * rho
         IN  /\ e * e + m * z <= (e + z) * (e + z)
             /\ e * e + m * z = (e + z) * (e + z) =>
                  y = 0 \/ (rest = rho /\ y = IF one = 0 THEN 1 ELSE -1)
<1> DEFINE e == unit * one - rest
           z == unit * y
           m == unit - 2 * rho
           p == 2 * e + z - m
<1>1. e \in Int /\ (one = 0 => e = -rest) /\ (one = 1 => e = unit - rest) /\ m \in Int
  OBVIOUS
<1>2. /\ z \in Int /\ (y = 0 => z = 0) /\ (y = 1 => z = unit) /\ (y = -1 => z = -unit)
      /\ (y >= 1 => z >= unit) /\ (y >= 2 => z >= unit + unit)
      /\ (y <= -1 => z <= -unit) /\ (y <= -2 => z <= -(unit + unit))
  BY Strides
<1>3. /\ (e + z) * (e + z) = (e * e + m * z) + z * p
      /\ e * e + m * z \in Int /\ (e + z) * (e + z) \in Int
  BY <1>1, <1>2, Squares
<1> HIDE DEF e, z
<1>4. p \in Int
  BY <1>1, <1>2
<1>5. /\ z > 0 => p >= 0
      /\ z < 0 => p <= 0
      /\ z # 0 /\ p = 0 => rest = rho /\ (y = IF one = 0 THEN 1 ELSE -1)
  <2>1. CASE one = 0
    BY <1>1, <1>2, <2>1
  <2>2. CASE one = 1
    BY <1>1, <1>2, <2>2
  <2> QED
    BY <2>1, <2>2
<1> HIDE DEF p, m
<1>6. z * p \in Int /\ z * p >= 0 /\ (z * p = 0 => z = 0 \/ p = 0)
  BY <1>2, <1>4, <1>5, Signs
<1>7. z = 0 => y = 0
  BY <1>2
<1> DEFINE u == e * e + m * z
           v == (e + z) * (e + z)
           w == z * p
<1>8. u \in Int /\ v = u + w /\ w \in Int /\ w >= 0
  BY <1>3, <1>6
<1> HIDE DEF u, v, w
<1>9. u <= v /\ (u = v => w = 0)
  BY <1>8
<1> QED
  BY <1>5, <1>6, <1>7, <1>9 DEF e, z, m, u, v, w

(* One element less, and none greater: a lower total.                      *)
LEMMA TotalsCompareStrictly ==
  ASSUME NEW f \in Seq(Int), NEW p \in Seq(Int), Len(p) = Len(f),
         \A i \in 1..Len(f) : f[i] <= p[i],
         NEW j \in 1..Len(f), f[j] < p[j]
  PROVE  Total(f) < Total(p)
<1> DEFINE one == Ones({j}, Len(f))
           h == [i \in 1..Len(f) |-> 1 * f[i] + 1 * one[i]]
<1>1. /\ one \in Seq(Int) /\ Len(one) = Len(f) /\ Total(one) = 1 /\ Len(f) \in Nat
      /\ \A i \in 1..Len(f) : one[i] = IF i = j THEN 1 ELSE 0
  <2>1. \A i \in 1..Len(f) : one[i] = IF i = j THEN 1 ELSE 0
    BY DEF Ones
  <2>2. Cardinality({j}) = 1
    BY FS_Singleton
  <2>3. {j} \in SUBSET (1..Len(f)) /\ Len(f) \in Nat
    OBVIOUS
  <2> QED
    BY <2>1, <2>2, <2>3, OnesCount
<1> HIDE DEF one
<1>2. ASSUME NEW i \in 1..Len(f) PROVE h[i] \in Int /\ h[i] <= p[i]
  <2>1. f[i] \in Int /\ p[i] \in Int /\ f[i] <= p[i]
    BY <1>1
  <2>2. one[i] = (IF i = j THEN 1 ELSE 0) /\ h[i] = 1 * f[i] + 1 * one[i]
    BY <1>1
  <2> HIDE DEF h
  <2>3. CASE i = j
    <3>1. one[i] = 1 /\ f[i] < p[i]
      BY <2>2, <2>3
    <3> QED
      BY <2>1, <2>2, <3>1
  <2>4. CASE i # j
    BY <2>1, <2>2, <2>4
  <2> QED
    BY <2>3, <2>4
<1>3. h \in Seq(Int) /\ Len(h) = Len(f) /\ IsCombination(h, 1, f, 1, one)
  <2>1. h \in [1..Len(f) -> Int]
    BY <1>2
  <2> QED
    BY SMTT(30), <1>1, <2>1 DEF IsCombination
<1> HIDE DEF h
<1>4. Total(h) = 1 * Total(f) + 1 * Total(one)
  BY <1>1, <1>3, TotalsCombine
<1>5. Total(h) <= Total(p)
  BY <1>2, <1>3, TotalsCompare
<1>6. Total(f) \in Int /\ Total(p) \in Int
  BY TotalIsANumber
<1> QED
  BY <1>1, <1>4, <1>5, <1>6

(* Among numbers that are not negative, none exceeds the total.            *)
LEMMA TotalIsTheMost ==
  ASSUME NEW f \in Seq(Int), \A i \in 1..Len(f) : f[i] >= 0, NEW j \in 1..Len(f)
  PROVE  f[j] <= Total(f)
<1> DEFINE one == Ones({j}, Len(f))
           h == [i \in 1..Len(f) |-> f[j] * one[i] + 0 * one[i]]
<1>1. /\ one \in Seq(Int) /\ Len(one) = Len(f) /\ Total(one) = 1 /\ Len(f) \in Nat
      /\ \A i \in 1..Len(f) : one[i] = IF i = j THEN 1 ELSE 0
  <2>1. \A i \in 1..Len(f) : one[i] = IF i = j THEN 1 ELSE 0
    BY DEF Ones
  <2>2. Cardinality({j}) = 1
    BY FS_Singleton
  <2>3. {j} \in SUBSET (1..Len(f)) /\ Len(f) \in Nat
    OBVIOUS
  <2> QED
    BY <2>1, <2>2, <2>3, OnesCount
<1>0. f[j] \in Int /\ 0 \in Int
  OBVIOUS
<1> HIDE DEF one
<1>2. ASSUME NEW i \in 1..Len(f) PROVE h[i] \in Int /\ h[i] <= f[i]
  <2>1. f[i] \in Int /\ f[i] >= 0 /\ h[i] = IF i = j THEN f[j] ELSE 0
    BY <1>0, <1>1
  <2> HIDE DEF h
  <2> QED
    BY <2>1
<1>3. h \in Seq(Int) /\ Len(h) = Len(f) /\ IsCombination(h, f[j], one, 0, one)
  <2>1. h \in [1..Len(f) -> Int]
    BY <1>2
  <2> QED
    BY <1>1, <2>1 DEF IsCombination
<1> HIDE DEF h
<1>4. Total(h) = f[j] * Total(one) + 0 * Total(one)
  BY <1>0, <1>1, <1>3, TotalsCombine
<1>5. Total(h) <= Total(f)
  BY <1>2, <1>3, TotalsCompare
<1> QED
  BY <1>0, <1>1, <1>4, <1>5

(* A remainder divides the units that bear a cent from those that do not.  *)
IsThreshold(rho, t, coef) ==
  \A i \in 1..Len(coef) : IF i \in IndicesToBump(t, coef)
                          THEN Remainders(t, coef)[i] >= rho
                          ELSE Remainders(t, coef)[i] <= rho

LEMMA Threshold ==
  ASSUME NEW coef \in Seq(Nat), Total(coef) = Whole,
         NEW k \in Int, NEW t \in Int, t = Cent * k, t >= 0
  PROVE  /\ \E rho \in Int : 0 <= rho /\ rho < Cent * Whole /\ IsThreshold(rho, t, coef)
         /\ \A i, j \in 1..Len(coef) :
              /\ i \notin IndicesToBump(t, coef) /\ j \in IndicesToBump(t, coef)
              => ~Ahead(Remainders(t, coef), i, j)
<1> DEFINE R == Remainders(t, coef)
           B == IndicesToBump(t, coef)
           n == LeftoverCents(t, coef)
           unit == Cent * Whole
<1>1. /\ R \in Seq(Int) /\ DOMAIN R = 1..Len(coef) /\ Len(R) = Len(coef)
      /\ unit \in Int /\ unit > 0
      /\ \A i \in 1..Len(coef) : R[i] \in Int /\ 0 <= R[i] /\ R[i] < unit
  BY TruncatedAreNumbers, UnitsArePositive
<1>2. B = {i \in 1..Len(coef) : Rank(R, i) < n}
  BY LeftoverIsBorne
<1>3. n \in 0..Len(coef) /\ Len(coef) \in Nat
  <2>1. n \in 0..Len(coef)
    BY LeftoverIsShared
  <2> QED
    BY <2>1
<1> HIDE DEF R, B, n, unit
<1>4. ASSUME NEW i \in 1..Len(coef) PROVE Rank(R, i) \in Int /\ Rank(R, i) >= 0
  <2>1. i \in DOMAIN R
    BY <1>1
  <2>2. Rank(R, i) \in 0..(Len(R) - 1)
    BY <1>1, <2>1, RanksAreApart
  <2> QED
    BY <2>2
<1>5. \A i, j \in 1..Len(coef) : Ahead(R, i, j) => Rank(R, i) < Rank(R, j)
  BY <1>1, RanksAreApart
<1>6. ASSUME NEW i \in 1..Len(coef), NEW j \in 1..Len(coef), i \notin B, j \in B
      PROVE  ~Ahead(R, i, j)
  <2>1. ~(Rank(R, i) < n) /\ Rank(R, j) < n
    BY <1>2, <1>6
  <2>2. ~(Rank(R, i) < Rank(R, j))
    BY <1>3, <1>4, <2>1
  <2> QED
    BY <1>5, <2>2
<1>7. \E rho \in Int : 0 <= rho /\ rho < unit /\ IsThreshold(rho, t, coef)
  <2>1. CASE n = 0
    <3>1. \A i \in 1..Len(coef) : i \notin B
      BY <1>2, <1>4, <2>1
    <3>2. \A i \in 1..Len(coef) : R[i] <= unit - 1
      BY <1>1
    <3>3. IsThreshold(unit - 1, t, coef)
      BY <3>1, <3>2 DEF IsThreshold, R, B
    <3>4. unit - 1 \in Int /\ 0 <= unit - 1 /\ unit - 1 < unit
      BY <1>1
    <3> QED
      BY <3>3, <3>4
  <2>2. CASE n # 0
    <3>1. n - 1 \in 0..(Len(R) - 1) /\ Len(R) \in 0..Len(R)
      BY <1>1, <1>3, <2>2
    <3>2. PICK last \in 1..Len(coef) : Rank(R, last) = n - 1
      BY <1>1, <3>1, RanksCount
    <3>3. ASSUME NEW i \in 1..Len(coef), i \in B PROVE R[i] >= R[last]
      <4>1. ~Ahead(R, last, i)
        BY <1>2, <1>3, <1>4, <1>5, <3>2, <3>3
      <4> QED
        BY <1>1, <4>1 DEF Ahead
    <3>4. ASSUME NEW i \in 1..Len(coef), i \notin B PROVE R[i] <= R[last]
      <4>1. ~Ahead(R, i, last)
        <5>1. ~(Rank(R, i) < n)
          BY <1>2, <3>4
        <5>2. ~(Rank(R, i) < Rank(R, last))
          BY <1>3, <1>4, <3>2, <5>1
        <5> QED
          BY <1>5, <5>2
      <4> QED
        BY <1>1, <4>1 DEF Ahead
    <3>5. IsThreshold(R[last], t, coef)
      BY <3>3, <3>4 DEF IsThreshold, R, B
    <3> QED
      BY <1>1, <3>5
  <2> QED
    BY <2>1, <2>2
<1> QED
  BY <1>6, <1>7 DEF R, B, unit

(* One unit charged x instead of its amount.                               *)
Grows(t, coef, rho, i, x) ==
  LET amount == Amounts(t, coef)[i]
      a == amount * Whole - t * coef[i]
      b == x * Whole - t * coef[i]
      z == Whole * x + (-Whole) * amount
      m == Cent * Whole - 2 * rho
  IN  /\ a * a \in Int /\ b * b \in Int /\ z \in Int /\ m \in Int
      /\ a * a + m * z <= b * b
      /\ a * a + m * z = b * b =>
           \/ x = amount
           \/ /\ Remainders(t, coef)[i] = rho
              /\ IF i \in IndicesToBump(t, coef) THEN x < amount ELSE x > amount

LEMMA UnitsGrow ==
  ASSUME NEW coef \in Seq(Nat), NEW t \in Int, t >= 0,
         NEW rho \in Int, 0 <= rho, rho < Cent * Whole, IsThreshold(rho, t, coef),
         NEW i \in 1..Len(coef), NEW q \in Int, NEW x, x = Cent * q
  PROVE  Grows(t, coef, rho, i, x)
<1> DEFINE amount == Amounts(t, coef)[i]
           share == t * coef[i]
           rest == Remainders(t, coef)[i]
           cents == Truncated(t, coef)[i]
           one == IF i \in IndicesToBump(t, coef) THEN 1 ELSE 0
           unit == Cent * Whole
           a == amount * Whole - share
           b == x * Whole - share
           z == Whole * x + (-Whole) * amount
           y == q - (cents + one)
           m == unit - 2 * rho
<1>1. /\ rest \in Int /\ 0 <= rest /\ rest < unit /\ share \in Int /\ cents \in Int
      /\ amount = Cent * (cents + one) /\ a = unit * one - rest
  BY ShareOf
<1>2. (one = 1 => rest >= rho) /\ (one = 0 => rest <= rho) /\ one \in {0, 1}
  BY DEF IsThreshold
<1>3. unit \in Int /\ unit > 0 /\ m \in Int /\ Cent \in Int /\ Cent > 0 /\ Whole \in Int
  BY UnitsArePositive
<1> HIDE DEF rest, cents, one, share, amount
<1>4. y \in Int /\ x \in Int /\ amount \in Int /\ a \in Int /\ unit * one \in Int
  <2>1. cents + one \in Int
    BY <1>1, <1>2
  <2>2. \A u \in Int : Cent * u \in Int
    BY <1>3
  <2>3. y \in Int /\ x \in Int /\ amount \in Int /\ unit * one \in Int
    BY <1>1, <1>2, <1>3, <2>1, <2>2
  <2> HIDE DEF a, unit
  <2> QED
    BY <1>1, <2>3
<1>5. z = unit * y /\ unit * y \in Int
  <2> DEFINE c == cents + one
  <2>1. c \in Int
    BY <1>1, <1>2
  <2> HIDE DEF c
  <2>2. Whole * (Cent * q) = (Cent * Whole) * q /\ Whole * (Cent * c) = (Cent * Whole) * c
    BY <1>3, <2>1
  <2>3. (-Whole) * amount = -(Whole * amount) /\ Whole * amount \in Int
    BY <1>3, <1>4, Negates
  <2>4. unit * (q + (-c)) = unit * q + unit * (-c) /\ unit * q \in Int /\ unit * (-c) \in Int
    BY <1>3, <2>1, Distributes
  <2>5. unit * (-c) = -(unit * c)
    BY <1>3, <2>1
  <2>6. y = q + (-c)
    BY <2>1 DEF c
  <2> DEFINE uq == unit * q
             uc == unit * c
             wx == Whole * x
             wa == Whole * amount
  <2>7. uq \in Int /\ uc \in Int /\ wx = uq /\ wa = uc /\ unit * y = uq - uc /\ z = wx - wa
    <3>1. uq \in Int /\ uc \in Int
      BY <1>3, <2>1
    <3>2. wx = uq /\ wa = uc
      BY <1>1, <2>2 DEF c
    <3>3. unit * y = uq - uc
      BY <2>4, <2>5, <2>6, <3>1
    <3>4. z = wx - wa
      BY <2>3, <3>1, <3>2
    <3> QED
      BY <3>1, <3>2, <3>3, <3>4
  <2> HIDE DEF uq, uc, wx, wa, unit, y, z
  <2> QED
    BY <2>7
<1>6. b = a + z
  <2>1. x * Whole = Whole * x /\ Whole * x \in Int
    BY <1>3, <1>4
  <2>2. amount * Whole = Whole * amount /\ Whole * amount \in Int
    BY <1>3, <1>4
  <2>3. (-Whole) * amount = -(Whole * amount)
    BY <1>3, <1>4, Negates
  <2> DEFINE wx == Whole * x
             wa == Whole * amount
  <2>4. wx \in Int /\ wa \in Int /\ share \in Int
    BY <1>1, <2>1, <2>2
  <2>5. b = wx - share /\ a = wa - share /\ z = wx + (-wa)
    BY <2>1, <2>2, <2>3
  <2> HIDE DEF wx, wa, a, b, z
  <2> QED
    BY <2>4, <2>5
<1> HIDE DEF y, b, z
<1>7. /\ a * a + m * z <= b * b
      /\ a * a + m * z = b * b => y = 0 \/ (rest = rho /\ y = IF one = 0 THEN 1 ELSE -1)
  <2> HIDE DEF a, unit
  <2> DEFINE e == unit * one - rest
             g == unit * y
             h == unit - 2 * rho
  <2>1. rho < unit
    BY DEF unit
  <2>2. /\ e * e + h * g <= (e + g) * (e + g)
        /\ e * e + h * g = (e + g) * (e + g) =>
             y = 0 \/ (rest = rho /\ y = IF one = 0 THEN 1 ELSE -1)
    BY SMTT(30), <1>1, <1>2, <1>3, <1>4, <2>1, SquaresGrow
  <2>3. e = a /\ g = z /\ h = m /\ b = e + g
    BY <1>1, <1>5, <1>6
  <2> HIDE DEF e, g, h, m
  <2> QED
    BY <2>2, <2>3
<1>8. a * a \in Int /\ b * b \in Int /\ z \in Int /\ m \in Int
  <2>1. z \in Int /\ m \in Int /\ a \in Int /\ b \in Int
    <3>1. z \in Int
      BY <1>5
    <3> HIDE DEF a, m
    <3> QED
      BY <1>3, <1>4, <1>6, <3>1
  <2> HIDE DEF a, m
  <2> QED
    BY <2>1
<1>9. /\ y = 0 => x = amount
      /\ y = 1 => x > amount
      /\ y = -1 => x < amount
  <2> DEFINE c == cents + one
  <2>1. c \in Int
    BY <1>1, <1>2
  <2>2. x = Cent * q /\ amount = Cent * c /\ y = q - c
    BY <1>1 DEF y
  <2> HIDE DEF c
  <2>3. q = c + y
    BY <1>4, <2>1, <2>2
  <2>4. Cent * (c + y) = Cent * c + Cent * y
    BY <1>3, <1>4, <2>1, Distributes
  <2>5. (y = 0 => Cent * y = 0) /\ (y = 1 => Cent * y > 0) /\ (y = -1 => Cent * y < 0)
    BY <1>3
  <2> DEFINE w == Cent * y
             v == Cent * c
  <2>6. w \in Int /\ v \in Int
    BY <1>3, <1>4, <2>1
  <2>7. x = v + w /\ amount = v /\ (y = 0 => w = 0) /\ (y = 1 => w > 0) /\ (y = -1 => w < 0)
    BY <2>2, <2>3, <2>4, <2>5
  <2> HIDE DEF v, w
  <2> QED
    BY <2>6, <2>7
<1>10. a * a + m * z = b * b =>
         \/ x = amount
         \/ rest = rho /\ IF i \in IndicesToBump(t, coef) THEN x < amount ELSE x > amount
  <2> HIDE DEF a, m
  <2>1. one = IF i \in IndicesToBump(t, coef) THEN 1 ELSE 0
    BY DEF one
  <2> QED
    BY <1>7, <1>9, <2>1
<1> QED
  BY <1>7, <1>8, <1>10 DEF Grows, amount, rest, share, b, z

LEMMA SplitsAreCents ==
  ASSUME NEW coef \in Seq(Nat), NEW t \in Int, NEW f \in Splits(t, coef)
  PROVE  /\ f \in Seq(Int) /\ Len(f) = Len(coef) /\ DOMAIN f = 1..Len(coef)
         /\ Total(f) = t
         /\ \A i \in 1..Len(coef) : f[i] \in Int /\ \E q \in Int : f[i] = Cent * q
<1>1. /\ f \in [1..Len(coef) -> {Cent * k : k \in 0..(t \div Cent)}] /\ Total(f) = t
      /\ Len(coef) \in Nat
  BY DEF Splits
<1>2. \A k \in Int : Cent * k \in Int
  BY UnitsArePositive
<1>3. ASSUME NEW i \in 1..Len(coef)
      PROVE  f[i] \in Int /\ \E q \in Int : f[i] = Cent * q
  <2>1. PICK q \in 0..(t \div Cent) : f[i] = Cent * q
    BY <1>1
  <2>2. q \in Int
    OBVIOUS
  <2> QED
    BY <1>2, <2>1, <2>2
<1>4. f \in [1..Len(coef) -> Int]
  BY <1>1, <1>3
<1> QED
  BY <1>1, <1>3, <1>4

LEMMA AmountsAreASplit ==
  ASSUME NEW coef \in Seq(Nat), Total(coef) = Whole,
         NEW t \in Int, t >= 0, AddsUp(t, coef)
  PROVE  Amounts(t, coef) \in Splits(t, coef)
<1> DEFINE A == Amounts(t, coef)
           k == t \div Cent
<1>1. coef # <<>> /\ t % Cent = 0 /\ Total(coef) \in Int
  <2>1. coef # <<>>
    BY TotalOfNothing, UnitsArePositive
  <2> QED
    BY <2>1, CentsAddUp, UnitsArePositive
<1>2. t = Cent * k /\ k \in Int
  BY <1>1, UnitsArePositive, Division
<1>3. A \in Seq(Int) /\ Len(A) = Len(coef) /\ DOMAIN A = 1..Len(coef) /\ Total(A) = t
  <2>1. A \in Seq(Int) /\ Len(A) = Len(coef)
    BY AmountsAreCents
  <2>2. Total(A) = t
    BY <1>1 DEF AddsUp
  <2> HIDE DEF A
  <2> QED
    BY <2>1, <2>2
<1>4. ASSUME NEW i \in 1..Len(coef)
      PROVE  \E c \in Int : A[i] = Cent * c /\ c >= 0
  <2> DEFINE one == IF i \in IndicesToBump(t, coef) THEN 1 ELSE 0
             cents == Truncated(t, coef)[i]
  <2>1. cents \in Int /\ A[i] = Cent * (cents + one)
    BY ShareOf
  <2>2. cents >= 0
    BY TruncatedAreNumbers
  <2>3. one \in {0, 1}
    OBVIOUS
  <2> HIDE DEF one, cents, A
  <2>4. cents + one \in Int /\ cents + one >= 0
    BY <2>1, <2>2, <2>3
  <2> QED
    BY <2>1, <2>4
<1> HIDE DEF A, k
<1>5. \A c \in Int : Cent * c \in Int /\ (c >= 0 => Cent * c >= 0)
  BY UnitsArePositive
<1>6. \A i \in 1..Len(A) : A[i] >= 0
  BY <1>3, <1>4, <1>5
<1>7. ASSUME NEW i \in 1..Len(coef)
      PROVE  A[i] \in {Cent * c : c \in 0..k}
  <2>1. PICK c \in Int : A[i] = Cent * c /\ c >= 0
    BY <1>4
  <2>2. A[i] <= t
    BY <1>3, <1>6, TotalIsTheMost
  <2>3. Cent * c <= Cent * k
    BY <1>2, <2>1, <2>2
  <2>4. c <= k
    BY <1>2, <2>3, Cancels, UnitsArePositive
  <2>5. c \in 0..k
    BY <1>2, <2>1, <2>4
  <2> QED
    BY <2>1, <2>5
<1>8. A = [i \in 1..Len(coef) |-> A[i]]
  BY <1>3
<1>9. A \in [1..Len(coef) -> {Cent * c : c \in 0..k}]
  BY <1>7, <1>8
<1>10. DOMAIN coef = 1..Len(coef)
  OBVIOUS
<1> QED
  BY <1>3, <1>9, <1>10 DEF Splits, A, k

(* No other split is as close, by least squares, to the shares of the      *)
(* units; of two that are as close, the one made favours the first units.  *)
THEOREM ClosestSplit ==
  ASSUME NEW coef \in Seq(Nat), Total(coef) = Whole,
         NEW t \in Int, t >= 0, AddsUp(t, coef)
  PROVE  IsTheClosest(Amounts(t, coef), t, coef)
<1> DEFINE A == Amounts(t, coef)
           B == IndicesToBump(t, coef)
           R == Remainders(t, coef)
           k == t \div Cent
           short(f, i) == f[i] * Whole - t * coef[i]
           squares(f) == [i \in 1..Len(coef) |-> short(f, i) * short(f, i)]
<1>1. coef # <<>> /\ t % Cent = 0
  BY TotalOfNothing, UnitsArePositive, CentsAddUp
<1>2. t = Cent * k /\ k \in Int
  BY <1>1, UnitsArePositive, Division
<1> HIDE DEF k
<1>3. PICK rho \in Int : 0 <= rho /\ rho < Cent * Whole /\ IsThreshold(rho, t, coef)
  BY <1>2, Threshold
<1>4. \A i, j \in 1..Len(coef) : i \notin B /\ j \in B => ~Ahead(R, i, j)
  BY <1>2, Threshold
<1>5. A \in Splits(t, coef)
  BY AmountsAreASplit
<1>6. /\ A \in Seq(Int) /\ Len(A) = Len(coef) /\ DOMAIN A = 1..Len(coef)
      /\ Total(A) = t /\ \A i \in 1..Len(coef) : A[i] \in Int
  BY <1>5, SplitsAreCents
<1>7. \A f : Distance(f, t, coef) = Total(squares(f))
  <2>1. DOMAIN coef = 1..Len(coef)
    OBVIOUS
  <2> QED
    BY <2>1 DEF Distance
<1> SUFFICES ASSUME NEW f \in Splits(t, coef), f # A,
                    ~(Distance(A, t, coef) < Distance(f, t, coef))
             PROVE  /\ Distance(A, t, coef) = Distance(f, t, coef)
                    /\ FavoursTheFirst(A, f)
  BY <1>5 DEF IsTheClosest
<1>8. /\ f \in Seq(Int) /\ Len(f) = Len(coef) /\ DOMAIN f = 1..Len(coef)
      /\ Total(f) = t /\ \A i \in 1..Len(coef) : f[i] \in Int
  BY SplitsAreCents
<1> DEFINE m == Cent * Whole - 2 * rho
           z == [i \in 1..Len(coef) |-> Whole * f[i] + (-Whole) * A[i]]
           a == squares(A)
           b == squares(f)
           g == [i \in 1..Len(coef) |-> 1 * a[i] + m * z[i]]
           Moved(i) == R[i] = rho /\ IF i \in B THEN f[i] < A[i] ELSE f[i] > A[i]
<1>9. ASSUME NEW i \in 1..Len(coef)
      PROVE  /\ a[i] \in Int /\ b[i] \in Int /\ z[i] \in Int /\ g[i] \in Int
             /\ g[i] <= b[i]
             /\ g[i] = b[i] => f[i] = A[i] \/ Moved(i)
  <2>1. PICK q \in Int : f[i] = Cent * q
    BY SplitsAreCents
  <2> DEFINE sa == short(A, i) * short(A, i)
             sb == short(f, i) * short(f, i)
             zz == Whole * f[i] + (-Whole) * A[i]
  <2>2. /\ sa \in Int /\ sb \in Int /\ zz \in Int /\ m \in Int
        /\ sa + m * zz <= sb
        /\ sa + m * zz = sb => f[i] = A[i] \/ Moved(i)
    <3>1. Grows(t, coef, rho, i, f[i])
      <4> HIDE DEF short, squares, a, b, z, g, m, Moved
      <4> QED
        BY <1>3, <2>1, UnitsGrow
    <3> QED
      BY <3>1 DEF Grows
  <2>3. a[i] = sa /\ b[i] = sb /\ z[i] = zz /\ g[i] = 1 * a[i] + m * z[i]
    OBVIOUS
  <2> HIDE DEF sa, sb, zz, a, b, z, g, m, Moved
  <2>4. 1 * sa = sa /\ m * zz \in Int
    BY <2>2
  <2> QED
    BY <2>2, <2>3, <2>4
<1>10. m \in Int /\ Len(coef) \in Nat
  BY <1>3, UnitsArePositive
<1>11. /\ a \in Seq(Int) /\ b \in Seq(Int) /\ z \in Seq(Int) /\ g \in Seq(Int)
       /\ Len(a) = Len(coef) /\ Len(b) = Len(coef) /\ Len(z) = Len(coef) /\ Len(g) = Len(coef)
  <2>1. /\ a = [i \in 1..Len(coef) |-> a[i]] /\ b = [i \in 1..Len(coef) |-> b[i]]
        /\ z = [i \in 1..Len(coef) |-> z[i]] /\ g = [i \in 1..Len(coef) |-> g[i]]
    OBVIOUS
  <2> HIDE DEF a, b, z, g
  <2>2. /\ a \in [1..Len(coef) -> Int] /\ b \in [1..Len(coef) -> Int]
        /\ z \in [1..Len(coef) -> Int] /\ g \in [1..Len(coef) -> Int]
    BY <1>9, <2>1
  <2>3. \A h \in [1..Len(coef) -> Int] : h \in Seq(Int) /\ Len(h) = Len(coef)
    BY <1>10
  <2> QED
    BY <2>2, <2>3
<1>12. IsCombination(z, Whole, f, -Whole, A) /\ IsCombination(g, 1, a, m, z)
  BY <1>11 DEF IsCombination
<1> HIDE DEF squares, a, b, z, g, m, Moved, A, B, R
<1>13. Total(g) = Total(a)
  <2>1. Total(z) = Whole * t + (-Whole) * t
    <3>1. Whole \in Int /\ -Whole \in Int /\ Len(f) = Len(z) /\ Len(A) = Len(z)
      BY <1>6, <1>8, <1>11, UnitsArePositive
    <3>2. Total(z) = Whole * Total(f) + (-Whole) * Total(A)
      BY <1>6, <1>8, <1>11, <1>12, <3>1, TotalsCombine
    <3> QED
      BY <1>6, <1>8, <3>2
  <2>2. Total(z) = 0
    <3>1. (-Whole) * t = -(Whole * t) /\ Whole * t \in Int
      BY UnitsArePositive, Negates
    <3> DEFINE w == Whole * t
    <3>2. w \in Int /\ Total(z) = w + (-w)
      BY <2>1, <3>1
    <3> HIDE DEF w
    <3> QED
      BY <3>2
  <2>3. Total(g) = 1 * Total(a) + m * Total(z)
    BY <1>10, <1>11, <1>12, TotalsCombine
  <2>4. Total(a) \in Int
    BY <1>11, TotalIsANumber
  <2> QED
    BY <1>10, <2>2, <2>3, <2>4
<1>14. Total(g) = Total(b) /\ Total(a) = Total(b)
  <2>1. Total(g) <= Total(b)
    BY <1>9, <1>11, TotalsCompare
  <2>2. ~(Total(a) < Total(b))
    BY <1>7 DEF a, b
  <2>3. Total(a) \in Int /\ Total(b) \in Int
    BY <1>11, TotalIsANumber
  <2> QED
    BY <1>13, <2>1, <2>2, <2>3
<1>15. ASSUME NEW i \in 1..Len(coef)
       PROVE  f[i] = A[i] \/ Moved(i)
  <2>1. ~(g[i] < b[i])
    <3> SUFFICES ASSUME g[i] < b[i] PROVE FALSE
      OBVIOUS
    <3>1. Total(g) < Total(b)
      BY <1>9, <1>11, TotalsCompareStrictly
    <3>2. Total(b) \in Int
      BY <1>11, TotalIsANumber
    <3> QED
      BY <1>14, <3>1, <3>2
  <2>2. g[i] = b[i]
    BY <1>9, <2>1
  <2> QED
    BY <1>9, <2>2
<1>16. PICK i \in 1..Len(coef) : f[i] # A[i] /\ \A j \in 1..(i - 1) : f[j] = A[j]
  <2> DEFINE Differ == {j \in 1..Len(coef) : f[j] # A[j]}
  <2>1. Differ # {}
    <3> SUFFICES ASSUME \A j \in 1..Len(coef) : f[j] = A[j] PROVE FALSE
      OBVIOUS
    <3>1. f = [j \in 1..Len(coef) |-> f[j]] /\ A = [j \in 1..Len(coef) |-> A[j]]
      BY <1>6, <1>8
    <3> QED
      BY <3>1
  <2>2. Differ \in SUBSET Nat
    OBVIOUS
  <2>3. PICK i \in Differ : \A j \in Differ : i <= j
    BY <2>1, <2>2, Least
  <2>4. i \in 1..Len(coef) /\ f[i] # A[i]
    OBVIOUS
  <2>5. ASSUME NEW j \in 1..(i - 1) PROVE f[j] = A[j]
    <3>1. j \in 1..Len(coef) /\ ~(i <= j)
      BY <1>10, <2>4
    <3>2. j \notin Differ
      BY <2>3, <3>1
    <3> QED
      BY <3>1, <3>2
  <2> QED
    BY <2>4, <2>5
<1>17. A[i] > f[i]
  <2> SUFFICES ASSUME ~(A[i] > f[i]) PROVE FALSE
    OBVIOUS
  <2>1. A[i] < f[i] /\ R[i] = rho /\ i \notin B
    BY <1>6, <1>8, <1>15, <1>16 DEF Moved
  <2>2. PICK j \in 1..Len(coef) : f[j] < A[j]
    <3> SUFFICES ASSUME \A j \in 1..Len(coef) : ~(f[j] < A[j]) PROVE FALSE
      OBVIOUS
    <3>1. \A j \in 1..Len(coef) : A[j] <= f[j]
      BY <1>6, <1>8
    <3>2. Total(A) < Total(f)
      BY <1>6, <1>8, <2>1, <3>1, TotalsCompareStrictly
    <3> QED
      BY <1>6, <1>8, <3>2
  <2>3. j \in B /\ R[j] = rho
    <3>1. f[j] \in Int /\ A[j] \in Int /\ f[j] < A[j]
      BY <1>6, <1>8, <2>2
    <3>2. f[j] = A[j] \/ Moved(j)
      BY <1>15
    <3> QED
      BY <3>1, <3>2 DEF Moved
  <2>4. i < j
    <3>1. f[j] \in Int /\ A[j] \in Int /\ f[j] < A[j] /\ i \notin B
      BY <1>6, <1>8, <2>1, <2>2
    <3>2. f[j] # A[j]
      BY <3>1
    <3>3. j # i /\ j \notin 1..(i - 1)
      BY <1>16, <2>1, <2>3, <3>2
    <3> QED
      BY <1>10, <3>3
  <2>5. Ahead(R, i, j)
    BY <2>1, <2>3, <2>4 DEF Ahead
  <2> QED
    BY <1>4, <2>1, <2>3, <2>5
<1>18. FavoursTheFirst(A, f)
  <2>1. \A j \in 1..(i - 1) : A[j] = f[j]
    BY <1>16
  <2> QED
    BY <1>6, <1>17, <2>1 DEF FavoursTheFirst
<1>19. Distance(A, t, coef) = Distance(f, t, coef)
  BY <1>7, <1>14 DEF a, b
<1> QED
  BY <1>18, <1>19 DEF A

-----------------------------------------------------------------------------
(* Totals below zero *)

(* Their remainders are those of the total above zero, with a minus.       *)
LEMMA RemaindersBelowZero ==
  ASSUME NEW coef \in Seq(Nat), NEW t \in Int, t < 0, NEW i \in 1..Len(coef)
  PROVE  LET r == (-(t * coef[i])) % (Cent * Whole)
         IN  r \in Nat /\ Remainders(t, coef)[i] = -r
<1> DEFINE a == t * coef[i]
           unit == Cent * Whole
           q == (-a) \div unit
           m == unit * q
           r == (-a) % unit
<1>1. a \in Int /\ a <= 0
  <2>1. coef[i] \in Nat
    OBVIOUS
  <2> QED
    BY <2>1
<1>2. unit \in Int /\ unit > 0
  BY UnitsArePositive
<1> HIDE DEF a, unit
<1>3. q \in Int /\ r \in Int /\ 0 <= r /\ -a = m + r
  <2>1. -a \in Int
    BY <1>1
  <2> QED
    BY <1>2, <2>1, Division
<1>4. RoundedDown(a, unit) = -q
  <2>1. CASE a >= 0
    <3>1. a = 0 /\ -a = 0 /\ unit * 0 = 0
      BY <1>1, <1>2, <2>1
    <3>2. 0 \div unit = 0
      BY <1>2, <3>1, Multiples
    <3>3. q = 0 /\ -q = 0 /\ RoundedDown(a, unit) = a \div unit
      BY <2>1, <3>1, <3>2 DEF RoundedDown
    <3> QED
      BY <3>1, <3>2, <3>3
  <2>2. CASE ~(a >= 0)
    BY <2>2 DEF RoundedDown
  <2> QED
    BY <2>1, <2>2
<1> HIDE DEF q, r
<1>5. unit * (-q) = -m /\ m \in Int
  BY <1>2, <1>3
<1>6. Truncated(t, coef)[i] = RoundedDown(a, unit)
  BY DEF Truncated, a, unit
<1>7. Remainders(t, coef)[i] = a - unit * (-q)
  <2>1. coef \in Seq(Int)
    OBVIOUS
  <2>2. Remainders(t, coef)[i] = a - unit * Truncated(t, coef)[i]
    BY TruncatedAreNumbers DEF a, unit
  <2> QED
    BY <1>4, <1>6, <2>2
<1> HIDE DEF m
<1>8. Remainders(t, coef)[i] = -r /\ r \in Nat
  BY <1>1, <1>3, <1>5, <1>7
<1> QED
  BY <1>8 DEF r, a, unit

(* The remainders of any total add up to what the truncated amounts lack.  *)
LEMMA RemaindersAddUp ==
  ASSUME NEW coef \in Seq(Nat), Total(coef) = Whole, NEW t \in Int
  PROVE  /\ Total(Truncated(t, coef)) \in Int
         /\ Total(Remainders(t, coef)) = t * Whole - (Cent * Whole) * Total(Truncated(t, coef))
<1> DEFINE T == Truncated(t, coef)
           R == Remainders(t, coef)
           unit == Cent * Whole
<1>1. /\ T \in Seq(Int) /\ Len(T) = Len(coef) /\ R \in Seq(Int) /\ Len(R) = Len(coef)
      /\ coef \in Seq(Int)
      /\ \A i \in 1..Len(coef) : R[i] = t * coef[i] - unit * T[i]
  <2>1. coef \in Seq(Int)
    OBVIOUS
  <2> QED
    BY <2>1, TruncatedAreNumbers
<1>2. unit \in Int /\ -unit \in Int /\ Whole \in Int
  BY UnitsArePositive
<1> HIDE DEF T, R, unit
<1>3. ASSUME NEW i \in 1..Len(R) PROVE R[i] = t * coef[i] + (-unit) * T[i]
  <2>1. coef[i] \in Int /\ T[i] \in Int /\ R[i] = t * coef[i] - unit * T[i]
    BY <1>1
  <2>2. (-unit) * T[i] = -(unit * T[i]) /\ t * coef[i] \in Int /\ unit * T[i] \in Int
    BY <1>2, <2>1, Negates
  <2> QED
    BY <2>1, <2>2
<1>4. IsCombination(R, t, coef, -unit, T)
  BY <1>3 DEF IsCombination
<1>5. Total(R) = t * Whole + (-unit) * Total(T)
  BY <1>1, <1>2, <1>4, TotalsCombine
<1>6. Total(T) \in Int
  BY <1>1, TotalIsANumber
<1>7. (-unit) * Total(T) = -(unit * Total(T)) /\ unit * Total(T) \in Int /\ t * Whole \in Int
  BY <1>2, <1>6, Negates
<1> QED
  BY <1>5, <1>6, <1>7 DEF T, R, unit

(* Of totals below zero, allocate_largest_remainder splits those of which  *)
(* every unit's share is in whole cents, and no other: the slice of the    *)
(* ranking by a negative number of cents bumps the wrong units, and        *)
(* QuotaAllocationSumMismatchError is raised.                              *)
THEOREM NegativeTotals ==
  ASSUME NEW coef \in Seq(Nat), Total(coef) = Whole, NEW t \in Int, t < 0
  PROVE  AddsUp(t, coef) <=> \A i \in 1..Len(coef) : (t * coef[i]) % (Cent * Whole) = 0
<1> DEFINE T == Truncated(t, coef)
           R == Remainders(t, coef)
           B == IndicesToBump(t, coef)
           n == LeftoverCents(t, coef)
           unit == Cent * Whole
           sum == Total(T)
           bumped == Cardinality(B)
<1>1. /\ T \in Seq(Int) /\ Len(T) = Len(coef) /\ R \in Seq(Int) /\ Len(R) = Len(coef)
      /\ Len(coef) \in Nat
      /\ \A i \in 1..Len(coef) : /\ T[i] \in Int /\ R[i] \in Int /\ coef[i] \in Int
                                 /\ R[i] = t * coef[i] - unit * T[i]
  BY TruncatedAreNumbers
<1>2. \A i \in 1..Len(coef) : /\ (-(t * coef[i])) % unit \in Nat
                               /\ R[i] = -((-(t * coef[i])) % unit) /\ R[i] <= 0
  BY RemaindersBelowZero
<1>3. unit \in Int /\ unit > 0
  BY UnitsArePositive
<1>4. sum \in Int /\ Total(R) = t * Whole - unit * sum
  BY RemaindersAddUp
<1>5. IsFiniteSet(B) /\ Total(Amounts(t, coef)) = Cent * (sum + bumped) /\ bumped \in Nat
  <2>1. IsFiniteSet(B) /\ Total(Amounts(t, coef)) = Cent * (sum + bumped)
    BY AmountsAreCents
  <2> QED
    BY <2>1, FS_CardinalityType
<1>6. coef # <<>>
  <2>1. Whole # 0
    BY UnitsArePositive
  <2> QED
    BY <2>1, TotalOfNothing
<1>7. n = HalfEven(t - Cent * sum, Cent)
  BY DEF LeftoverCents
<1>8. B = {i \in 1..Len(coef) : Rank(R, i) < IF n >= 0 THEN n ELSE Len(coef) + n}
  BY DEF IndicesToBump
<1> HIDE DEF T, R, B, n, unit, sum, bumped
<1>9. ASSUME AddsUp(t, coef) PROVE \A i \in 1..Len(coef) : (t * coef[i]) % unit = 0
  <2>1. t = Cent * (sum + bumped)
    BY <1>5, <1>6, <1>9 DEF AddsUp
  <2>2. Total(R) = unit * bumped
    <3>1. (Cent * (sum + bumped)) * Whole = unit * (sum + bumped)
      BY <1>4, <1>5, UnitsArePositive DEF unit
    <3>2. /\ unit * (sum + bumped) = unit * sum + unit * bumped
          /\ unit * sum \in Int /\ unit * bumped \in Int
      BY <1>3, <1>4, <1>5, Distributes
    <3> QED
      BY <1>4, <2>1, <3>1, <3>2
  <2>3. 0 <= Total(R)
    BY <1>3, <1>5, <2>2
  <2>4. ASSUME NEW i \in 1..Len(coef) PROVE R[i] = 0
    <3> DEFINE zeros == Ones({}, Len(R))
    <3>1. zeros \in Seq(Int) /\ Len(zeros) = Len(R) /\ Total(zeros) = 0
      BY <1>1, OnesCount, FS_EmptySet
    <3>2. \A j \in 1..Len(R) : zeros[j] = 0
      BY DEF Ones
    <3> HIDE DEF zeros
    <3>3. ASSUME R[i] # 0 PROVE Total(R) < Total(zeros)
      <4>1. \A j \in 1..Len(R) : R[j] <= zeros[j]
        BY <1>1, <1>2, <3>2
      <4>2. i \in 1..Len(R) /\ R[i] < zeros[i]
        <5>1. i \in 1..Len(R) /\ R[i] \in Int /\ R[i] <= 0
          BY <1>1, <1>2
        <5> QED
          BY <3>2, <3>3, <5>1
      <4> QED
        BY <1>1, <3>1, <4>1, <4>2, TotalsCompareStrictly
    <3>4. Total(R) \in Int /\ ~(Total(R) < 0)
      BY <1>1, <2>3, TotalIsANumber
    <3> QED
      BY <3>1, <3>3, <3>4
  <2>5. ASSUME NEW i \in 1..Len(coef) PROVE (t * coef[i]) % unit = 0
    <3> DEFINE a == t * coef[i]
               m == unit * T[i]
    <3>1. coef[i] \in Int /\ T[i] \in Int /\ R[i] = a - m /\ R[i] = 0
      BY <1>1, <2>4
    <3>2. a \in Int /\ m \in Int
      BY <1>3, <3>1
    <3> HIDE DEF a, m
    <3>3. a = m
      BY <3>1, <3>2
    <3> QED
      BY <1>3, <3>1, <3>3, Multiples DEF a, m
  <2> QED
    BY <2>5
<1>10. ASSUME \A i \in 1..Len(coef) : (t * coef[i]) % unit = 0 PROVE AddsUp(t, coef)
  <2>1. ASSUME NEW i \in 1..Len(coef) PROVE R[i] = 0
    <3> DEFINE a == t * coef[i]
               d == a \div unit
    <3>1. a \in Int
      BY <1>1
    <3>2. a = unit * d /\ d \in Int
      <4>1. a = unit * d + (a % unit) /\ d \in Int /\ a % unit = 0
        BY <1>3, <1>10, <3>1, Division
      <4>2. unit * d \in Int
        BY <1>3, <4>1
      <4> HIDE DEF a, d
      <4> QED
        BY <4>1, <4>2
    <3>3. R[i] = -((-a) % unit)
      BY <1>2
    <3> HIDE DEF a, d
    <3>4. -a = unit * (-d) /\ -d \in Int
      BY <1>3, <3>2
    <3>5. (-a) % unit = 0
      BY <1>3, <3>4, Multiples
    <3> QED
      BY <3>3, <3>5
  <2>2. Total(R) = 0
    <3> DEFINE zeros == Ones({}, Len(R))
    <3>1. zeros \in Seq(Int) /\ Len(zeros) = Len(R) /\ Total(zeros) = 0
      BY <1>1, OnesCount, FS_EmptySet
    <3>2. \A j \in 1..Len(R) : zeros[j] = 0 /\ R[j] = 0
      BY <1>1, <2>1 DEF Ones
    <3> HIDE DEF zeros
    <3>3. (\A j \in 1..Len(R) : R[j] <= zeros[j]) /\ (\A j \in 1..Len(zeros) : zeros[j] <= R[j])
      BY <3>1, <3>2
    <3>4. Total(R) <= Total(zeros) /\ Total(zeros) <= Total(R)
      BY <1>1, <3>1, <3>3, TotalsCompare
    <3> QED
      BY <1>1, <3>1, <3>4, TotalIsANumber
  <2>3. t = Cent * sum
    <3> DEFINE x == Cent * sum
    <3>1. x \in Int /\ unit * sum = Whole * x /\ t * Whole = Whole * t
      BY <1>4, UnitsArePositive DEF unit
    <3>2. Whole * t \in Int /\ Whole * x \in Int
      BY <3>1, UnitsArePositive
    <3> HIDE DEF x
    <3>3. Whole * t = Whole * x
      BY <1>4, <2>2, <3>1, <3>2
    <3>4. t <= x /\ x <= t
      BY <3>1, <3>2, <3>3, Cancels, UnitsArePositive
    <3> QED
      BY <3>1, <3>4 DEF x
  <2>4. n = 0
    <3>1. t - Cent * sum = Cent * 0 /\ 0 \in Int
      BY <2>3, UnitsArePositive
    <3> QED
      BY <1>7, <3>1, WholeCents
  <2>5. B = {}
    <3> SUFFICES ASSUME NEW i \in 1..Len(coef), Rank(R, i) < 0 PROVE FALSE
      BY <1>8, <2>4
    <3>1. i \in DOMAIN R
      BY <1>1
    <3>2. Rank(R, i) \in 0..(Len(R) - 1)
      BY <1>1, <3>1, RanksAreApart
    <3> QED
      BY <1>1, <3>2
  <2>6. bumped = 0
    BY <2>5, FS_EmptySet DEF bumped
  <2> QED
    BY <1>4, <1>5, <2>3, <2>6 DEF AddsUp
<1> QED
  BY <1>9, <1>10 DEF unit
=============================================================================
