----------------------------- MODULE QuotaProofs -----------------------------
(***************************************************************************)
(* The theorems of Quota.  What allocate_largest_remainder computes is     *)
(* proved in AllocationProofs; here, that a request carries it to the row  *)
(* unchanged, and that an ordinary quota answered before a request arrived *)
(* is one the request sees.                                                *)
(***************************************************************************)
EXTENDS Quota, AllocationProofs

Carried(q) == [community |-> q.community, type |-> q.type, start |-> q.start,
               end |-> q.end, total |-> q.total, amounts |-> q.amounts]

Allocated(q) == /\ q.community \in Community
                /\ AddsUp(q.total, CoefficientsOf[q.community])
                /\ q.amounts = Amounts(q.total, CoefficientsOf[q.community])

Clear(q, rows) == \A b \in q.before : ~(rows[b].type = "ordinary" /\ Overlaps(rows[b], q))

(* What a request has found out by the time it stands at its pc.           *)
Found(q, rows) ==
  /\ q.pc \in {"allocate", "InternalError"} => q.community \in Community
  /\ q.pc = "InternalError" => ~AddsUp(q.total, CoefficientsOf[q.community])
  /\ q.pc \in {"overlaps", "build", "commit"} => Allocated(q)
  /\ q.pc \in {"build", "commit"} /\ q.type = "ordinary" => Clear(q, rows)
  /\ q.pc = "commit" => IsQuota(q)

(* The row a request has inserted, if it has, and those it may have known. *)
Kept(r, q, rows) ==
  /\ q.pc \in {"committed", "Created"} => rows[r] # None
  /\ rows[r] # None => /\ q.pc \in {"committed", "Created", "Lost"}
                       /\ rows[r] = Carried(q)
                       /\ Allocated(q) /\ IsQuota(q)
                       /\ q.type = "ordinary" => Clear(q, rows)
  /\ \A b \in q.before : rows[b] # None

QuotaInv == /\ TypeOK
            /\ \A r \in QuotaReq : Found(request[r], quotas)
            /\ \A r \in QuotaReq : Kept(r, request[r], quotas)

-----------------------------------------------------------------------------
(* Rows and requests *)

LEMMA Coefficients ==
  ASSUME NEW c \in Community
  PROVE  /\ CoefficientsOf[c] \in Seq(Nat)
         /\ CoefficientsOf[c] = <<>> \/ Total(CoefficientsOf[c]) = Whole
<1>1. Whole \in Nat
  BY UnitsOfMeasure
<1>2. CoefficientsOf[c] \in Seq(1..Whole)
  BY CoefficientsAssumption
<1>3. CoefficientsOf[c] \in [1..Len(CoefficientsOf[c]) -> Nat] /\ Len(CoefficientsOf[c]) \in Nat
  BY <1>1, <1>2
<1> QED
  BY <1>3, CoefficientsAssumption

(* A step that only moves a request on keeps what it asks for and found.   *)
LEMMA MovedOn ==
  ASSUME NEW q \in Request, NEW to \in Steps \cup Ends, NEW rows,
         NEW p, p = [q EXCEPT !.pc = to]
  PROVE  /\ p \in Request /\ p.pc = to
         /\ p.community = q.community /\ p.type = q.type /\ p.total = q.total
         /\ p.before = q.before
         /\ Carried(p) = Carried(q) /\ Allocated(p) = Allocated(q)
         /\ IsQuota(p) = IsQuota(q) /\ Clear(p, rows) = Clear(q, rows)
<1>1. p \in Request /\ p.pc = to
  BY DEF Request
<1>2. /\ p.community = q.community /\ p.type = q.type /\ p.start = q.start
      /\ p.end = q.end /\ p.lines = q.lines /\ p.total = q.total
      /\ p.amounts = q.amounts /\ p.before = q.before
  BY DEF Request
<1>3. Carried(p) = Carried(q)
  BY <1>2 DEF Carried
<1>4. Allocated(p) = Allocated(q)
  BY <1>2 DEF Allocated
<1>5. IsQuota(p) = IsQuota(q)
  BY <1>2 DEF IsQuota
<1>6. Clear(p, rows) = Clear(q, rows)
  BY <1>2 DEF Clear, Overlaps
<1> QED
  BY <1>1, <1>2, <1>3, <1>4, <1>5, <1>6

(* A step of one request that inserts nothing.                             *)
LEMMA OneRequest ==
  ASSUME QuotaInv, NEW r \in QuotaReq, NEW q \in Request,
         Found(q, quotas), Kept(r, q, quotas),
         request' = [request EXCEPT ![r] = q], UNCHANGED quotas
  PROVE  QuotaInv'
<1>1. request \in [QuotaReq -> Request] /\ quotas \in [QuotaReq -> QuotaRow \cup {None}]
  BY DEF QuotaInv, TypeOK
<1>2. \A s \in QuotaReq : request'[s] = IF s = r THEN q ELSE request[s]
  BY <1>1
<1>3. request' \in [QuotaReq -> Request] /\ quotas' = quotas
  BY <1>1
<1>4. TypeOK'
  BY <1>1, <1>3 DEF TypeOK
<1>5. ASSUME NEW s \in QuotaReq
      PROVE  Found(request'[s], quotas') /\ Kept(s, request'[s], quotas')
  <2>1. Found(request[s], quotas) /\ Kept(s, request[s], quotas)
    BY DEF QuotaInv
  <2>2. CASE s = r
    BY <1>2, <1>3, <2>2
  <2>3. CASE s # r
    BY <1>2, <1>3, <2>1, <2>3
  <2> QED
    BY <2>2, <2>3
<1> QED
  BY <1>4, <1>5 DEF QuotaInv

(* One that changes nothing but its pc.                                    *)
LEMMA GoKeeps ==
  ASSUME QuotaInv, NEW r \in QuotaReq, NEW from, NEW to \in Steps \cup Ends,
         Go(r, from, to), UNCHANGED quotas,
         \A p \in Request : p = [request[r] EXCEPT !.pc = to] =>
           Found(p, quotas) /\ Kept(r, p, quotas)
  PROVE  QuotaInv'
<1>1. request \in [QuotaReq -> Request]
  BY DEF QuotaInv, TypeOK
<1> DEFINE p == [request[r] EXCEPT !.pc = to]
<1>2. p \in Request
  BY <1>1, MovedOn
<1>3. request' = [request EXCEPT ![r] = p]
  BY <1>1 DEF Go
<1>4. Found(p, quotas) /\ Kept(r, p, quotas)
  BY <1>2
<1> HIDE DEF p
<1> QED
  BY <1>2, <1>3, <1>4, OneRequest

-----------------------------------------------------------------------------
(* The steps *)

LEMMA ArriveKeeps ==
  ASSUME QuotaInv, NEW r \in QuotaReq, NEW c \in Community \cup {None}, NEW type \in Kind,
         NEW start \in Day, NEW end \in Day, NEW lines \in {"none", "some"},
         NEW t \in Totals, Arrive(r, c, type, start, end, lines, t)
  PROVE  QuotaInv'
<1> DEFINE q == [pc |-> "getCommunity", community |-> c, type |-> type, start |-> start,
                 end |-> end, lines |-> lines, total |-> IF lines = "none" THEN 0 ELSE t,
                 amounts |-> <<>>, before |-> Answered]
<1>1. request \in [QuotaReq -> Request] /\ request[r].pc = "idle"
  BY DEF QuotaInv, TypeOK, Arrive
<1>2. q \in Request
  <2>1. t \in Int /\ <<>> \in Seq(Int) /\ Answered \in SUBSET QuotaReq
    BY QuotaInputs DEF Answered
  <2>2. "getCommunity" \in Steps
    BY DEF Steps
  <2> QED
    BY <2>1, <2>2 DEF Request
<1>3. request' = [request EXCEPT ![r] = q] /\ UNCHANGED quotas
  BY DEF Arrive
<1>4. q.pc = "getCommunity" /\ q.before = Answered
  OBVIOUS
<1> HIDE DEF q
<1>5. Found(q, quotas)
  BY <1>4 DEF Found
<1>6. Kept(r, q, quotas)
  <2>1. quotas[r] = None
    BY <1>1 DEF QuotaInv, Kept
  <2>2. \A b \in Answered : quotas[b] # None
    BY DEF Answered, QuotaInv, Kept
  <2> QED
    BY <1>4, <2>1, <2>2 DEF Kept
<1> QED
  BY <1>2, <1>3, <1>5, <1>6, OneRequest

LEMMA GetCommunityKeeps ==
  ASSUME QuotaInv, NEW r \in QuotaReq, GetCommunity(r)
  PROVE  QuotaInv'
<1>1. request[r] \in Request /\ Found(request[r], quotas) /\ Kept(r, request[r], quotas)
  BY DEF QuotaInv, TypeOK
<1> DEFINE to == IF request[r].community = None THEN "CommunityNotFound" ELSE "allocate"
<1>2. Go(r, "getCommunity", to) /\ UNCHANGED quotas /\ request[r].pc = "getCommunity"
  BY DEF GetCommunity, Go
<1>3. to \in Steps \cup Ends /\ to \in {"CommunityNotFound", "allocate"}
  BY DEF Steps, Ends
<1>4. to = "allocate" => request[r].community \in Community
  BY <1>1 DEF Request
<1> HIDE DEF to
<1>5. ASSUME NEW p \in Request, p = [request[r] EXCEPT !.pc = to]
      PROVE  Found(p, quotas) /\ Kept(r, p, quotas)
  <2>1. p.pc = to /\ p.community = request[r].community /\ p.before = request[r].before
    BY <1>1, <1>3, <1>5, MovedOn
  <2> QED
    BY <1>1, <1>2, <1>3, <1>4, <2>1 DEF Found, Kept
<1> QED
  BY <1>2, <1>3, <1>5, GoKeeps

LEMMA AllocateKeeps ==
  ASSUME QuotaInv, NEW r \in QuotaReq, Allocate(r)
  PROVE  QuotaInv'
<1> DEFINE q == request[r]
           coef == CoefficientsOf[q.community]
<1>1. q \in Request /\ Found(q, quotas) /\ Kept(r, q, quotas) /\ q.pc = "allocate"
  BY DEF QuotaInv, TypeOK, Allocate
<1>2. q.community \in Community /\ q.total \in Int
  BY <1>1 DEF Found, Request
<1>3. coef \in Seq(Nat)
  BY <1>2, Coefficients
<1>4. CASE AddsUp(q.total, coef)
  <2> DEFINE to == IF q.type = "ordinary" THEN "overlaps" ELSE "build"
             p == [q EXCEPT !.pc = to, !.amounts = Amounts(q.total, coef)]
  <2>1. request' = [request EXCEPT ![r] = p] /\ UNCHANGED quotas
    BY <1>4 DEF Allocate, QuotaInv, TypeOK
  <2>2. Amounts(q.total, coef) \in Seq(Int)
    BY <1>2, <1>3, AmountsAreCents
  <2>3. to \in {"overlaps", "build"} /\ to \in Steps /\ (q.type = "ordinary" => to = "overlaps")
    BY DEF Steps
  <2> HIDE DEF to
  <2>4. ASSUME NEW o, o = q
        PROVE  /\ p \in Request
               /\ p.pc = to /\ p.community = q.community /\ p.type = q.type
               /\ p.total = q.total /\ p.before = q.before
               /\ p.amounts = Amounts(q.total, coef)
    <3> DEFINE am == Amounts(q.total, coef)
    <3>1. o \in Request /\ am \in Seq(Int) /\ p = [o EXCEPT !.pc = to, !.amounts = am]
      BY <1>1, <2>2, <2>4
    <3> HIDE DEF p, q, am
    <3>2. p \in Request
      BY <2>3, <3>1 DEF Request
    <3>3. /\ p.pc = to /\ p.community = o.community /\ p.type = o.type
          /\ p.total = o.total /\ p.before = o.before /\ p.amounts = am
      BY <3>1 DEF Request
    <3> QED
      BY <2>4, <3>2, <3>3 DEF am
  <2> HIDE DEF p
  <2>5. Found(p, quotas)
    <3>1. Allocated(p)
      BY <1>2, <1>4, <2>4 DEF Allocated
    <3> QED
      BY <2>3, <2>4, <3>1 DEF Found
  <2>6. Kept(r, p, quotas)
    BY <1>1, <2>3, <2>4 DEF Kept
  <2> QED
    BY <2>1, <2>4, <2>5, <2>6, OneRequest
<1>5. CASE ~AddsUp(q.total, coef)
  <2>1. Go(r, "allocate", "InternalError") /\ UNCHANGED quotas
    BY <1>5 DEF Allocate
  <2>2. ASSUME NEW p \in Request, p = [q EXCEPT !.pc = "InternalError"]
        PROVE  Found(p, quotas) /\ Kept(r, p, quotas)
    <3>1. /\ p.pc = "InternalError" /\ p.community = q.community
          /\ p.total = q.total /\ p.before = q.before
      BY <1>1, <2>2, MovedOn DEF Ends
    <3> QED
      BY <1>1, <1>2, <1>5, <3>1 DEF Found, Kept
  <2>3. "InternalError" \in Steps \cup Ends
    BY DEF Ends
  <2> QED
    BY <2>1, <2>2, <2>3, GoKeeps
<1> QED
  BY <1>4, <1>5

LEMMA CheckOverlapsKeeps ==
  ASSUME QuotaInv, NEW r \in QuotaReq, CheckOverlaps(r)
  PROVE  QuotaInv'
<1>1. request[r] \in Request /\ Found(request[r], quotas) /\ Kept(r, request[r], quotas)
  BY DEF QuotaInv, TypeOK
<1> DEFINE found == \E b \in Stored : /\ quotas[b].type = "ordinary"
                                      /\ Overlaps(quotas[b], request[r])
           to == IF found THEN "Overlapping" ELSE "build"
<1>2. Go(r, "overlaps", to) /\ UNCHANGED quotas /\ request[r].pc = "overlaps"
  BY DEF CheckOverlaps, Go
<1>3. to \in {"Overlapping", "build"} /\ to \in Steps \cup Ends
  BY DEF Steps, Ends
<1>4. to = "build" => Clear(request[r], quotas)
  <2>1. \A b \in request[r].before : b \in Stored
    BY <1>1 DEF Kept, Request, Stored
  <2> QED
    BY <2>1 DEF Clear
<1> HIDE DEF to
<1>5. ASSUME NEW p \in Request, p = [request[r] EXCEPT !.pc = to]
      PROVE  Found(p, quotas) /\ Kept(r, p, quotas)
  <2>1. /\ p.pc = to /\ p.before = request[r].before
        /\ Allocated(p) = Allocated(request[r])
        /\ Clear(p, quotas) = Clear(request[r], quotas)
    BY <1>1, <1>3, <1>5, MovedOn
  <2> QED
    BY <1>1, <1>2, <1>3, <1>4, <2>1 DEF Found, Kept
<1> QED
  BY <1>2, <1>3, <1>5, GoKeeps

LEMMA BuildKeeps ==
  ASSUME QuotaInv, NEW r \in QuotaReq, Build(r)
  PROVE  QuotaInv'
<1>1. request[r] \in Request /\ Found(request[r], quotas) /\ Kept(r, request[r], quotas)
  BY DEF QuotaInv, TypeOK
<1> DEFINE to == IF IsQuota(request[r]) THEN "commit" ELSE "Invalid"
<1>2. Go(r, "build", to) /\ UNCHANGED quotas /\ request[r].pc = "build"
  BY DEF Build, Go
<1>3. to \in {"commit", "Invalid"} /\ to \in Steps \cup Ends /\ (to = "commit" => IsQuota(request[r]))
  BY DEF Steps, Ends
<1> HIDE DEF to
<1>4. ASSUME NEW p \in Request, p = [request[r] EXCEPT !.pc = to]
      PROVE  Found(p, quotas) /\ Kept(r, p, quotas)
  <2>1. /\ p.pc = to /\ p.before = request[r].before /\ p.type = request[r].type
        /\ Allocated(p) = Allocated(request[r]) /\ IsQuota(p) = IsQuota(request[r])
        /\ Clear(p, quotas) = Clear(request[r], quotas)
    BY <1>1, <1>3, <1>4, MovedOn
  <2> QED
    BY <1>1, <1>2, <1>3, <2>1 DEF Found, Kept
<1> QED
  BY <1>2, <1>3, <1>4, GoKeeps

(* What an allocated quota charges is a row of the table.                  *)
LEMMA RowsAreTyped ==
  ASSUME NEW q \in Request, Allocated(q), IsQuota(q)
  PROVE  /\ Carried(q) \in QuotaRow /\ Carried(q) # None
         /\ Total(CoefficientsOf[q.community]) = Whole
<1> DEFINE coef == CoefficientsOf[q.community]
<1>1. /\ q.community \in Community /\ AddsUp(q.total, coef)
      /\ q.amounts = Amounts(q.total, coef)
      /\ q.total \in Int /\ q.total > 0 /\ q.amounts # <<>>
  BY DEF Allocated, IsQuota, Request
<1>2. coef \in Seq(Nat) /\ (coef = <<>> \/ Total(coef) = Whole)
  BY <1>1, Coefficients
<1> HIDE DEF coef
<1>3. coef # <<>>
  <2> SUFFICES ASSUME coef = <<>> PROVE FALSE
    OBVIOUS
  <2>1. Amounts(q.total, coef) \in Seq(Int) /\ Len(Amounts(q.total, coef)) = 0
    BY <1>1, <1>2, AmountsAreCents
  <2> QED
    BY <1>1, <2>1
<1>4. Amounts(q.total, coef) \in Splits(q.total, coef)
  BY <1>1, <1>2, <1>3, AmountsAreASplit
<1>5. q.amounts \in Seq(Nat)
  <2>1. /\ q.amounts \in Seq(Int) /\ Len(q.amounts) = Len(coef)
    BY <1>1, <1>2, <1>4, SplitsAreCents
  <2>2. ASSUME NEW i \in 1..Len(coef) PROVE q.amounts[i] \in Nat
    <3>1. q.amounts[i] \in {Cent * k : k \in 0..(q.total \div Cent)}
      BY <1>1, <1>4 DEF Splits
    <3>2. \A k \in Int : k >= 0 => Cent * k \in Nat
      BY UnitsArePositive
    <3> QED
      BY <3>1, <3>2
  <2> QED
    BY <2>1, <2>2
<1>6. /\ q.type \in Kind /\ q.start \in Day /\ q.end \in Day /\ q.total \in Nat \ {0}
      /\ q.amounts \in Seq(Nat) \ {<<>>}
  BY <1>1, <1>5 DEF Request
<1>7. Carried(q) \in QuotaRow
  BY <1>1, <1>6 DEF Carried, QuotaRow
<1> QED
  BY <1>2, <1>3, <1>7, NoneAssumption DEF coef

LEMMA CommitKeeps ==
  ASSUME QuotaInv, NEW r \in QuotaReq, Commit(r)
  PROVE  QuotaInv'
<1>1. /\ request \in [QuotaReq -> Request] /\ quotas \in [QuotaReq -> QuotaRow \cup {None}]
      /\ \A s \in QuotaReq : Found(request[s], quotas) /\ Kept(s, request[s], quotas)
  BY DEF QuotaInv, TypeOK
<1> DEFINE p == [request[r] EXCEPT !.pc = "committed"]
           row == Carried(request[r])
<1>2. request[r].pc = "commit" /\ request' = [request EXCEPT ![r] = p]
  BY <1>1 DEF Commit, Go
<1>3. quotas' = [quotas EXCEPT ![r] = row]
  BY DEF Commit, Carried
<1>4. /\ request[r] \in Request /\ Allocated(request[r]) /\ IsQuota(request[r])
      /\ request[r].type = "ordinary" => Clear(request[r], quotas)
      /\ quotas[r] = None
  BY <1>1, <1>2 DEF Found, Kept
<1>5. row \in QuotaRow /\ row # None
  BY <1>4, RowsAreTyped
<1>6. /\ p \in Request /\ p.pc = "committed" /\ p.type = request[r].type
      /\ p.before = request[r].before /\ Carried(p) = row
      /\ Allocated(p) = Allocated(request[r]) /\ IsQuota(p) = IsQuota(request[r])
      /\ Clear(p, quotas) = Clear(request[r], quotas)
  <2> DEFINE q == request[r]
  <2>1. "committed" \in Steps \cup Ends /\ q \in Request
    BY <1>4 DEF Steps
  <2>2. p = [q EXCEPT !.pc = "committed"] /\ row = Carried(q)
    OBVIOUS
  <2> HIDE DEF p, q, row
  <2> QED
    BY <2>1, <2>2, MovedOn DEF q
<1> HIDE DEF p, row
<1>7. /\ \A s \in QuotaReq : request'[s] = IF s = r THEN p ELSE request[s]
      /\ \A s \in QuotaReq : quotas'[s] = IF s = r THEN row ELSE quotas[s]
  BY <1>1, <1>2, <1>3
<1>8. TypeOK'
  BY <1>1, <1>2, <1>3, <1>5, <1>6 DEF TypeOK
(* What was known of other rows is still known.                            *)
<1>9. ASSUME NEW q \in Request, \A b \in q.before : quotas[b] # None
      PROVE  /\ \A b \in q.before : quotas'[b] # None
             /\ Clear(q, quotas') = Clear(q, quotas)
  <2>1. \A b \in q.before : b \in QuotaReq /\ quotas'[b] = quotas[b]
    BY <1>4, <1>7, <1>9 DEF Request
  <2> QED
    BY <1>9, <2>1 DEF Clear
<1>10. ASSUME NEW s \in QuotaReq
       PROVE  Found(request'[s], quotas') /\ Kept(s, request'[s], quotas')
  <2>1. CASE s = r
    <3>1. /\ \A b \in p.before : quotas[b] # None
      BY <1>1, <1>6 DEF Kept
    <3>2. /\ \A b \in p.before : quotas'[b] # None
          /\ Clear(p, quotas') = Clear(p, quotas)
      BY <1>6, <1>9, <3>1
    <3>3. request'[s] = p /\ quotas'[s] = row
      BY <1>7, <2>1
    <3>4. Found(p, quotas')
      BY <1>6 DEF Found
    <3>5. Kept(s, p, quotas')
      BY <1>4, <1>5, <1>6, <3>2, <3>3 DEF Kept
    <3> QED
      BY <3>3, <3>4, <3>5
  <2>2. CASE s # r
    <3> DEFINE q == request[s]
    <3>1. q \in Request /\ Found(q, quotas) /\ Kept(s, q, quotas)
      BY <1>1
    <3>2. request'[s] = q /\ quotas'[s] = quotas[s]
      BY <1>7, <2>2
    <3>3. /\ \A b \in q.before : quotas'[b] # None
          /\ Clear(q, quotas') = Clear(q, quotas)
      <4>1. \A b \in q.before : quotas[b] # None
        BY <3>1 DEF Kept
      <4> QED
        BY <1>9, <3>1, <4>1
    <3> HIDE DEF q
    <3>4. Found(q, quotas')
      BY <3>1, <3>3 DEF Found
    <3>5. Kept(s, q, quotas')
      BY <3>1, <3>2, <3>3 DEF Kept
    <3> QED
      BY <3>2, <3>4, <3>5
  <2> QED
    BY <2>1, <2>2
<1> QED
  BY <1>8, <1>10 DEF QuotaInv

LEMMA RespondKeeps ==
  ASSUME QuotaInv, NEW r \in QuotaReq, Respond(r)
  PROVE  QuotaInv'
<1>1. request[r] \in Request /\ Found(request[r], quotas) /\ Kept(r, request[r], quotas)
  BY DEF QuotaInv, TypeOK
<1>2. Go(r, "committed", "Created") /\ UNCHANGED quotas /\ request[r].pc = "committed"
  BY DEF Respond, Go
<1>3. "Created" \in Steps \cup Ends
  BY DEF Ends
<1>4. ASSUME NEW p \in Request, p = [request[r] EXCEPT !.pc = "Created"]
      PROVE  Found(p, quotas) /\ Kept(r, p, quotas)
  <2>1. /\ p.pc = "Created" /\ p.before = request[r].before /\ p.type = request[r].type
        /\ Carried(p) = Carried(request[r])
        /\ Allocated(p) = Allocated(request[r]) /\ IsQuota(p) = IsQuota(request[r])
        /\ Clear(p, quotas) = Clear(request[r], quotas)
    BY <1>1, <1>3, <1>4, MovedOn
  <2> QED
    BY <1>1, <1>2, <2>1 DEF Found, Kept
<1> QED
  BY <1>2, <1>3, <1>4, GoKeeps

LEMMA LostKeeps ==
  ASSUME QuotaInv, NEW r \in QuotaReq, Lost(r)
  PROVE  QuotaInv'
<1>1. request[r] \in Request /\ Found(request[r], quotas) /\ Kept(r, request[r], quotas)
  BY DEF QuotaInv, TypeOK
<1>2. Go(r, request[r].pc, "Lost") /\ UNCHANGED quotas
  BY DEF Lost, Go
<1>3. "Lost" \in Steps \cup Ends
  BY DEF Ends
<1>4. ASSUME NEW p \in Request, p = [request[r] EXCEPT !.pc = "Lost"]
      PROVE  Found(p, quotas) /\ Kept(r, p, quotas)
  <2>1. /\ p.pc = "Lost" /\ p.before = request[r].before /\ p.type = request[r].type
        /\ Carried(p) = Carried(request[r])
        /\ Allocated(p) = Allocated(request[r]) /\ IsQuota(p) = IsQuota(request[r])
        /\ Clear(p, quotas) = Clear(request[r], quotas)
    BY <1>1, <1>3, <1>4, MovedOn
  <2> QED
    BY <1>1, <2>1 DEF Found, Kept
<1> QED
  BY <1>2, <1>3, <1>4, GoKeeps

-----------------------------------------------------------------------------
(* The theorems *)

(* Whatever its request has found out stays true until its quota is        *)
(* stored, and is then in its row.                                         *)
THEOREM Invariance ==
  Spec => []QuotaInv
<1>1. Init => QuotaInv
  <2> SUFFICES ASSUME Init PROVE QuotaInv
    OBVIOUS
  <2>1. NoRequest \in Request
    <3>1. 0 \in Day /\ 0 \in Int /\ <<>> \in Seq(Int) /\ {} \in SUBSET QuotaReq
      BY QuotaInputs DEF Day
    <3> QED
      BY <3>1 DEF NoRequest, Request, Kind
  <2>2. TypeOK
    BY <2>1 DEF Init, TypeOK
  <2>3. ASSUME NEW r \in QuotaReq PROVE quotas[r] = None /\ request[r] = NoRequest
    BY DEF Init
  <2>4. \A r \in QuotaReq : Found(request[r], quotas)
    BY <2>3 DEF Found, NoRequest
  <2>5. \A r \in QuotaReq : Kept(r, request[r], quotas)
    BY <2>3 DEF Kept, NoRequest
  <2> QED
    BY <2>2, <2>4, <2>5 DEF QuotaInv
<1>2. QuotaInv /\ [Next]_vars => QuotaInv'
  <2> SUFFICES ASSUME QuotaInv, [Next]_vars PROVE QuotaInv'
    OBVIOUS
  <2>1. CASE Arrivals
    BY <2>1, ArriveKeeps DEF Arrivals
  <2>2. ASSUME NEW r \in QuotaReq, Progress(r) PROVE QuotaInv'
    BY <2>2, GetCommunityKeeps, AllocateKeeps, CheckOverlapsKeeps, BuildKeeps, CommitKeeps,
       RespondKeeps DEF Progress
  <2>3. ASSUME NEW r \in QuotaReq, Lost(r) PROVE QuotaInv'
    BY <2>3, LostKeeps
  <2>4. CASE UNCHANGED vars
    BY <2>4 DEF QuotaInv, TypeOK, vars
  <2> QED
    BY <2>1, <2>2, <2>3, <2>4 DEF Next
<1> QED
  BY <1>1, <1>2, PTL DEF Spec

(* Every row is a quota of a community and every request keeps its type:   *)
(* amounts are never negative, and never none.                             *)
THEOREM Typing ==
  Spec => []TypeOK
<1>1. QuotaInv => TypeOK
  BY DEF QuotaInv
<1> QED
  BY <1>1, Invariance, PTL

(* Two ordinary quotas overlap only if neither request had been answered   *)
(* when the other arrived: exists_overlapping_ordinary sees every other.   *)
THEOREM Races ==
  Spec => []OverlapsComeFromRaces
<1>1. QuotaInv => OverlapsComeFromRaces
  <2> SUFFICES ASSUME QuotaInv,
                      NEW r \in Stored, NEW s \in Stored,
                      quotas[r].type = "ordinary", quotas[s].type = "ordinary",
                      quotas[r].community = quotas[s].community,
                      NEW day \in Day,
                      day \in quotas[r].start..quotas[r].end,
                      day \in quotas[s].start..quotas[s].end,
                      s \in request[r].before
               PROVE  FALSE
    BY DEF OverlapsComeFromRaces
  <2>1. r \in QuotaReq /\ s \in QuotaReq /\ quotas[r] # None /\ quotas[s] # None
    BY DEF Stored
  <2>2. quotas[r] = Carried(request[r]) /\ (request[r].type = "ordinary" => Clear(request[r], quotas))
    BY <2>1 DEF QuotaInv, Kept
  <2>3. ~Overlaps(quotas[s], request[r])
    BY <2>2 DEF Carried, Clear
  <2>4. quotas[r] \in QuotaRow /\ quotas[s] \in QuotaRow
    BY <2>1 DEF QuotaInv, TypeOK
  <2>5. /\ quotas[r].start \in Int /\ quotas[r].end \in Int
        /\ quotas[s].start \in Int /\ quotas[s].end \in Int /\ day \in Int
    BY <2>4, QuotaInputs DEF QuotaRow, Day
  <2>6. /\ request[r].community = quotas[r].community /\ request[r].start = quotas[r].start
        /\ request[r].end = quotas[r].end
    BY <2>2 DEF Carried
  <2>7. quotas[s].start <= quotas[r].end /\ quotas[s].end >= quotas[r].start
    BY <2>5
  <2> QED
    BY <2>3, <2>6, <2>7 DEF Overlaps
<1> QED
  BY <1>1, Invariance, PTL

(* A quota answered 201 is stored, and charges every unit its share to     *)
(* less than a cent, in the closest of all splits; a refused one is not.   *)
THEOREM TrueAnswers ==
  Spec => []AnswersAreTrue
<1>1. QuotaInv => AnswersAreTrue
  <2> SUFFICES ASSUME QuotaInv, NEW r \in QuotaReq
               PROVE  /\ request[r].pc = "Created" =>
                           /\ r \in Stored
                           /\ LET coef == CoefficientsOf[quotas[r].community] IN
                              /\ IsTheClosest(quotas[r].amounts, quotas[r].total, coef)
                              /\ \A i \in DOMAIN coef :
                                   LET short == quotas[r].amounts[i] * Whole
                                                  - quotas[r].total * coef[i]
                                   IN -(Cent * Whole) < short /\ short < Cent * Whole
                      /\ request[r].pc \in Ends \ {"Created", "Lost"} => r \notin Stored
    BY DEF AnswersAreTrue
  <2>1. request[r] \in Request /\ Kept(r, request[r], quotas)
    BY DEF QuotaInv, TypeOK
  <2>2. ASSUME request[r].pc = "Created"
        PROVE  /\ r \in Stored
               /\ LET coef == CoefficientsOf[quotas[r].community] IN
                  /\ IsTheClosest(quotas[r].amounts, quotas[r].total, coef)
                  /\ \A i \in DOMAIN coef :
                       LET short == quotas[r].amounts[i] * Whole - quotas[r].total * coef[i]
                       IN -(Cent * Whole) < short /\ short < Cent * Whole
    <3> DEFINE q == request[r]
               coef == CoefficientsOf[q.community]
    <3>1. /\ r \in Stored /\ quotas[r] = Carried(q) /\ Allocated(q) /\ IsQuota(q)
      BY <2>1, <2>2 DEF Kept, Stored
    <3>2. /\ quotas[r].community = q.community /\ quotas[r].amounts = Amounts(q.total, coef)
          /\ quotas[r].total = q.total
      BY <3>1 DEF Carried, Allocated
    <3>3. /\ q.community \in Community /\ q.total \in Int /\ q.total >= 0
          /\ AddsUp(q.total, coef)
      BY <2>1, <3>1 DEF Allocated, IsQuota, Request
    <3>4. coef \in Seq(Nat) /\ Total(coef) = Whole
      BY <2>1, <3>1, <3>3, Coefficients, RowsAreTyped
    <3> HIDE DEF q, coef
    <3>5. IsTheClosest(Amounts(q.total, coef), q.total, coef)
      BY <3>3, <3>4, ClosestSplit
    <3>6. \A i \in DOMAIN coef :
            LET short == Amounts(q.total, coef)[i] * Whole - q.total * coef[i]
            IN -(Cent * Whole) < short /\ short < Cent * Whole
      <4>1. DOMAIN coef = 1..Len(coef)
        BY <3>4
      <4> QED
        BY <3>3, <3>4, <4>1, SharesToTheCent
    <3> QED
      BY <3>1, <3>2, <3>5, <3>6 DEF coef
  <2>3. request[r].pc \in Ends \ {"Created", "Lost"} => r \notin Stored
    BY <2>1 DEF Kept, Stored, Ends
  <2> QED
    BY <2>2, <2>3
<1> QED
  BY <1>1, Invariance, PTL

(* What QuotaAllocationSumMismatchError is raised for, in a community with *)
(* units: fractions of a cent, and totals below zero of which some unit's  *)
(* share is not in whole cents.                                            *)
IsNotSplit(t, coef) ==
  /\ coef # <<>>
  /\ IF t >= 0 THEN t % Cent # 0
     ELSE \E i \in 1..Len(coef) : (t * coef[i]) % (Cent * Whole) # 0

LEMMA NotSplit ==
  ASSUME NEW c \in Community, NEW t \in Int
  PROVE  AddsUp(t, CoefficientsOf[c]) <=> ~IsNotSplit(t, CoefficientsOf[c])
<1> DEFINE coef == CoefficientsOf[c]
<1>1. coef \in Seq(Nat) /\ (coef = <<>> \/ Total(coef) = Whole)
  BY Coefficients
<1> HIDE DEF coef
<1>2. CASE coef = <<>>
  BY <1>2 DEF AddsUp, IsNotSplit, coef
<1>3. CASE coef # <<>> /\ t >= 0
  BY <1>1, <1>3, CentsAddUp DEF IsNotSplit, coef
<1>4. CASE coef # <<>> /\ ~(t >= 0)
  <2>1. AddsUp(t, coef) <=> \A i \in 1..Len(coef) : (t * coef[i]) % (Cent * Whole) = 0
    BY <1>1, <1>4, NegativeTotals
  <2> QED
    BY <1>4, <2>1 DEF IsNotSplit, coef
<1> QED
  BY <1>2, <1>3, <1>4

(* CreateQuota answers 500 only to a total of those, and goes past the     *)
(* allocation with none of them.  So a total of whole cents that is not    *)
(* negative is never answered 500, and one below zero that is answered 400 *)
(* (the finding of QuotaNegative) splits into whole cents.                 *)
THEOREM InternalErrorsExactly ==
  Spec => [](\A r \in QuotaReq :
               LET refused == IsNotSplit(request[r].total, CoefficientsOf[request[r].community])
               IN  /\ request[r].pc = "InternalError" => refused
                   /\ request[r].pc \in {"overlaps", "build", "commit", "committed", "Created"}
                        => ~refused)
<1> DEFINE refused(r) == IsNotSplit(request[r].total, CoefficientsOf[request[r].community])
           P == \A r \in QuotaReq :
                  /\ request[r].pc = "InternalError" => refused(r)
                  /\ request[r].pc \in {"overlaps", "build", "commit", "committed", "Created"}
                       => ~refused(r)
<1>1. QuotaInv => P
  <2> SUFFICES ASSUME QuotaInv, NEW r \in QuotaReq
               PROVE  /\ request[r].pc = "InternalError" => refused(r)
                      /\ request[r].pc \in {"overlaps", "build", "commit", "committed", "Created"}
                           => ~refused(r)
    OBVIOUS
  <2> DEFINE q == request[r]
             coef == CoefficientsOf[q.community]
  <2>1. q.total \in Int /\ Found(q, quotas) /\ Kept(r, q, quotas)
    BY DEF QuotaInv, TypeOK, Request
  <2>2. ASSUME q.pc = "InternalError" PROVE q.community \in Community /\ ~AddsUp(q.total, coef)
    BY <2>1, <2>2 DEF Found
  <2>3. ASSUME q.pc \in {"overlaps", "build", "commit", "committed", "Created"}
        PROVE  q.community \in Community /\ AddsUp(q.total, coef)
    BY <2>1, <2>3 DEF Found, Kept, Allocated
  <2> QED
    BY <2>1, <2>2, <2>3, NotSplit
<1> QED
  BY <1>1, Invariance, PTL
=============================================================================
