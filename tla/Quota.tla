------------------------------- MODULE Quota --------------------------------
(***************************************************************************)
(* Quotas of a community: the request that creates one, which splits its   *)
(* total with Allocation and looks for an overlapping ordinary quota       *)
(* before it inserts its own.  No index backs that look-up.                *)
(*                                                                         *)
(* quotas are the committed rows, each named by the request that creates   *)
(* it.  Communities and their coefficients do not change: a community is   *)
(* looked up once, and only its owners may change afterwards.              *)
(***************************************************************************)
EXTENDS Allocation

CONSTANTS QuotaReq, Community,
          CoefficientsOf,   \* of the units of each community, in their order
          MaxDay,           \* bound of the calendar
          Totals,           \* sums of the lines of a request, in ticks
          None

(* The units of a community, if it has any, have the whole between them.   *)
ASSUME CoefficientsAssumption ==
  \A c \in Community : /\ CoefficientsOf[c] \in Seq(1..Whole)
                       /\ CoefficientsOf[c] = <<>> \/ Total(CoefficientsOf[c]) = Whole
ASSUME QuotaInputs == MaxDay \in Nat /\ Totals \subseteq Int

VARIABLES quotas, request

vars == <<quotas, request>>

-----------------------------------------------------------------------------
(* Rows and requests *)

Day == 0..MaxDay
Kind == {"ordinary", "extraordinary"}

QuotaRow == [community: Community, type: Kind, start: Day, end: Day,
             total: Nat \ {0}, amounts: Seq(Nat) \ {<<>>}]

ASSUME NoneAssumption == None \notin QuotaRow /\ None \notin Community

Steps == {"getCommunity", "allocate", "overlaps", "build", "commit", "committed"}
Ends  == {"Created", "CommunityNotFound", "Overlapping", "Invalid",
          "InternalError", "Lost"}

(* lines says whether the request has any; without lines the total is 0.   *)
(* before is a history variable: the quotas answered "Created" when the    *)
(* request arrived.                                                        *)
Request == [pc: Steps \cup Ends \cup {"idle"}, community: Community \cup {None},
            type: Kind, start: Day, end: Day, lines: {"none", "some"}, total: Int,
            amounts: Seq(Int), before: SUBSET QuotaReq]

NoRequest == [pc |-> "idle", community |-> None, type |-> "ordinary", start |-> 0,
              end |-> 0, lines |-> "none", total |-> 0, amounts |-> <<>>, before |-> {}]

Init == /\ quotas = [r \in QuotaReq |-> None]
        /\ request = [r \in QuotaReq |-> NoRequest]

Stored == {r \in QuotaReq : quotas[r] # None}
Answered == {r \in QuotaReq : request[r].pc = "Created"}

Go(r, from, to) == request[r].pc = from /\ request' = [request EXCEPT ![r].pc = to]

-----------------------------------------------------------------------------
(* CreateQuota *)

Arrive(r, c, type, start, end, lines, t) ==
  /\ request[r].pc = "idle"
  /\ request' = [request EXCEPT ![r] =
        [pc |-> "getCommunity", community |-> c, type |-> type, start |-> start,
         end |-> end, lines |-> lines, total |-> IF lines = "none" THEN 0 ELSE t,
         amounts |-> <<>>, before |-> Answered]]
  /\ UNCHANGED quotas

GetCommunity(r) ==
  /\ Go(r, "getCommunity",
        IF request[r].community = None THEN "CommunityNotFound" ELSE "allocate")
  /\ UNCHANGED quotas

(* QuotaAllocationSumMismatchError has no handler.                         *)
Allocate(r) ==
  LET q == request[r] IN
  /\ q.pc = "allocate"
  /\ LET coef == CoefficientsOf[q.community] IN
     IF AddsUp(q.total, coef)
     THEN request' = [request EXCEPT
            ![r].pc = IF q.type = "ordinary" THEN "overlaps" ELSE "build",
            ![r].amounts = Amounts(q.total, coef)]
     ELSE Go(r, "allocate", "InternalError")
  /\ UNCHANGED quotas

\* Mutant: the last day of a quota may be the first of another.
OverlapsInside(p, q) == p.community = q.community /\ p.start < q.end /\ p.end > q.start

(* exists_overlapping_ordinary: both bounds belong to the period.          *)
Overlaps(p, q) == p.community = q.community /\ p.start <= q.end /\ p.end >= q.start

CheckOverlaps(r) ==
  /\ Go(r, "overlaps",
        IF \E b \in Stored : quotas[b].type = "ordinary" /\ Overlaps(quotas[b], request[r])
        THEN "Overlapping" ELSE "build")
  /\ UNCHANGED quotas

\* Mutant: a quota may have no allocations.
IsCharged(q) == q.lines = "some" /\ q.start <= q.end /\ q.total > 0

(* The aggregate's invariants, beside the sum that Allocation guarantees.  *)
IsQuota(q) == /\ q.lines = "some" /\ q.start <= q.end /\ q.total > 0
              /\ q.amounts # <<>>

(* Built, and inserted with its lines and allocations.                     *)
Build(r) == /\ Go(r, "build", IF IsQuota(request[r]) THEN "commit" ELSE "Invalid")
            /\ UNCHANGED quotas

Commit(r) ==
  LET q == request[r] IN
  /\ Go(r, "commit", "committed")
  /\ quotas' = [quotas EXCEPT ![r] =
        [community |-> q.community, type |-> q.type, start |-> q.start, end |-> q.end,
         total |-> q.total, amounts |-> q.amounts]]

\* Mutant: the response is sent before the session is committed.
RespondEarly(r) == Go(r, "commit", "Created") /\ UNCHANGED quotas

Respond(r) == Go(r, "committed", "Created") /\ UNCHANGED quotas

Lost(r) == /\ request[r].pc \in Steps
           /\ request' = [request EXCEPT ![r].pc = "Lost"]
           /\ UNCHANGED quotas

-----------------------------------------------------------------------------
(* The system *)

Arrivals ==
  \E r \in QuotaReq, c \in Community \cup {None}, type \in Kind, start \in Day, end \in Day,
     lines \in {"none", "some"}, t \in Totals : Arrive(r, c, type, start, end, lines, t)

Progress(r) == \/ GetCommunity(r) \/ Allocate(r) \/ CheckOverlaps(r) \/ Build(r)
               \/ Commit(r) \/ Respond(r)

Next == Arrivals \/ \E r \in QuotaReq : Progress(r) \/ Lost(r)

Spec == Init /\ [][Next]_vars

-----------------------------------------------------------------------------
(* Properties *)

(* Every variable keeps its type.                                          *)
TypeOK == /\ quotas \in [QuotaReq -> QuotaRow \cup {None}]
          /\ request \in [QuotaReq -> Request]

(* Two ordinary quotas that overlap come from requests that raced: neither *)
(* had been answered when the other arrived.                               *)
OverlapsComeFromRaces ==
  \A r, s \in Stored :
    /\ r # s /\ quotas[r].type = "ordinary" /\ quotas[s].type = "ordinary"
    /\ quotas[r].community = quotas[s].community
    /\ \E day \in Day : /\ day \in quotas[r].start..quotas[r].end
                        /\ day \in quotas[s].start..quotas[s].end
    => s \notin request[r].before

(* A quota answered 201 is stored, and then charges every unit of its      *)
(* community its share of the total, to less than a cent, in the closest   *)
(* of all splits in whole cents; a refused one is not stored.              *)
AnswersAreTrue ==
  \A r \in QuotaReq :
    /\ request[r].pc = "Created" =>
         /\ r \in Stored
         /\ LET coef == CoefficientsOf[quotas[r].community] IN
            /\ IsTheClosest(quotas[r].amounts, quotas[r].total, coef)
            /\ \A i \in DOMAIN coef :
                 LET short == quotas[r].amounts[i] * Whole - quotas[r].total * coef[i]
                 IN -(Cent * Whole) < short /\ short < Cent * Whole
    /\ request[r].pc \in Ends \ {"Created", "Lost"} => r \notin Stored

(* A total that is not strictly positive is answered 400: the responses of *)
(* the create_quota route.                                                 *)
NoTotalBelowZeroIsAnInternalError ==
  \A r \in QuotaReq : request[r].total <= 0 => request[r].pc # "InternalError"
=============================================================================
