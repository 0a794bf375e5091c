------------------------------ MODULE MCVoting ------------------------------
(***************************************************************************)
(* Instances of Voting for TLC.  Requests of one kind are interchangeable, *)
(* so the safety runs use their symmetry; the liveness run does not.       *)
(***************************************************************************)
EXTENDS Voting, FiniteSets, TLC

CONSTANTS a1, a2, o1, o2, u1, u2, c1, c2, b1, b2, b3

(* Two co-owners of u1, each with a linked account.                        *)
AllInOneCommunity == [u \in Unit |-> c1]
BothLinked == (a1 :> o1) @@ (a2 :> o2)
BothOwnU1 == {<<o1, u1>>, <<o2, u1>>}

(* One account linked, one not; a unit in each of two communities.         *)
OneUnitEach == (u1 :> c1) @@ (u2 :> c2)
OnlyA1Linked == (a1 :> o1) @@ (a2 :> None)
O1OwnsU1 == {<<o1, u1>>}

(* The vote is stored and open, its end is now; some requests never come.  *)
OpenVote == [community |-> c1, endDate |-> 1, result |-> None, version |-> 1]
OpenInit(noCasts, noCloses) ==
  /\ clock = 1 /\ link = Links0 /\ owns = Owns0
  /\ votes = [v \in CreateReq |-> OpenVote]
  /\ ballots = [b \in CastReq |-> None]
  /\ create = [r \in CreateReq |-> [NoCreate EXCEPT !.pc = "Created"]]
  /\ cast = [r \in CastReq |->
       IF r \in noCasts THEN [NoCast EXCEPT !.pc = "Lost"] ELSE NoCast]
  /\ close = [r \in CloseReq |->
       IF r \in noCloses THEN [NoClose EXCEPT !.pc = "Lost"] ELSE NoClose]

(* All casts and one closer, or two casts and all closers.                 *)
RacesInit == \/ \E r \in CloseReq : OpenInit({}, CloseReq \ {r})
             \/ \E r \in CastReq : OpenInit({r}, {})

RacesSpec == RacesInit /\ [][Next]_vars

(* All casts and no closer, or one cast and all closers.                   *)
WaitsInit == OpenInit({}, CloseReq) \/ OpenInit({b2, b3}, {})

WaitsSpec == WaitsInit /\ [][Next]_vars /\ Fairness

LateSpec == OpenInit({}, {}) /\ [][Next]_vars

RequestSymmetry == Permutations(CastReq) \cup Permutations(CloseReq)
=============================================================================
