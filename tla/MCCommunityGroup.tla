-------------------------- MODULE MCCommunityGroup --------------------------
(***************************************************************************)
(* Instances of CommunityGroup for TLC.                                    *)
(***************************************************************************)
EXTENDS CommunityGroup, TLC

CONSTANTS n1, n2, n3, s1

(* n1 and n2 have one slug, n3 has none.                                   *)
TwoNamesOneSlug == (n1 :> s1) @@ (n2 :> s1) @@ (n3 :> None)

(* A request that is "Lost" at the start does not come at all.             *)

(* One group of two is stored, and all communities; changes race for it.   *)
OneGroup ==
  \E g \in CreateReq, pair \in SUBSET Community :
    /\ Cardinality(pair) = 2
    /\ stored = Community
    /\ groups = [h \in CreateReq |->
         IF h = g THEN [slug |-> s1, members |-> pair, version |-> 1] ELSE None]
    /\ create = [h \in CreateReq |->
         IF h = g THEN [NoCreate EXCEPT !.pc = "Created", !.name = n1, !.members = pair]
         ELSE [NoCreate EXCEPT !.pc = "Lost"]]
    /\ change = [r \in ChangeReq |-> NoChange]

(* From an empty store, two groups and a change.                           *)
TwoGroups ==
  \E r \in ChangeReq :
    /\ stored = {}
    /\ groups = [g \in CreateReq |-> None]
    /\ create = [g \in CreateReq |-> NoCreate]
    /\ change = [q \in ChangeReq |->
         IF q = r THEN NoChange ELSE [NoChange EXCEPT !.pc = "Lost"]]

ScenariosSpec == (OneGroup \/ TwoGroups) /\ [][Next]_vars

Symmetry == Permutations(CreateReq) \cup Permutations(ChangeReq) \cup Permutations(Community)
=============================================================================
