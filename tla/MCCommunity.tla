---------------------------- MODULE MCCommunity ----------------------------
(***************************************************************************)
(* Instances of Community for TLC.                                         *)
(***************************************************************************)
EXTENDS Community, TLC

CONSTANTS r1, r2, s1, u1, u2, o1, o2, f1

(* Both orders of two client-chosen unit ids, and a list that repeats one. *)
Lists == {<<>>, <<u1, u1>>, <<u1, u2>>, <<u2, u1>>}
OneOwnerOrNone == {{}, {o1}}

(* A request that is "Lost" at the start does not come at all.             *)
NoAssignments == assign = [r \in AssignReq |-> [NoAssign EXCEPT !.pc = "Lost"]]
NoLists == listing = [r \in ListReq |-> [NoList EXCEPT !.pc = "Lost"]]

(* From an empty store, two registrations and no assignment.               *)
TwoRegistrations ==
  /\ registered = {o1}
  /\ communities = [c \in RegisterReq |-> None]
  /\ units = [u \in Unit |-> None]
  /\ register = [r \in RegisterReq |-> NoRegister]
  /\ NoAssignments
  /\ NoLists

(* r1 has been registered with both units; assignments race for them, and  *)
(* a list of the units of one of the owners.                               *)
OneCommunity ==
  /\ registered = {o1}
  /\ communities = [c \in RegisterReq |->
       IF c = r1 THEN [cif |-> f1, version |-> 1] ELSE None]
  /\ units = [u \in Unit |-> [community |-> r1, owners |-> {}]]
  /\ register = [r \in RegisterReq |->
       IF r = r1 THEN [NoRegister EXCEPT !.pc = "Registered", !.cif = f1, !.list = <<u1, u2>>]
       ELSE [NoRegister EXCEPT !.pc = "Lost"]]
  /\ assign = [r \in AssignReq |-> NoAssign]
  /\ listing = [r \in ListReq |-> NoList]

(* r1 has been registered with one unit; a registration that names it too  *)
(* races with an assignment.                                               *)
OneUnit ==
  /\ registered = {o1, o2}
  /\ communities = [c \in RegisterReq |->
       IF c = r1 THEN [cif |-> f1, version |-> 1] ELSE None]
  /\ units = [u \in Unit |->
       IF u = u1 THEN [community |-> r1, owners |-> {o1}] ELSE None]
  /\ register = [r \in RegisterReq |->
       IF r = r1 THEN [NoRegister EXCEPT !.pc = "Registered", !.cif = f1, !.list = <<u1>>,
                                         !.owners = {o1}]
       ELSE NoRegister]
  /\ assign = [r \in AssignReq |->
       IF r = s1 THEN NoAssign ELSE [NoAssign EXCEPT !.pc = "Lost"]]
  /\ NoLists

ScenariosSpec ==
  /\ TwoRegistrations \/ OneCommunity \/ OneUnit
  /\ [][Next]_vars
  /\ Fairness
=============================================================================
