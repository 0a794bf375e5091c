----------------------------- MODULE MCIdentity -----------------------------
(***************************************************************************)
(* Instances of Identity for TLC.                                          *)
(***************************************************************************)
EXTENDS Identity, TLC

CONSTANTS o1, n1, n2, e1, e2, p1, p2, l1

NifOf(o) == IF o = o1 THEN n1 ELSE n2
NewLink == [pc |-> "idle", account |-> None, nif |-> None, owner |-> None, version |-> 0]
NewAccount == [pc |-> "idle", email |-> None, owner |-> None]

(* A request that is "Lost" at the start does not come at all.             *)

(* p1 and p2 are unlinked accounts.                                        *)
TwoUnlinked ==
  /\ accounts = [a \in AccountReq |->
       IF a \in {p1, p2}
       THEN [email |-> IF a = p1 THEN e1 ELSE e2, owner |-> None, version |-> 1]
       ELSE None]
  /\ link = [r \in LinkReq |-> NewLink]

Registered(last) ==
  register = [a \in AccountReq |->
    IF a \in {p1, p2}
    THEN [pc |-> "Created", email |-> IF a = p1 THEN e1 ELSE e2, owner |-> None]
    ELSE last]

(* Two links of the accounts to the owners of n1 and n2.                   *)
TwoOwners ==
  /\ owners = [o \in OwnerReq |-> [nif |-> NifOf(o)]]
  /\ enrol = [o \in OwnerReq |-> [pc |-> "Created", nif |-> NifOf(o)]]
  /\ TwoUnlinked /\ Registered([NewAccount EXCEPT !.pc = "Lost"])

(* The owner of n1 is stored, n2 has none.                                 *)
OnlyOwner ==
  /\ owners = [o \in OwnerReq |-> IF o = o1 THEN [nif |-> n1] ELSE None]
  /\ enrol = [o \in OwnerReq |->
       IF o = o1 THEN [pc |-> "Created", nif |-> n1] ELSE [pc |-> "Lost", nif |-> None]]

(* Two links and a registration claim the owner of n1.                     *)
OneOwner == OnlyOwner /\ TwoUnlinked /\ Registered(NewAccount)

(* From an empty store, two owners, who may have one NIF, and an account.  *)
Empty ==
  /\ owners = [o \in OwnerReq |-> None]
  /\ enrol = [o \in OwnerReq |-> [pc |-> "idle", nif |-> None]]
  /\ accounts = [a \in AccountReq |-> None]
  /\ register = [a \in AccountReq |->
       IF a = p1 THEN NewAccount ELSE [NewAccount EXCEPT !.pc = "Lost"]]
  /\ link = [r \in LinkReq |-> [NewLink EXCEPT !.pc = "Lost"]]

(* Two accounts, which may share an email or claim the owner, and a link.  *)
NoAccounts ==
  /\ OnlyOwner
  /\ accounts = [a \in AccountReq |-> None]
  /\ register = [a \in AccountReq |->
       IF a \in {p1, p2} THEN NewAccount ELSE [NewAccount EXCEPT !.pc = "Lost"]]
  /\ link = [r \in LinkReq |-> IF r = l1 THEN NewLink ELSE [NewLink EXCEPT !.pc = "Lost"]]

ScenariosSpec ==
  /\ TwoOwners \/ OneOwner \/ NoAccounts \/ Empty
  /\ [][Next]_vars
  /\ Fairness
=============================================================================
