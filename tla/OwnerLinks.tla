----------------------------- MODULE OwnerLinks -----------------------------
(***************************************************************************)
(* What the identity component promises about owners: an account is linked *)
(* at most once, to an owner that no other account is linked to, and stays *)
(* linked.  Voting takes this step for the whole component.                *)
(***************************************************************************)
CONSTANTS Account, Owner, None

VARIABLE link

Init == link = [a \in Account |-> None]

Link(a, o) == /\ link[a] = None
              /\ \A x \in Account : link[x] # o
              /\ link' = [link EXCEPT ![a] = o]

Next == \E a \in Account, o \in Owner : Link(a, o)

Spec == Init /\ [][Next]_link
=============================================================================
