----------------------------- MODULE UnitOwners -----------------------------
(***************************************************************************)
(* What the community component promises, without requests, reads or       *)
(* versions: a community is founded at once with all its units, under a    *)
(* CIF of its own, and afterwards its units only gain owners, one pair at  *)
(* a time.                                                                 *)
(***************************************************************************)
CONSTANTS Community, Unit, Owner, Cif, None

VARIABLES cifOf,        \* the CIF of each community founded
          communityOf,  \* the community of each unit that exists
          ownersOf      \* the owners of each unit

vars == <<cifOf, communityOf, ownersOf>>

(* Any store in which no CIF is shared and units belong to communities.    *)
Init ==
  /\ cifOf \in [Community -> Cif \cup {None}]
  /\ \A c, d \in Community : cifOf[c] = cifOf[d] => c = d \/ cifOf[c] = None
  /\ communityOf \in [Unit -> Community \cup {None}]
  /\ \A u \in Unit : communityOf[u] # None => cifOf[communityOf[u]] # None
  /\ ownersOf \in [Unit -> SUBSET Owner]
  /\ \A u \in Unit : communityOf[u] = None => ownersOf[u] = {}

Found(c, cif, us, os) ==
  /\ cifOf[c] = None
  /\ \A d \in Community : cifOf[d] # cif
  /\ \A u \in us : communityOf[u] = None
  /\ cifOf' = [cifOf EXCEPT ![c] = cif]
  /\ communityOf' = [u \in Unit |-> IF u \in us THEN c ELSE communityOf[u]]
  /\ ownersOf' = [u \in Unit |-> IF u \in us THEN os ELSE ownersOf[u]]

AddOwner(u, o) ==
  /\ communityOf[u] # None
  /\ o \notin ownersOf[u]
  /\ ownersOf' = [ownersOf EXCEPT ![u] = @ \cup {o}]
  /\ UNCHANGED <<cifOf, communityOf>>

Next ==
  \/ \E c \in Community, cif \in Cif, us \in SUBSET Unit, os \in SUBSET Owner :
       Found(c, cif, us, os)
  \/ \E u \in Unit, o \in Owner : AddOwner(u, o)

Spec == Init /\ [][Next]_vars
=============================================================================
