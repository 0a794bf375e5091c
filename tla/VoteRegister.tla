---------------------------- MODULE VoteRegister ----------------------------
(***************************************************************************)
(* What the voting component promises a community, without requests,       *)
(* ballots that supersede each other or locks: a register of who stands    *)
(* for each unit in each vote, and with which option.  The owner who casts *)
(* first for a unit is the one who may change it; a vote is closed once.   *)
(*                                                                         *)
(* A result is taken from the register some time before it is entered, and *)
(* a cast that is late may still be entered afterwards: so a result names, *)
(* for some units that have voted, the owner who stands for each.          *)
(***************************************************************************)
CONSTANTS Vote, Unit, Owner, Option, None

VARIABLES opened,    \* the votes that exist
          standing,  \* standing[v][u]: what stands for unit u in vote v, or None
          result     \* result[v]: what its result counts by unit, or None

vars == <<opened, standing, result>>

Choice == [owner: Owner, option: Option]

(* The owners of a result are those who stand, for units that have voted.  *)
Counts(s, v) ==
  \A u \in DOMAIN s : standing[v][u] # None /\ s[u].owner = standing[v][u].owner

Tallies == UNION {[us -> Choice] : us \in SUBSET Unit}

(* Any register that is consistent.                                        *)
Init ==
  /\ opened \subseteq Vote
  /\ standing \in [Vote -> [Unit -> Choice \cup {None}]]
  /\ result \in [Vote -> Tallies \cup {None}]
  /\ \A v \in Vote : /\ v \notin opened => /\ result[v] = None
                                           /\ \A u \in Unit : standing[v][u] = None
                     /\ result[v] # None => Counts(result[v], v)

Open(v) == /\ v \notin opened
           /\ opened' = opened \cup {v}
           /\ UNCHANGED <<standing, result>>

StandFor(v, u, o, op) ==
  /\ v \in opened
  /\ standing[v][u] # None => standing[v][u].owner = o
  /\ standing' = [standing EXCEPT ![v][u] = [owner |-> o, option |-> op]]
  /\ UNCHANGED <<opened, result>>

CloseWith(v, s) == /\ v \in opened /\ result[v] = None
                   /\ Counts(s, v)
                   /\ result' = [result EXCEPT ![v] = s]
                   /\ UNCHANGED <<opened, standing>>

Next ==
  \E v \in Vote :
    \/ Open(v)
    \/ \E u \in Unit, o \in Owner, op \in Option : StandFor(v, u, o, op)
    \/ \E s \in Tallies : CloseWith(v, s)

Spec == Init /\ [][Next]_vars
=============================================================================
