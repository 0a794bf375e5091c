----------------------------- MODULE Community -----------------------------
(***************************************************************************)
(* Communities, their units and the owners of each unit: the requests that *)
(* register a community, assign an owner to a unit and list the units of   *)
(* an owner, as transactions whose statements interleave at every await    *)
(* (READ COMMITTED).                                                       *)
(*                                                                         *)
(* communities and units are the committed rows; a request's record holds  *)
(* what it has read and, through its pc, what it has written and not yet   *)
(* committed: a registration from "insertUnits" on holds its CIF in the    *)
(* unique index and, in inserted, the unit ids it has inserted; an         *)
(* assignment at "replaceUnits" or "commit" holds its community's row.     *)
(* A community is named by the request that registers it.                  *)
(***************************************************************************)
EXTENDS Integers, Sequences, SequencesExt

CONSTANTS RegisterReq, AssignReq, ListReq, Unit, Owner, Cif,
          UnitLists,      \* the lists of units that a client may send
          GivenOwners,    \* the owners that a client may send with them
          None

ASSUME ListsAssumption == UnitLists \subseteq Seq(Unit) /\ GivenOwners \subseteq SUBSET Owner

VARIABLES registered,     \* owners that have a row
          communities, units, register, assign,
          listing       \* the requests that list an owner's units

store == <<registered, communities, units>>
vars  == <<registered, communities, units, register, assign, listing>>

-----------------------------------------------------------------------------
(* Rows and requests *)

CommunityRow == [cif: Cif, version: Nat]
UnitRow == [community: RegisterReq, owners: SUBSET Owner]

ASSUME NoneAssumption ==
  /\ None \notin Cif \cup RegisterReq \cup Unit \cup Owner
  /\ None \notin CommunityRow /\ None \notin UnitRow

RegisterSteps == {"checkCif", "insertCommunity", "insertUnits", "commit", "committed"}
RegisterEnds  == {"Registered", "DuplicateCif", "Invalid", "InternalError", "Lost"}
AssignSteps == {"getCommunity", "getUnits", "getOwner", "save", "replaceUnits",
                "commit", "committed"}
AssignEnds  == {"Assigned", "CommunityNotFound", "OwnerNotFound", "UnitNotFound",
                "AlreadyAssigned", "ConcurrentModification", "Lost"}

RegisterRecord == [pc: RegisterSteps \cup RegisterEnds \cup {"idle"},
                   cif: Cif \cup {None}, content: {"valid", "invalid"},
                   list: Seq(Unit), owners: SUBSET Owner,
                   todo: Seq(Unit), inserted: SUBSET Unit]

(* members and owners: the units of the aggregate as it was read, and the  *)
(* owners of each.                                                         *)
AssignRecord == [pc: AssignSteps \cup AssignEnds \cup {"idle"},
                 community: RegisterReq \cup {None}, unit: Unit \cup {None},
                 owner: Owner \cup {None}, version: Nat,
                 members: SUBSET Unit, owners: [Unit -> SUBSET Owner]]

(* due is a history variable: the owner's units when the request arrived.  *)
ListRecord == [pc: {"idle", "findCommunities", "getUnits", "Listed", "OwnerNotLinked", "Lost"},
               owner: Owner \cup {None}, communities: SUBSET RegisterReq,
               shown: SUBSET Unit, due: SUBSET Unit]

NoList == [pc |-> "idle", owner |-> None, communities |-> {}, shown |-> {}, due |-> {}]

NoRegister == [pc |-> "idle", cif |-> None, content |-> "valid", list |-> <<>>,
               owners |-> {}, todo |-> <<>>, inserted |-> {}]
NoAssign == [pc |-> "idle", community |-> None, unit |-> None, owner |-> None,
             version |-> 0, members |-> {}, owners |-> [u \in Unit |-> {}]]

Init == /\ registered = {}
        /\ communities = [c \in RegisterReq |-> None]
        /\ units = [u \in Unit |-> None]
        /\ register = [r \in RegisterReq |-> NoRegister]
        /\ assign = [r \in AssignReq |-> NoAssign]
        /\ listing = [r \in ListReq |-> NoList]

UnitsOf(c) == {u \in Unit : units[u] # None /\ units[u].community = c}

(* What the owner component commits: owners are only added.                *)
RegisterOwner(o) == /\ o \notin registered
                    /\ registered' = registered \cup {o}
                    /\ UNCHANGED <<communities, units, register, assign, listing>>

-----------------------------------------------------------------------------
(* RegisterCommunity *)

RegisterGo(r, from, to) == /\ register[r].pc = from
                           /\ register' = [register EXCEPT ![r].pc = to]

(* Rolled back if it was not committed, and answered.                      *)
RegisterEnd(r, answer) ==
  register' = [register EXCEPT ![r] = [@ EXCEPT !.pc = answer, !.todo = <<>>,
                                                !.inserted = {}]]

(* The content is valid when every field is, identifiers differ and the    *)
(* coefficients add up to 1.  The given owners are those of every unit of  *)
(* the list; nothing looks them up.                                        *)
RegisterArrive(r, cif, content, list, owners) ==
  /\ register[r].pc = "idle"
  /\ register' = [register EXCEPT ![r] =
        [pc |-> "checkCif", cif |-> cif, content |-> content, list |-> list,
         owners |-> owners, todo |-> list, inserted |-> {}]]
  /\ UNCHANGED <<store, assign, listing>>

Taken(cif) == \E c \in RegisterReq : communities[c] # None /\ communities[c].cif = cif

RegisterCheckCif(r) ==
  /\ register[r].pc = "checkCif"
  /\ \/ Taken(register[r].cif) /\ RegisterEnd(r, "DuplicateCif")
     \/ /\ ~Taken(register[r].cif)
        /\ IF register[r].content = "valid" /\ IsInjective(register[r].list)
           THEN RegisterGo(r, "checkCif", "insertCommunity")
           ELSE RegisterEnd(r, "Invalid")
  /\ UNCHANGED <<store, assign, listing>>

(* uq_communities_cif: an open transaction q has inserted the same CIF.    *)
CifInDoubt(q, r) == /\ register[q].cif = register[r].cif
                    /\ register[q].pc \in {"insertUnits", "commit"}

\* Mutant: the row of the community is committed before its units.
RegisterInsertCommunityAlone(r) ==
  /\ register[r].pc = "insertCommunity"
  /\ register' = [register EXCEPT ![r].pc = "insertUnits"]
  /\ communities' = [communities EXCEPT ![r] = [cif |-> register[r].cif, version |-> 1]]
  /\ UNCHANGED <<registered, units, assign, listing>>

RegisterInsertCommunity(r) ==
  /\ register[r].pc = "insertCommunity"
  /\ \A q \in RegisterReq \ {r} : ~CifInDoubt(q, r)
  /\ IF Taken(register[r].cif) THEN RegisterEnd(r, "DuplicateCif")
     ELSE RegisterGo(r, "insertCommunity", "insertUnits")
  /\ UNCHANGED <<store, assign, listing>>

\* Mutant: unit ids are not unique across communities.
UnitNeverInDoubt(q, u) == FALSE

(* The primary key of units: q has inserted u, or is replacing its row.    *)
UnitInDoubt(q, u) == u \in register[q].inserted
UnitInReplacement(q, u) == /\ assign[q].pc = "commit"
                           /\ u \in UnitsOf(assign[q].community)

(* One row of the multi-row insert; a violation of the primary key is not  *)
(* translated, and ends as an internal error.                              *)
RegisterInsertUnit(r) ==
  LET u == Head(register[r].todo) IN
  /\ register[r].pc = "insertUnits" /\ register[r].todo # <<>>
  /\ \A q \in RegisterReq \ {r} : ~UnitInDoubt(q, u)
  /\ \A q \in AssignReq : ~UnitInReplacement(q, u)
  /\ IF units[u] # None THEN RegisterEnd(r, "InternalError")
     ELSE register' = [register EXCEPT ![r].todo = Tail(@),
                                       ![r].inserted = @ \cup {u}]
  /\ UNCHANGED <<store, assign, listing>>

RegisterUnitsDone(r) == /\ register[r].todo = <<>>
                        /\ RegisterGo(r, "insertUnits", "commit")
                        /\ UNCHANGED <<store, assign, listing>>

WaitsFor(r, q) == /\ r # q
                  /\ register[r].pc = "insertUnits" /\ register[r].todo # <<>>
                  /\ Head(register[r].todo) \in register[q].inserted

\* Mutant: nothing ends a cycle of waits.
NoDeadlockIsDetected(r) == FALSE

(* PostgreSQL aborts a transaction of a cycle of waits.                    *)
InDeadlock(r) ==
  \E W \in SUBSET RegisterReq :
     r \in W /\ \A x \in W : \E y \in W : WaitsFor(x, y)

RegisterDeadlocked(r) == /\ InDeadlock(r)
                         /\ RegisterEnd(r, "InternalError")
                         /\ UNCHANGED <<store, assign, listing>>

RegisterCommit(r) ==
  /\ register[r].pc = "commit"
  /\ register' = [register EXCEPT ![r].pc = "committed", ![r].inserted = {}]
  /\ communities' = [communities EXCEPT ![r] = [cif |-> register[r].cif, version |-> 1]]
  /\ units' = [u \in Unit |->
                 IF u \in register[r].inserted
                 THEN [community |-> r, owners |-> register[r].owners]
                 ELSE units[u]]
  /\ UNCHANGED <<registered, assign, listing>>

RegisterRespond(r) == /\ RegisterGo(r, "committed", "Registered")
                      /\ UNCHANGED <<store, assign, listing>>

(* The process dies or the connection breaks: no answer arrives.           *)
RegisterLost(r) == /\ register[r].pc \in RegisterSteps
                   /\ RegisterEnd(r, "Lost")
                   /\ UNCHANGED <<store, assign, listing>>

-----------------------------------------------------------------------------
(* AssignOwnerToUnit *)

AssignGo(r, from, to) == /\ assign[r].pc = from
                         /\ assign' = [assign EXCEPT ![r].pc = to]

AssignEnd(r, answer) ==
  assign' = [assign EXCEPT ![r] = [NoAssign EXCEPT !.pc = answer]]

AssignArrive(r, c, u, o) ==
  /\ assign[r].pc = "idle"
  /\ assign' = [assign EXCEPT ![r] =
        [NoAssign EXCEPT !.pc = "getCommunity", !.community = c, !.unit = u,
                         !.owner = o]]
  /\ UNCHANGED <<store, register, listing>>

AssignGetCommunity(r) ==
  LET row == communities[assign[r].community] IN
  /\ assign[r].pc = "getCommunity"
  /\ IF row = None THEN AssignEnd(r, "CommunityNotFound")
     ELSE assign' = [assign EXCEPT ![r].pc = "getUnits", ![r].version = row.version]
  /\ UNCHANGED <<store, register, listing>>

(* selectinload: a second statement, with a snapshot of its own.           *)
AssignGetUnits(r) ==
  /\ assign[r].pc = "getUnits"
  /\ assign' = [assign EXCEPT ![r].pc = "getOwner",
        ![r].members = UnitsOf(assign[r].community),
        ![r].owners = [u \in Unit |->
                         IF u \in UnitsOf(assign[r].community)
                         THEN units[u].owners ELSE {}]]
  /\ UNCHANGED <<store, register, listing>>

\* Mutant: the version is read again after the units.
AssignGetOwnerAndVersion(r) ==
  LET q == assign[r] IN
  /\ q.pc = "getOwner"
  /\ \/ q.owner \notin registered /\ AssignEnd(r, "OwnerNotFound")
     \/ /\ q.owner \in registered /\ q.unit \notin q.members
        /\ AssignEnd(r, "UnitNotFound")
     \/ /\ q.owner \in registered /\ q.unit \in q.members
        /\ IF q.owner \in q.owners[q.unit] THEN AssignEnd(r, "AlreadyAssigned")
           ELSE assign' = [assign EXCEPT ![r].pc = "save",
                             ![r].version = communities[q.community].version]
  /\ UNCHANGED <<store, register, listing>>

AssignGetOwner(r) ==
  LET q == assign[r] IN
  /\ q.pc = "getOwner"
  /\ \/ q.owner \notin registered /\ AssignEnd(r, "OwnerNotFound")
     \/ /\ q.owner \in registered /\ q.unit \notin q.members
        /\ AssignEnd(r, "UnitNotFound")
     \/ /\ q.owner \in registered /\ q.unit \in q.members
        /\ IF q.owner \in q.owners[q.unit] THEN AssignEnd(r, "AlreadyAssigned")
           ELSE AssignGo(r, "getOwner", "save")
  /\ UNCHANGED <<store, register, listing>>

RowLocked(q, c) == assign[q].community = c /\ assign[q].pc \in {"replaceUnits", "commit"}

\* Mutant: the upsert has no WHERE.
AnyVersionMatches(r) == TRUE

(* The upsert's WHERE version = expected.                                  *)
VersionMatches(r) == communities[assign[r].community].version = assign[r].version

AssignSave(r) ==
  /\ assign[r].pc = "save"
  /\ \A q \in AssignReq \ {r} : ~RowLocked(q, assign[r].community)
  /\ IF VersionMatches(r) THEN AssignGo(r, "save", "replaceUnits")
     ELSE AssignEnd(r, "ConcurrentModification")
  /\ UNCHANGED <<store, register, listing>>

(* _replace_units: deletes the rows and inserts them from the aggregate.   *)
AssignReplaceUnits(r) == /\ AssignGo(r, "replaceUnits", "commit")
                         /\ UNCHANGED <<store, register, listing>>

\* Mutant: the two ids are swapped in the call of assign_owner_to_unit.
SwappedIds(r, u) ==
  assign[r].owners[u] \cup (IF u = assign[r].unit THEN {assign[r].unit} ELSE {})

UpdatedOwners(r, u) ==
  assign[r].owners[u] \cup (IF u = assign[r].unit THEN {assign[r].owner} ELSE {})

AssignCommit(r) ==
  LET q == assign[r] IN
  /\ AssignGo(r, "commit", "committed")
  /\ communities' = [communities EXCEPT ![q.community].version = q.version + 1]
  /\ units' = [u \in Unit |->
        IF u \in q.members
        THEN [community |-> q.community, owners |-> UpdatedOwners(r, u)]
        ELSE IF u \in UnitsOf(q.community) THEN None ELSE units[u]]
  /\ UNCHANGED <<registered, register, listing>>

AssignRespond(r) == /\ AssignGo(r, "committed", "Assigned")
                    /\ UNCHANGED <<store, register, listing>>

AssignLost(r) == /\ assign[r].pc \in AssignSteps
                 /\ AssignEnd(r, "Lost")
                 /\ UNCHANGED <<store, register, listing>>

-----------------------------------------------------------------------------
(* GET /owners/me/units *)

UnitsOwnedBy(o) == {u \in Unit : units[u] # None /\ o \in units[u].owners}

(* The owner is that of the account, if it has one.                        *)
ListArrive(r, o) ==
  /\ listing[r].pc = "idle"
  /\ listing' = [listing EXCEPT ![r] =
        [NoList EXCEPT !.pc = IF o = None THEN "OwnerNotLinked" ELSE "findCommunities",
                       !.owner = o, !.due = UnitsOwnedBy(o)]]
  /\ UNCHANGED <<store, register, assign>>

ListFindCommunities(r) ==
  /\ listing[r].pc = "findCommunities"
  /\ listing' = [listing EXCEPT ![r].pc = "getUnits",
        ![r].communities = {units[u].community : u \in UnitsOwnedBy(listing[r].owner)}]
  /\ UNCHANGED <<store, register, assign>>

(* selectinload, and the filter of the handler: no other await follows.    *)
ListGetUnits(r) ==
  /\ listing[r].pc = "getUnits"
  /\ listing' = [listing EXCEPT ![r].pc = "Listed",
        ![r].shown = {u \in UnitsOwnedBy(listing[r].owner) :
                        units[u].community \in listing[r].communities}]
  /\ UNCHANGED <<store, register, assign>>

ListLost(r) == /\ listing[r].pc \in {"findCommunities", "getUnits"}
               /\ listing' = [listing EXCEPT ![r] = [NoList EXCEPT !.pc = "Lost"]]
               /\ UNCHANGED <<store, register, assign>>

-----------------------------------------------------------------------------
(* The system *)

RegisterProgress(r) ==
  \/ RegisterCheckCif(r) \/ RegisterInsertCommunity(r) \/ RegisterInsertUnit(r)
  \/ RegisterUnitsDone(r) \/ RegisterDeadlocked(r) \/ RegisterCommit(r)
  \/ RegisterRespond(r)

AssignProgress(r) ==
  \/ AssignGetCommunity(r) \/ AssignGetUnits(r) \/ AssignGetOwner(r)
  \/ AssignSave(r) \/ AssignReplaceUnits(r) \/ AssignCommit(r) \/ AssignRespond(r)

Arrivals ==
  \/ \E o \in Owner : RegisterOwner(o)
  \/ \E r \in RegisterReq, cif \in Cif, content \in {"valid", "invalid"},
        list \in UnitLists, owners \in GivenOwners :
        RegisterArrive(r, cif, content, list, owners)
  \/ \E r \in AssignReq, c \in RegisterReq, u \in Unit, o \in Owner :
        AssignArrive(r, c, u, o)
  \/ \E r \in ListReq, o \in Owner \cup {None} : ListArrive(r, o)

Losses == \/ \E r \in RegisterReq : RegisterLost(r)
          \/ \E r \in AssignReq : AssignLost(r)
          \/ \E r \in ListReq : ListLost(r)

Next == \/ Arrivals \/ Losses
        \/ \E r \in RegisterReq : RegisterProgress(r)
        \/ \E r \in AssignReq : AssignProgress(r)
        \/ \E r \in ListReq : ListFindCommunities(r) \/ ListGetUnits(r)

(* An event loop runs every task that can run, and the database detects    *)
(* its deadlocks; nothing makes clients send requests or connections fail. *)
Fairness == /\ \A r \in RegisterReq : WF_vars(RegisterProgress(r))
            /\ \A r \in AssignReq : WF_vars(AssignProgress(r))

Spec == Init /\ [][Next]_vars
FairSpec == Spec /\ Fairness

-----------------------------------------------------------------------------
(* Properties *)

(* Every variable keeps its type.                                          *)
TypeOK ==
  /\ registered \subseteq Owner
  /\ communities \in [RegisterReq -> CommunityRow \cup {None}]
  /\ units \in [Unit -> UnitRow \cup {None}]
  /\ register \in [RegisterReq -> RegisterRecord]
  /\ assign \in [AssignReq -> AssignRecord]
  /\ listing \in [ListReq -> ListRecord]

(* An assignment that was answered 200 is still there: a concurrent save   *)
(* of the aggregate, which rewrites every unit of the community from what  *)
(* it has read, never loses it, nor hides it from a list of the owner's    *)
(* units that races with it.  A list shows the units that were the owner's *)
(* when it was asked for, and none that is not.                            *)
AssignmentsAreKept ==
  /\ \A r \in AssignReq :
       assign[r].pc \in {"committed", "Assigned"} =>
         /\ assign[r].unit \in UnitsOf(assign[r].community)
         /\ assign[r].owner \in units[assign[r].unit].owners
  /\ \A r \in ListReq :
       listing[r].pc = "Listed" =>
         listing[r].due \subseteq listing[r].shown /\ listing[r].shown \subseteq UnitsOwnedBy(listing[r].owner)

(* A registration is stored with all its units and the owners given, or    *)
(* not at all, though it may fail at any of them; a 201 means the former,  *)
(* an error the latter, and one that blames the CIF that another community *)
(* has it.                                                                 *)
RegistrationsAreWhole ==
  \A r \in RegisterReq :
    LET whole  == /\ communities[r] # None
                  /\ UnitsOf(r) = ToSet(register[r].list)
                  /\ \A u \in UnitsOf(r) : register[r].owners \subseteq units[u].owners
        absent == communities[r] = None /\ UnitsOf(r) = {}
    IN /\ whole \/ absent
       /\ register[r].pc \in {"committed", "Registered"} => whole
       /\ register[r].pc \in RegisterEnds \ {"Registered", "Lost"} => absent
       /\ register[r].pc = "DuplicateCif" => Taken(register[r].cif)

(* Communities and units change as the abstract specification allows.      *)
Owners == INSTANCE UnitOwners WITH
  Community <- RegisterReq,
  cifOf <- [c \in RegisterReq |-> IF communities[c] = None THEN None ELSE communities[c].cif],
  communityOf <- [u \in Unit |-> IF units[u] = None THEN None ELSE units[u].community],
  ownersOf <- [u \in Unit |-> IF units[u] = None THEN {} ELSE units[u].owners]

(* The component implements UnitOwners: each commit is one founding or one *)
(* pair added, whatever it rewrote.                                        *)
ImplementsUnitOwners == Owners!Spec

(* Every registration is answered or lost, those that insert the same unit *)
(* ids in opposite orders included.                                        *)
RegistrationsAreAnswered ==
  \A r \in RegisterReq :
    register[r].pc \in RegisterSteps ~> register[r].pc \in RegisterEnds
=============================================================================
