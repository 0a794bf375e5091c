-------------------------- MODULE CommunityProofs --------------------------
(***************************************************************************)
(* Communities, units and their owners, proved for every number of         *)
(* requests and every list of units: a registration is stored whole or not *)
(* at all, an assignment that succeeded is kept, and the component         *)
(* implements UnitOwners.  The invariant says what a registration holds in *)
(* the keys of communities and units, and that an assignment which reads   *)
(* the same version twice has read the rows as they still are.             *)
(***************************************************************************)
EXTENDS Community, TLAPS

(* What a registration stores, as its request gave it.                     *)
Whole(r, q) == /\ communities[r] # None
               /\ UnitsOf(r) = ToSet(q.list)
               /\ \A u \in UnitsOf(r) : q.owners \subseteq units[u].owners

Absent(r) == communities[r] = None /\ UnitsOf(r) = {}

Inserting == {"insertUnits", "commit"}

(* A registration holds the only entry of its CIF from its first insert    *)
(* on, and those of the units it has inserted, which have no row yet.      *)
RegisterOk(r, q) ==
  /\ Whole(r, q) \/ Absent(r)
  /\ q.pc \notin {"committed", "Registered", "Lost"} => Absent(r)
  /\ q.pc \in {"committed", "Registered"} => Whole(r, q)
  /\ q.pc = "DuplicateCif" => Taken(q.cif)
  /\ q.pc \in {"checkCif", "insertCommunity", "insertUnits", "commit"} =>
       q.cif \in Cif /\ q.inserted \cup ToSet(q.todo) = ToSet(q.list)
  /\ q.pc \in Inserting => ~Taken(q.cif)
  /\ q.pc = "commit" => q.todo = <<>>
  /\ q.inserted # {} => q.pc \in Inserting
  /\ \A u \in q.inserted : units[u] = None

RegistersApart(p, q) ==
  /\ p.pc \in Inserting /\ q.pc \in Inserting => p.cif # q.cif
  /\ p.inserted \cap q.inserted = {}

(* What an assignment has read is what the rows say, if the version of the *)
(* community is still the one it has read.                                 *)
AsRead(q) ==
  /\ q.members = UnitsOf(q.community)
  /\ \A u \in q.members : q.owners[u] = units[u].owners

AssignOk(q) ==
  /\ q.pc \in AssignSteps => q.community \in RegisterReq /\ q.unit \in Unit /\ q.owner \in Owner
  /\ q.pc \in AssignSteps \ {"getCommunity"} =>
       /\ communities[q.community] # None
       /\ q.pc # "committed" => q.version <= communities[q.community].version
  /\ q.pc \in {"getOwner", "save", "replaceUnits", "commit"} =>
       (q.version = communities[q.community].version => AsRead(q))
  /\ q.pc \in {"save", "replaceUnits", "commit"} =>
       q.unit \in q.members /\ q.owner \notin q.owners[q.unit]
  /\ q.pc \in {"replaceUnits", "commit"} => q.version = communities[q.community].version
  /\ q.pc \in {"committed", "Assigned"} => /\ q.unit \in UnitsOf(q.community)
                                           /\ q.owner \in units[q.unit].owners

AssignsApart(p, q) ==
  p.pc \in {"replaceUnits", "commit"} /\ q.pc \in {"replaceUnits", "commit"}
    => p.community # q.community

(* A list that has found the communities of the owner's units shows all of *)
(* those it had at the start.                                              *)
ListOk(q) ==
  /\ q.due \subseteq UnitsOwnedBy(q.owner)
  /\ q.pc = "getUnits" => \A u \in q.due : units[u].community \in q.communities
  /\ q.pc = "Listed" => q.due \subseteq q.shown
  /\ q.shown \subseteq UnitsOwnedBy(q.owner)

RequestsInv ==
  /\ \A r \in RegisterReq : RegisterOk(r, register[r])
  /\ \A r, s \in RegisterReq : r # s => RegistersApart(register[r], register[s])
  /\ \A r \in AssignReq : AssignOk(assign[r])
  /\ \A r, s \in AssignReq : r # s => AssignsApart(assign[r], assign[s])
  /\ \A r \in ListReq : ListOk(listing[r])

CommunityInv == TypeOK /\ RequestsInv

(* Nothing is stored and no request has arrived at the start.              *)
LEMMA InitCommunityInv == Init => CommunityInv
<1> SUFFICES ASSUME Init PROVE CommunityInv
  OBVIOUS
<1>1. <<>> \in Seq(Unit)
  OBVIOUS
<1>2. NoRegister \in RegisterRecord
  BY <1>1 DEF NoRegister, RegisterRecord
<1>3. NoAssign \in AssignRecord
  BY DEF NoAssign, AssignRecord
<1>4. NoList \in ListRecord
  BY DEF NoList, ListRecord
<1>5. TypeOK
  BY <1>2, <1>3, <1>4 DEF Init, TypeOK
<1>6. \A r \in RegisterReq : UnitsOf(r) = {} /\ communities[r] = None
  BY DEF Init, UnitsOf
<1>7. \A r \in RegisterReq : RegisterOk(r, register[r])
  BY <1>6 DEF Init, NoRegister, RegisterOk, Whole, Absent, Inserting
<1>8. \A r, s \in RegisterReq : RegistersApart(register[r], register[s])
  BY DEF Init, NoRegister, RegistersApart, Inserting
<1>9. \A r \in AssignReq : AssignOk(assign[r])
  BY DEF Init, NoAssign, AssignOk, AssignSteps
<1>10. \A r, s \in AssignReq : AssignsApart(assign[r], assign[s])
  BY DEF Init, NoAssign, AssignsApart
<1>11. \A r \in ListReq : ListOk(listing[r])
  BY DEF Init, NoList, ListOk
<1> QED
  BY <1>5, <1>7, <1>8, <1>9, <1>10, <1>11 DEF CommunityInv, RequestsInv

-----------------------------------------------------------------------------
(* Lists of units *)

(* Taking the first unit of a list to the inserted ones loses none.        *)
LEMMA HeadAndTail ==
  ASSUME NEW s \in Seq(Unit), s # <<>>
  PROVE  /\ Head(s) \in Unit /\ Tail(s) \in Seq(Unit)
         /\ ToSet(s) = {Head(s)} \cup ToSet(Tail(s))
<1>1. Head(s) \in Unit /\ Tail(s) \in Seq(Unit)
  OBVIOUS
<1>2. /\ Len(s) \in Nat \ {0} /\ DOMAIN s = 1 .. Len(s) /\ Head(s) = s[1]
      /\ DOMAIN Tail(s) = 1 .. (Len(s) - 1)
      /\ \A i \in 1 .. (Len(s) - 1) : Tail(s)[i] = s[i + 1]
  OBVIOUS
<1>3. ToSet(s) = {s[i] : i \in 1 .. Len(s)}
  BY <1>2 DEF ToSet
<1>4. ToSet(Tail(s)) = {s[i + 1] : i \in 1 .. (Len(s) - 1)}
  BY <1>2 DEF ToSet
<1>5. ASSUME NEW x \in ToSet(s) PROVE x = Head(s) \/ x \in ToSet(Tail(s))
  <2>1. PICK i \in 1 .. Len(s) : x = s[i]
    BY <1>3
  <2>2. CASE i = 1
    BY <1>2, <2>1, <2>2
  <2>3. CASE i # 1
    <3>1. i - 1 \in 1 .. (Len(s) - 1) /\ (i - 1) + 1 = i
      BY <1>2, <2>1, <2>3
    <3> QED
      BY <1>4, <2>1, <3>1
  <2> QED
    BY <2>2, <2>3
<1>6. Head(s) \in ToSet(s)
  BY <1>2, <1>3
<1>7. ASSUME NEW x \in ToSet(Tail(s)) PROVE x \in ToSet(s)
  <2>1. PICK i \in 1 .. (Len(s) - 1) : x = s[i + 1]
    BY <1>4
  <2>2. i + 1 \in 1 .. Len(s)
    BY <1>2, <2>1
  <2> QED
    BY <1>3, <2>1, <2>2
<1> QED
  BY <1>1, <1>5, <1>6, <1>7

(* A list that is done has no unit left.                                   *)
LEMMA NothingLeft == ToSet(<<>>) = {}
BY DEF ToSet

-----------------------------------------------------------------------------
(* Steps that store nothing *)

(* A step of one registration that stores nothing.                         *)
LEMMA RegisterFrame ==
  ASSUME TypeOK, RequestsInv, NEW r \in RegisterReq, NEW q \in RegisterRecord,
         register' = [register EXCEPT ![r] = q],
         UNCHANGED <<communities, units, assign, listing>>,
         RegisterOk(r, q), \A s \in RegisterReq \ {r} : RegistersApart(q, register[s])
  PROVE  RequestsInv' /\ register' \in [RegisterReq -> RegisterRecord]
<1>1. \A s \in RegisterReq : register'[s] = IF s = r THEN q ELSE register[s]
  BY DEF TypeOK
<1>2. \A s \in RegisterReq : RegisterOk(s, register'[s])
  BY <1>1 DEF RequestsInv
<1>3. \A s \in RegisterReq : RegisterOk(s, register[s])'
  BY <1>2 DEF RegisterOk, Whole, Absent, Taken, UnitsOf
<1>4. \A s, t \in RegisterReq : s # t => RegistersApart(register'[s], register'[t])
  <2>1. \A s \in RegisterReq \ {r} : RegistersApart(register[s], q)
    BY DEF RegistersApart
  <2> QED
    BY <1>1, <2>1 DEF RequestsInv
<1>5. /\ \A s \in AssignReq : AssignOk(assign[s])'
      /\ \A s, t \in AssignReq : s # t => AssignsApart(assign[s], assign[t])'
      /\ \A s \in ListReq : ListOk(listing[s])'
  BY DEF RequestsInv, AssignOk, AsRead, AssignsApart, ListOk, UnitsOf, UnitsOwnedBy
<1>6. register' \in [RegisterReq -> RegisterRecord]
  BY DEF TypeOK
<1> QED
  BY <1>3, <1>4, <1>5, <1>6 DEF RequestsInv, RegistersApart

(* A step of one assignment that stores nothing.                           *)
LEMMA AssignFrame ==
  ASSUME TypeOK, RequestsInv, NEW r \in AssignReq, NEW q \in AssignRecord,
         assign' = [assign EXCEPT ![r] = q],
         UNCHANGED <<communities, units, register, listing>>,
         AssignOk(q), \A s \in AssignReq \ {r} : AssignsApart(q, assign[s])
  PROVE  RequestsInv' /\ assign' \in [AssignReq -> AssignRecord]
<1>1. \A s \in AssignReq : assign'[s] = IF s = r THEN q ELSE assign[s]
  BY DEF TypeOK
<1>2. \A s \in AssignReq : AssignOk(assign'[s])
  BY <1>1 DEF RequestsInv
<1>3. \A s \in AssignReq : AssignOk(assign[s])'
  BY <1>2 DEF AssignOk, AsRead, UnitsOf
<1>4. \A s, t \in AssignReq : s # t => AssignsApart(assign'[s], assign'[t])
  BY <1>1 DEF RequestsInv, AssignsApart
<1>5. /\ \A s \in RegisterReq : RegisterOk(s, register[s])'
      /\ \A s, t \in RegisterReq : s # t => RegistersApart(register[s], register[t])'
      /\ \A s \in ListReq : ListOk(listing[s])'
  BY DEF RequestsInv, RegisterOk, Whole, Absent, Taken, RegistersApart, ListOk, UnitsOf,
         UnitsOwnedBy
<1>6. assign' \in [AssignReq -> AssignRecord]
  BY DEF TypeOK
<1> QED
  BY <1>3, <1>4, <1>5, <1>6 DEF RequestsInv, AssignsApart

(* A step of one list.                                                     *)
LEMMA ListFrame ==
  ASSUME TypeOK, RequestsInv, NEW r \in ListReq, NEW q \in ListRecord,
         listing' = [listing EXCEPT ![r] = q],
         UNCHANGED <<communities, units, register, assign>>, ListOk(q)
  PROVE  RequestsInv' /\ listing' \in [ListReq -> ListRecord]
<1>1. \A s \in ListReq : listing'[s] = IF s = r THEN q ELSE listing[s]
  BY DEF TypeOK
<1>2. \A s \in ListReq : ListOk(listing'[s])
  BY <1>1 DEF RequestsInv
<1>3. \A s \in ListReq : ListOk(listing[s])'
  BY <1>2 DEF ListOk, UnitsOwnedBy
<1>4. /\ \A s \in RegisterReq : RegisterOk(s, register[s])'
      /\ \A s, t \in RegisterReq : s # t => RegistersApart(register[s], register[t])'
      /\ \A s \in AssignReq : AssignOk(assign[s])'
      /\ \A s, t \in AssignReq : s # t => AssignsApart(assign[s], assign[t])'
  BY DEF RequestsInv, RegisterOk, Whole, Absent, Taken, RegistersApart, AssignOk, AsRead,
         AssignsApart, UnitsOf
<1>5. listing' \in [ListReq -> ListRecord]
  BY DEF TypeOK
<1> QED
  BY <1>3, <1>4, <1>5 DEF RequestsInv

(* Nothing changes but what requests do not read.                          *)
LEMMA RequestsStutter ==
  ASSUME RequestsInv, UNCHANGED <<communities, units, register, assign, listing>>
  PROVE  RequestsInv'
BY DEF RequestsInv, RegisterOk, Whole, Absent, Taken, RegistersApart, AssignOk, AsRead,
       AssignsApart, ListOk, UnitsOf, UnitsOwnedBy

(* A registration moves: it takes its CIF and its units one by one, none   *)
(* of which another open transaction or a stored row has.                  *)
LEMMA RegisterStep ==
  ASSUME TypeOK, RequestsInv, NEW r \in RegisterReq,
         RegisterProgress(r) \/ RegisterLost(r), ~RegisterCommit(r)
  PROVE  RequestsInv' /\ register' \in [RegisterReq -> RegisterRecord]
<1> DEFINE Goal == RequestsInv' /\ register' \in [RegisterReq -> RegisterRecord]
<1> SUFFICES Goal
  OBVIOUS
<1> HIDE DEF Goal
<1>q. /\ register[r] \in RegisterRecord /\ RegisterOk(r, register[r])
      /\ \A s \in RegisterReq \ {r} : RegistersApart(register[r], register[s])
  BY DEF TypeOK, RequestsInv
<1>u. UNCHANGED <<communities, units, assign, listing>>
  BY DEF RegisterProgress, RegisterCheckCif, RegisterInsertCommunity, RegisterInsertUnit,
         RegisterUnitsDone, RegisterDeadlocked, RegisterRespond, RegisterLost, store
<1>e. ASSUME NEW e \in RegisterEnds \ {"Registered"}, RegisterEnd(r, e),
             e # "Lost" => register[r].pc \notin {"committed", "Registered", "Lost"},
             e = "DuplicateCif" => Taken(register[r].cif)
      PROVE  Goal
  <2> DEFINE q == [register[r] EXCEPT !.pc = e, !.todo = <<>>, !.inserted = {}]
  <2>1. register' = [register EXCEPT ![r] = q]
    BY <1>e DEF RegisterEnd
  <2>2. /\ q \in RegisterRecord /\ q.pc = e /\ q.list = register[r].list
        /\ q.owners = register[r].owners /\ q.cif = register[r].cif
        /\ q.inserted = {}
    <3>1. <<>> \in Seq(Unit)
      OBVIOUS
    <3> QED
      BY <1>q, <3>1 DEF RegisterRecord
  <2> HIDE DEF q
  <2>3. RegisterOk(r, q)
    BY <1>e, <1>q, <2>2 DEF RegisterOk, Whole, RegisterEnds, Inserting
  <2>4. \A s \in RegisterReq \ {r} : RegistersApart(q, register[s])
    BY <1>e, <2>2 DEF RegistersApart, RegisterEnds, Inserting
  <2> QED
    BY <1>u, <2>1, <2>2, <2>3, <2>4, RegisterFrame DEF Goal
<1>m. ASSUME NEW q \in RegisterRecord, register' = [register EXCEPT ![r] = q], RegisterOk(r, q),
             \A s \in RegisterReq \ {r} : RegistersApart(q, register[s])
      PROVE  Goal
  BY <1>m, <1>u, RegisterFrame DEF Goal
<1>1. CASE RegisterCheckCif(r)
  <2> DEFINE q == [register[r] EXCEPT !.pc = "insertCommunity"]
  <2>1. register[r].pc = "checkCif"
    BY <1>1 DEF RegisterCheckCif
  <2>2. \/ Taken(register[r].cif) /\ RegisterEnd(r, "DuplicateCif")
        \/ RegisterEnd(r, "Invalid")
        \/ register' = [register EXCEPT ![r] = q]
    BY <1>1 DEF RegisterCheckCif, RegisterGo
  <2>3. q \in RegisterRecord /\ RegisterOk(r, q)
    BY <1>q, <2>1 DEF RegisterRecord, RegisterSteps, RegisterOk, Whole, Inserting
  <2>4. \A s \in RegisterReq \ {r} : RegistersApart(q, register[s])
    BY <1>q, <2>1 DEF RegisterRecord, RegistersApart, Inserting
  <2> HIDE DEF q
  <2> QED
    BY <1>e, <1>m, <2>1, <2>2, <2>3, <2>4 DEF RegisterEnds
<1>2. CASE RegisterInsertCommunity(r)
  <2> DEFINE q == [register[r] EXCEPT !.pc = "insertUnits"]
  <2>1. /\ register[r].pc = "insertCommunity"
        /\ \A s \in RegisterReq \ {r} : ~CifInDoubt(s, r)
    BY <1>2 DEF RegisterInsertCommunity
  <2>2. \/ Taken(register[r].cif) /\ RegisterEnd(r, "DuplicateCif")
        \/ ~Taken(register[r].cif) /\ register' = [register EXCEPT ![r] = q]
    BY <1>2 DEF RegisterInsertCommunity, RegisterGo
  <2>3. /\ q \in RegisterRecord
        /\ ~Taken(register[r].cif) => RegisterOk(r, q)
    BY <1>q, <2>1 DEF RegisterRecord, RegisterSteps, RegisterOk, Whole, Inserting
  <2>4. \A s \in RegisterReq \ {r} : RegistersApart(q, register[s])
    BY <1>q, <2>1 DEF RegisterRecord, RegistersApart, Inserting, CifInDoubt
  <2> HIDE DEF q
  <2> QED
    BY <1>e, <1>m, <2>1, <2>2, <2>3, <2>4 DEF RegisterEnds
<1>3. CASE RegisterInsertUnit(r)
  <2> DEFINE todo == register[r].todo
             u == Head(todo)
             q == [register[r] EXCEPT !.todo = Tail(todo), !.inserted = register[r].inserted \cup {u}]
  <2>1. /\ register[r].pc = "insertUnits" /\ todo # <<>>
        /\ \A s \in RegisterReq \ {r} : u \notin register[s].inserted
    BY <1>3 DEF RegisterInsertUnit, UnitInDoubt
  <2>2. \/ RegisterEnd(r, "InternalError")
        \/ units[u] = None /\ register' = [register EXCEPT ![r] = q]
    BY <1>3 DEF RegisterInsertUnit
  <2>3. /\ u \in Unit /\ Tail(todo) \in Seq(Unit)
        /\ ToSet(todo) = {u} \cup ToSet(Tail(todo))
    BY <1>q, <2>1, HeadAndTail DEF RegisterRecord
  <2>4. /\ q.pc = "insertUnits" /\ q.list = register[r].list /\ q.owners = register[r].owners
        /\ q.cif = register[r].cif /\ q.todo = Tail(todo)
        /\ q.inserted = register[r].inserted \cup {u}
    BY <1>q, <2>1 DEF RegisterRecord
  <2>5. q \in RegisterRecord
    BY <1>q, <2>3 DEF RegisterRecord
  <2> HIDE DEF q
  <2>6. units[u] = None => RegisterOk(r, q)
    <3>1. q.inserted \cup ToSet(q.todo) = ToSet(q.list)
      BY <1>q, <2>1, <2>3, <2>4 DEF RegisterOk
    <3> HIDE DEF u, todo
    <3> QED
      BY <1>q, <2>1, <2>4, <3>1 DEF RegisterOk, Whole, Inserting
  <2>7. \A s \in RegisterReq \ {r} : RegistersApart(q, register[s])
    BY <1>q, <2>1, <2>4 DEF RegistersApart, Inserting
  <2> QED
    BY <1>e, <1>m, <2>1, <2>2, <2>5, <2>6, <2>7 DEF RegisterEnds
<1>4. CASE RegisterUnitsDone(r)
  <2> DEFINE q == [register[r] EXCEPT !.pc = "commit"]
  <2>1. /\ register[r].pc = "insertUnits" /\ register[r].todo = <<>>
        /\ register' = [register EXCEPT ![r] = q]
    BY <1>4 DEF RegisterUnitsDone, RegisterGo
  <2>2. q \in RegisterRecord /\ RegisterOk(r, q)
    BY <1>q, <2>1 DEF RegisterRecord, RegisterSteps, RegisterOk, Whole, Inserting
  <2>3. \A s \in RegisterReq \ {r} : RegistersApart(q, register[s])
    BY <1>q, <2>1 DEF RegisterRecord, RegistersApart, Inserting
  <2> HIDE DEF q
  <2> QED
    BY <1>m, <2>1, <2>2, <2>3
<1>5. CASE RegisterDeadlocked(r)
  <2>1. PICK W \in SUBSET RegisterReq : r \in W /\ \A x \in W : \E y \in W : WaitsFor(x, y)
    BY <1>5 DEF RegisterDeadlocked, InDeadlock
  <2>2. register[r].pc = "insertUnits"
    BY <2>1 DEF WaitsFor
  <2> QED
    BY <1>5, <1>e, <2>2 DEF RegisterDeadlocked, RegisterEnds
<1>6. CASE RegisterRespond(r)
  <2> DEFINE q == [register[r] EXCEPT !.pc = "Registered"]
  <2>1. register[r].pc = "committed" /\ register' = [register EXCEPT ![r] = q]
    BY <1>6 DEF RegisterRespond, RegisterGo
  <2>2. q \in RegisterRecord /\ RegisterOk(r, q)
    BY <1>q, <2>1 DEF RegisterRecord, RegisterEnds, RegisterOk, Whole, Inserting
  <2>3. \A s \in RegisterReq \ {r} : RegistersApart(q, register[s])
    BY <1>q, <2>1 DEF RegisterRecord, RegistersApart, Inserting
  <2> HIDE DEF q
  <2> QED
    BY <1>m, <2>1, <2>2, <2>3
<1>7. CASE RegisterLost(r)
  BY <1>7, <1>e DEF RegisterLost, RegisterEnds
<1> QED
  BY <1>1, <1>2, <1>3, <1>4, <1>5, <1>6, <1>7 DEF RegisterProgress

(* An assignment moves: it reads the aggregate in two statements, and its  *)
(* save locks the community's row at the version that was read.            *)
LEMMA AssignStep ==
  ASSUME TypeOK, RequestsInv, NEW r \in AssignReq,
         AssignProgress(r) \/ AssignLost(r), ~AssignCommit(r)
  PROVE  RequestsInv' /\ assign' \in [AssignReq -> AssignRecord]
<1> DEFINE Goal == RequestsInv' /\ assign' \in [AssignReq -> AssignRecord]
<1> SUFFICES Goal
  OBVIOUS
<1> HIDE DEF Goal
<1>q. /\ assign[r] \in AssignRecord /\ AssignOk(assign[r])
      /\ \A s \in AssignReq \ {r} : AssignsApart(assign[r], assign[s])
  BY DEF TypeOK, RequestsInv
<1>u. UNCHANGED <<communities, units, register, listing>>
  BY DEF AssignProgress, AssignGetCommunity, AssignGetUnits, AssignGetOwner, AssignSave,
         AssignReplaceUnits, AssignRespond, AssignLost, store
<1>m. ASSUME NEW q \in AssignRecord, assign' = [assign EXCEPT ![r] = q], AssignOk(q),
             \A s \in AssignReq \ {r} : AssignsApart(q, assign[s])
      PROVE  Goal
  BY <1>m, <1>u, AssignFrame DEF Goal
<1>e. ASSUME NEW e \in AssignEnds \ {"Assigned"}, AssignEnd(r, e) PROVE Goal
  <2> DEFINE q == [NoAssign EXCEPT !.pc = e]
  <2>1. assign' = [assign EXCEPT ![r] = q]
    BY <1>e DEF AssignEnd
  <2>2. q \in AssignRecord /\ q.pc = e
    BY DEF NoAssign, AssignRecord
  <2> HIDE DEF q
  <2>3. AssignOk(q) /\ \A s \in AssignReq \ {r} : AssignsApart(q, assign[s])
    BY <1>e, <2>2 DEF AssignOk, AssignsApart, AssignEnds, AssignSteps
  <2> QED
    BY <1>m, <2>1, <2>2, <2>3
<1>1. CASE AssignGetCommunity(r)
  <2> DEFINE row == communities[assign[r].community]
             q == [assign[r] EXCEPT !.pc = "getUnits", !.version = row.version]
  <2>1. assign[r].pc = "getCommunity"
    BY <1>1 DEF AssignGetCommunity
  <2>2. \/ AssignEnd(r, "CommunityNotFound")
        \/ row # None /\ assign' = [assign EXCEPT ![r] = q]
    BY <1>1 DEF AssignGetCommunity
  <2>3. ASSUME row # None PROVE q \in AssignRecord /\ AssignOk(q) /\ q.pc = "getUnits"
    <3>1. assign[r].community \in RegisterReq /\ row \in CommunityRow
      BY <1>q, <2>1, <2>3 DEF AssignOk, AssignSteps, TypeOK
    <3>2. row.version \in Nat
      BY <3>1 DEF CommunityRow
    <3>3. /\ q \in AssignRecord /\ q.pc = "getUnits" /\ q.community = assign[r].community
          /\ q.unit = assign[r].unit /\ q.owner = assign[r].owner /\ q.version = row.version
      BY <1>q, <3>2 DEF AssignRecord, AssignSteps
    <3> HIDE DEF q
    <3>4. AssignOk(q)
      BY <1>q, <2>1, <2>3, <3>1, <3>2, <3>3 DEF AssignSteps, AssignOk
    <3> QED
      BY <3>3, <3>4
  <2> HIDE DEF q
  <2>4. row # None => \A s \in AssignReq \ {r} : AssignsApart(q, assign[s])
    BY <2>3 DEF AssignsApart
  <2> QED
    BY <1>e, <1>m, <2>2, <2>3, <2>4 DEF AssignEnds
<1>2. CASE AssignGetUnits(r)
  <2> DEFINE c == assign[r].community
             os == [u \in Unit |-> IF u \in UnitsOf(c) THEN units[u].owners ELSE {}]
             q == [assign[r] EXCEPT !.pc = "getOwner", !.members = UnitsOf(c), !.owners = os]
  <2>1. assign[r].pc = "getUnits" /\ assign' = [assign EXCEPT ![r] = q]
    BY <1>2 DEF AssignGetUnits
  <2>2. os \in [Unit -> SUBSET Owner] /\ UnitsOf(c) \subseteq Unit
    BY DEF UnitsOf, TypeOK, UnitRow
  <2>3. q \in AssignRecord
    BY <1>q, <2>2 DEF AssignRecord, AssignSteps
  <2>4. /\ q.pc = "getOwner" /\ q.community = c /\ q.unit = assign[r].unit
        /\ q.owner = assign[r].owner /\ q.version = assign[r].version
        /\ q.members = UnitsOf(c) /\ q.owners = os
    BY <1>q DEF AssignRecord
  <2>5. AsRead(q)
    BY <2>2, <2>4 DEF AsRead
  <2> HIDE DEF q, os
  <2>6. AssignOk(q)
    BY <1>q, <2>1, <2>4, <2>5 DEF AssignOk, AssignSteps
  <2>7. \A s \in AssignReq \ {r} : AssignsApart(q, assign[s])
    BY <2>4 DEF AssignsApart
  <2> QED
    BY <1>m, <2>1, <2>3, <2>6, <2>7
<1>3. CASE AssignGetOwner(r)
  <2> DEFINE q == [assign[r] EXCEPT !.pc = "save"]
  <2>1. assign[r].pc = "getOwner"
    BY <1>3 DEF AssignGetOwner
  <2>2. \/ \E e \in AssignEnds \ {"Assigned"} : AssignEnd(r, e)
        \/ /\ assign[r].unit \in assign[r].members
           /\ assign[r].owner \notin assign[r].owners[assign[r].unit]
           /\ assign' = [assign EXCEPT ![r] = q]
    BY <1>3 DEF AssignGetOwner, AssignGo, AssignEnds
  <2>3. /\ q \in AssignRecord /\ q.pc = "save"
        /\ (/\ assign[r].unit \in assign[r].members
            /\ assign[r].owner \notin assign[r].owners[assign[r].unit]) => AssignOk(q)
    BY <1>q, <2>1 DEF AssignRecord, AssignSteps, AssignOk, AsRead
  <2> HIDE DEF q
  <2>4. \A s \in AssignReq \ {r} : AssignsApart(q, assign[s])
    BY <2>3 DEF AssignsApart
  <2> QED
    BY <1>e, <1>m, <2>2, <2>3, <2>4
<1>4. CASE AssignSave(r)
  <2> DEFINE q == [assign[r] EXCEPT !.pc = "replaceUnits"]
  <2>1. /\ assign[r].pc = "save"
        /\ \A s \in AssignReq \ {r} : ~RowLocked(s, assign[r].community)
    BY <1>4 DEF AssignSave
  <2>2. \/ AssignEnd(r, "ConcurrentModification")
        \/ VersionMatches(r) /\ assign' = [assign EXCEPT ![r] = q]
    BY <1>4 DEF AssignSave, AssignGo
  <2>3. /\ q \in AssignRecord /\ q.pc = "replaceUnits" /\ q.community = assign[r].community
        /\ VersionMatches(r) => AssignOk(q)
    BY <1>q, <2>1 DEF AssignRecord, AssignSteps, AssignOk, AsRead, VersionMatches
  <2> HIDE DEF q
  <2>4. \A s \in AssignReq \ {r} : AssignsApart(q, assign[s])
    BY <2>1, <2>3 DEF AssignsApart, RowLocked
  <2> QED
    BY <1>e, <1>m, <2>2, <2>3, <2>4 DEF AssignEnds
<1>5. CASE AssignReplaceUnits(r)
  <2> DEFINE q == [assign[r] EXCEPT !.pc = "commit"]
  <2>1. assign[r].pc = "replaceUnits" /\ assign' = [assign EXCEPT ![r] = q]
    BY <1>5 DEF AssignReplaceUnits, AssignGo
  <2>2. /\ q \in AssignRecord /\ q.pc = "commit" /\ q.community = assign[r].community
        /\ AssignOk(q)
    BY <1>q, <2>1 DEF AssignRecord, AssignSteps, AssignOk, AsRead
  <2> HIDE DEF q
  <2>3. \A s \in AssignReq \ {r} : AssignsApart(q, assign[s])
    BY <1>q, <2>1, <2>2 DEF AssignsApart
  <2> QED
    BY <1>m, <2>1, <2>2, <2>3
<1>6. CASE AssignRespond(r)
  <2> DEFINE q == [assign[r] EXCEPT !.pc = "Assigned"]
  <2>1. assign[r].pc = "committed" /\ assign' = [assign EXCEPT ![r] = q]
    BY <1>6 DEF AssignRespond, AssignGo
  <2>2. q \in AssignRecord /\ q.pc = "Assigned" /\ AssignOk(q)
    BY <1>q, <2>1 DEF AssignRecord, AssignEnds, AssignSteps, AssignOk, AsRead
  <2> HIDE DEF q
  <2>3. \A s \in AssignReq \ {r} : AssignsApart(q, assign[s])
    BY <2>2 DEF AssignsApart
  <2> QED
    BY <1>m, <2>1, <2>2, <2>3
<1>7. CASE AssignLost(r)
  BY <1>7, <1>e DEF AssignLost, AssignEnds
<1> QED
  BY <1>1, <1>2, <1>3, <1>4, <1>5, <1>6, <1>7 DEF AssignProgress

(* A list of units moves.                                                  *)
LEMMA ListStep ==
  ASSUME TypeOK, RequestsInv, NEW r \in ListReq,
         ListFindCommunities(r) \/ ListGetUnits(r) \/ ListLost(r)
  PROVE  RequestsInv' /\ listing' \in [ListReq -> ListRecord]
<1>q. listing[r] \in ListRecord /\ ListOk(listing[r])
  BY DEF TypeOK, RequestsInv
<1>u. UNCHANGED <<communities, units, register, assign>>
  BY DEF ListFindCommunities, ListGetUnits, ListLost, store
<1>1. CASE ListFindCommunities(r)
  <2> DEFINE o == listing[r].owner
             cs == {units[u].community : u \in UnitsOwnedBy(o)}
             q == [listing[r] EXCEPT !.pc = "getUnits", !.communities = cs]
  <2>1. listing[r].pc = "findCommunities" /\ listing' = [listing EXCEPT ![r] = q]
    BY <1>1 DEF ListFindCommunities
  <2>2. cs \subseteq RegisterReq
    BY DEF UnitsOwnedBy, TypeOK, UnitRow
  <2>3. /\ q \in ListRecord /\ q.pc = "getUnits" /\ q.communities = cs /\ q.owner = o
        /\ q.due = listing[r].due /\ q.shown = listing[r].shown
    BY <1>q, <2>2 DEF ListRecord
  <2> HIDE DEF q
  <2>4. ListOk(q)
    BY <1>q, <2>3 DEF ListOk
  <2> QED
    BY <1>u, <2>1, <2>3, <2>4, ListFrame
<1>2. CASE ListGetUnits(r)
  <2> DEFINE o == listing[r].owner
             us == {u \in UnitsOwnedBy(o) : units[u].community \in listing[r].communities}
             q == [listing[r] EXCEPT !.pc = "Listed", !.shown = us]
  <2>1. listing[r].pc = "getUnits" /\ listing' = [listing EXCEPT ![r] = q]
    BY <1>2 DEF ListGetUnits
  <2>2. us \subseteq Unit
    BY DEF UnitsOwnedBy
  <2>3. /\ q \in ListRecord /\ q.pc = "Listed" /\ q.shown = us /\ q.owner = o
        /\ q.due = listing[r].due
    BY <1>q, <2>2 DEF ListRecord
  <2> HIDE DEF q
  <2>4. ListOk(q)
    BY <1>q, <2>1, <2>3 DEF ListOk
  <2> QED
    BY <1>u, <2>1, <2>3, <2>4, ListFrame
<1>3. CASE ListLost(r)
  <2> DEFINE q == [NoList EXCEPT !.pc = "Lost"]
  <2>1. listing' = [listing EXCEPT ![r] = q]
    BY <1>3 DEF ListLost
  <2>2. q \in ListRecord /\ q.pc = "Lost" /\ q.due = {} /\ q.shown = {}
    BY DEF NoList, ListRecord
  <2> HIDE DEF q
  <2>3. ListOk(q)
    BY <2>2 DEF ListOk
  <2> QED
    BY <1>u, <2>1, <2>2, <2>3, ListFrame
<1> QED
  BY <1>1, <1>2, <1>3

-----------------------------------------------------------------------------
(* The two commits *)

(* A registration stores its community and all the units of its list, none *)
(* of which had a row.                                                     *)
LEMMA RegisterCommitRows ==
  ASSUME TypeOK, RequestsInv, NEW r \in RegisterReq, RegisterCommit(r)
  PROVE  LET q == register[r] IN
         /\ q.inserted = ToSet(q.list) /\ q.inserted \subseteq Unit /\ q.owners \subseteq Owner
         /\ communities[r] = None /\ communities'[r] # None /\ communities'[r].cif = q.cif
         /\ q.cif \in Cif /\ ~Taken(q.cif)
         /\ \A c \in RegisterReq \ {r} : communities'[c] = communities[c]
         /\ \A u \in q.inserted : /\ units[u] = None /\ units'[u] # None
                                  /\ units'[u] = [community |-> r, owners |-> q.owners]
                                  /\ units'[u].owners = q.owners
         /\ \A u \in Unit \ q.inserted : units'[u] = units[u]
         /\ UnitsOf(r)' = q.inserted
         /\ \A c \in RegisterReq \ {r} : UnitsOf(c)' = UnitsOf(c)
         /\ communities' \in [RegisterReq -> CommunityRow \cup {None}]
         /\ units' \in [Unit -> UnitRow \cup {None}]
<1> DEFINE q == register[r]
           row == [cif |-> q.cif, version |-> 1]
<1>1. /\ q.pc = "commit" /\ q \in RegisterRecord /\ RegisterOk(r, q)
      /\ communities' = [communities EXCEPT ![r] = row]
      /\ units' = [u \in Unit |-> IF u \in q.inserted
                                  THEN [community |-> r, owners |-> q.owners] ELSE units[u]]
  BY DEF RegisterCommit, TypeOK, RequestsInv
<1>2. /\ q.inserted = ToSet(q.list) /\ q.cif \in Cif /\ ~Taken(q.cif) /\ Absent(r)
      /\ \A u \in q.inserted : units[u] = None
  BY <1>1, NothingLeft DEF RegisterOk, Inserting
<1>3. q.inserted \subseteq Unit /\ q.owners \subseteq Owner
  BY <1>1 DEF RegisterRecord
<1>4. row \in CommunityRow /\ row # None /\ row.cif = q.cif
  BY <1>2, NoneAssumption DEF CommunityRow
<1>5. [community |-> r, owners |-> q.owners] \in UnitRow
  BY <1>3 DEF UnitRow
<1> HIDE DEF q, row
<1>6. /\ communities[r] = None /\ communities'[r] = row
      /\ \A c \in RegisterReq \ {r} : communities'[c] = communities[c]
      /\ communities' \in [RegisterReq -> CommunityRow \cup {None}]
  BY <1>1, <1>2, <1>4 DEF TypeOK, Absent
<1>7. /\ \A u \in q.inserted : units'[u] = [community |-> r, owners |-> q.owners] /\ units'[u] # None
      /\ \A u \in Unit \ q.inserted : units'[u] = units[u]
  BY <1>1, <1>3, <1>5, NoneAssumption
<1>8. units' \in [Unit -> UnitRow \cup {None}]
  BY <1>1, <1>5 DEF TypeOK
<1>9. UnitsOf(r)' = q.inserted
  <2>1. \A u \in Unit \ q.inserted : units[u] = None \/ units[u].community # r
    BY <1>2 DEF Absent, UnitsOf
  <2> QED
    BY <1>3, <1>7, <2>1 DEF UnitsOf
<1>10. \A c \in RegisterReq \ {r} : UnitsOf(c)' = UnitsOf(c)
  BY <1>2, <1>3, <1>7 DEF UnitsOf
<1> QED
  BY <1>2, <1>3, <1>4, <1>6, <1>7, <1>8, <1>9, <1>10 DEF q

LEMMA RegisterCommitInv ==
  ASSUME TypeOK, RequestsInv, NEW r \in RegisterReq, RegisterCommit(r)
  PROVE  RequestsInv' /\ register' \in [RegisterReq -> RegisterRecord]
<1> DEFINE q == register[r]
           p == [q EXCEPT !.pc = "committed", !.inserted = {}]
           ins == q.inserted
           f == q.cif
<1>1. /\ q.pc = "commit" /\ q \in RegisterRecord /\ RegisterOk(r, q)
      /\ register' = [register EXCEPT ![r] = p] /\ UNCHANGED <<assign, listing>>
  BY DEF RegisterCommit, TypeOK, RequestsInv
<1>2. /\ p \in RegisterRecord /\ p.pc = "committed" /\ p.inserted = {} /\ p.list = q.list
      /\ p.owners = q.owners /\ p.cif = q.cif
  BY <1>1 DEF RegisterRecord, RegisterSteps
<1> HIDE DEF p
<1>3. /\ register'[r] = p /\ \A s \in RegisterReq \ {r} : register'[s] = register[s]
      /\ register' \in [RegisterReq -> RegisterRecord]
  BY <1>1, <1>2 DEF TypeOK
<1>c. ins = ToSet(q.list) /\ ins \subseteq Unit /\ UnitsOf(r)' = ins
  BY RegisterCommitRows
<1>4. /\ communities[r] = None /\ communities'[r] # None /\ communities'[r].cif = f
      /\ \A c \in RegisterReq \ {r} : communities'[c] = communities[c]
      /\ \A u \in ins : units[u] = None /\ units'[u] # None /\ units'[u].owners = q.owners
      /\ \A u \in Unit \ ins : units'[u] = units[u]
      /\ \A c \in RegisterReq \ {r} : UnitsOf(c)' = UnitsOf(c)
  BY ZenonT(30), RegisterCommitRows
<1>5. \A s \in RegisterReq \ {r} : RegistersApart(register[s], q)
  BY DEF RequestsInv
<1> HIDE DEF ins, f
<1>6. \A x : Taken(x)' <=> (Taken(x) \/ x = f)
  BY <1>4 DEF Taken
<1>7. ASSUME NEW s \in RegisterReq PROVE RegisterOk(s, register[s])'
  <2>1. CASE s = r
    <3>1. Whole(r, register[r])'
      BY <1>2, <1>3, <1>4, <1>c DEF Whole
    <3> QED
      BY <1>2, <1>3, <2>1, <3>1 DEF RegisterOk, Inserting
  <2>2. CASE s # r
    <3>1. /\ RegisterOk(s, register[s]) /\ register'[s] = register[s]
          /\ communities'[s] = communities[s] /\ UnitsOf(s)' = UnitsOf(s)
          /\ register[s] \in RegisterRecord
      BY <1>3, <1>4, <2>2 DEF RequestsInv, TypeOK
    <3>2. /\ register[s].pc \in Inserting => register[s].cif # f
          /\ register[s].inserted \cap ins = {} /\ register[s].inserted \subseteq Unit
      BY <1>1, <1>5, <2>2, <3>1 DEF RegistersApart, Inserting, RegisterRecord, f, ins
    <3>3. \A u \in register[s].inserted : units'[u] = units[u]
      BY <1>4, <3>2
    <3>4. \A u \in UnitsOf(s) : units'[u] = units[u]
      BY <1>4, <1>c DEF UnitsOf
    <3>5. /\ Whole(s, register[s])' <=> Whole(s, register[s])
          /\ Absent(s)' <=> Absent(s)
      BY <3>1, <3>4 DEF Whole, Absent
    <3> QED
      BY <1>6, <3>1, <3>2, <3>3, <3>5 DEF RegisterOk, Inserting
  <2> QED
    BY <2>1, <2>2
<1>8. \A s, t \in RegisterReq : s # t => RegistersApart(register[s], register[t])'
  <2>1. \A s \in RegisterReq \ {r} : /\ RegistersApart(p, register[s])
                                     /\ RegistersApart(register[s], p)
    BY <1>2 DEF RegistersApart, Inserting
  <2>2. \A s, t \in RegisterReq : s # t => RegistersApart(register'[s], register'[t])
    BY <1>3, <2>1 DEF RequestsInv
  <2> QED
    BY <2>2 DEF RegistersApart, Inserting
<1>9. ASSUME NEW s \in AssignReq PROVE AssignOk(assign[s])'
  <2> DEFINE c == assign[s].community
  <2>1. AssignOk(assign[s]) /\ assign'[s] = assign[s]
    BY <1>1 DEF RequestsInv
  <2>2. assign[s].pc \in AssignSteps \ {"getCommunity"} =>
          /\ communities'[c] = communities[c]
          /\ UnitsOf(c)' = UnitsOf(c)
          /\ \A u \in UnitsOf(c) : units'[u] = units[u]
    BY <1>4, <2>1 DEF AssignOk, UnitsOf
  <2>3. assign[s].pc \in {"getOwner", "save", "replaceUnits", "commit"} =>
          (AsRead(assign[s])' <=> AsRead(assign[s]))
    BY <2>1, <2>2 DEF AsRead, AssignSteps
  <2>4. assign[s].pc \in {"committed", "Assigned"} =>
          assign[s].unit \in UnitsOf(c)' /\ assign[s].owner \in units'[assign[s].unit].owners
    BY <1>4, <2>1 DEF AssignOk, UnitsOf
  <2> QED
    BY <2>1, <2>2, <2>3, <2>4 DEF AssignOk, AssignSteps
<1>10. \A s, t \in AssignReq : s # t => AssignsApart(assign[s], assign[t])'
  BY <1>1 DEF RequestsInv, AssignsApart
<1>11. ASSUME NEW s \in ListReq PROVE ListOk(listing[s])'
  <2>1. ListOk(listing[s]) /\ listing'[s] = listing[s]
    BY <1>1 DEF RequestsInv
  <2>2. \A o : /\ UnitsOwnedBy(o) \subseteq UnitsOwnedBy(o)'
               /\ \A u \in UnitsOwnedBy(o) : units'[u] = units[u]
    BY <1>4 DEF UnitsOwnedBy
  <2> QED
    BY <2>1, <2>2 DEF ListOk
<1> QED
  BY <1>3, <1>7, <1>8, <1>9, <1>10, <1>11 DEF RequestsInv

(* An assignment rewrites every unit of its community as it is, but for    *)
(* the owner it adds.                                                      *)
LEMMA AssignCommitRows ==
  ASSUME TypeOK, RequestsInv, NEW r \in AssignReq, AssignCommit(r)
  PROVE  LET q == assign[r] IN
         /\ q.community \in RegisterReq /\ q.unit \in UnitsOf(q.community) /\ q.owner \in Owner
         /\ q.owner \notin units[q.unit].owners
         /\ communities[q.community] # None /\ communities'[q.community] # None
         /\ communities'[q.community].cif = communities[q.community].cif
         /\ communities[q.community].version \in Nat
         /\ communities'[q.community].version = communities[q.community].version + 1
         /\ \A c \in RegisterReq \ {q.community} : communities'[c] = communities[c]
         /\ \A u \in Unit : /\ units'[u] = None <=> units[u] = None
                            /\ units[u] # None =>
                                 /\ units'[u].community = units[u].community
                                 /\ units'[u].owners = units[u].owners \cup
                                      (IF u = q.unit THEN {q.owner} ELSE {})
                            /\ units[u] # None /\ units[u].community # q.community
                                 => units'[u] = units[u]
         /\ communities' \in [RegisterReq -> CommunityRow \cup {None}]
         /\ units' \in [Unit -> UnitRow \cup {None}]
<1> DEFINE q == assign[r]
           c == q.community
           row == [communities[c] EXCEPT !.version = q.version + 1]
<1>1. /\ q.pc = "commit" /\ q \in AssignRecord /\ AssignOk(q)
      /\ communities' = [communities EXCEPT ![c].version = q.version + 1]
      /\ units' = [u \in Unit |->
            IF u \in q.members THEN [community |-> c, owners |-> UpdatedOwners(r, u)]
            ELSE IF u \in UnitsOf(c) THEN None ELSE units[u]]
  BY DEF AssignCommit, AssignGo, TypeOK, RequestsInv
<1>2. /\ c \in RegisterReq /\ q.unit \in q.members /\ q.owner \in Owner
      /\ q.owner \notin q.owners[q.unit]
      /\ communities[c] \in CommunityRow /\ q.version = communities[c].version /\ AsRead(q)
  BY <1>1 DEF AssignOk, AssignSteps, TypeOK
<1>3. /\ row \in CommunityRow /\ row.cif = communities[c].cif
      /\ row.version = communities[c].version + 1 /\ communities[c].version \in Nat
  BY <1>2 DEF CommunityRow
<1>4. communities' = [communities EXCEPT ![c] = row]
  BY <1>1
<1> HIDE DEF row
<1>5. /\ communities'[c] = row /\ row # None /\ communities[c] # None
      /\ \A d \in RegisterReq \ {c} : communities'[d] = communities[d]
      /\ communities' \in [RegisterReq -> CommunityRow \cup {None}]
  BY <1>2, <1>3, <1>4, NoneAssumption DEF TypeOK
<1>6. q.members = UnitsOf(c) /\ \A u \in UnitsOf(c) : q.owners[u] = units[u].owners
  BY <1>2 DEF AsRead
<1>7. ASSUME NEW u \in UnitsOf(c)
      PROVE  /\ u \in Unit /\ units[u] \in UnitRow /\ units[u].community = c
             /\ units'[u] = [community |-> c, owners |-> units[u].owners \cup
                               (IF u = q.unit THEN {q.owner} ELSE {})]
             /\ units'[u] \in UnitRow
             /\ units'[u].community = c
             /\ units'[u].owners = units[u].owners \cup (IF u = q.unit THEN {q.owner} ELSE {})
  <2>1. u \in Unit /\ units[u] \in UnitRow /\ units[u].community = c
    BY DEF UnitsOf, TypeOK
  <2>2. UpdatedOwners(r, u) = units[u].owners \cup (IF u = q.unit THEN {q.owner} ELSE {})
    BY <1>6 DEF UpdatedOwners
  <2>3. units'[u] = [community |-> c, owners |-> UpdatedOwners(r, u)]
    BY <1>1, <1>6, <2>1
  <2>4. units[u].owners \cup (IF u = q.unit THEN {q.owner} ELSE {}) \in SUBSET Owner
    BY <1>2, <2>1 DEF UnitRow
  <2> HIDE DEF q, c
  <2>5. units'[u] \in UnitRow
    BY <1>2, <2>2, <2>3, <2>4 DEF UnitRow
  <2> QED
    BY <2>1, <2>2, <2>3, <2>5
<1>8. \A u \in Unit \ UnitsOf(c) : units'[u] = units[u]
  BY <1>1, <1>6
<1>9. units' \in [Unit -> UnitRow \cup {None}]
  <2>1. DOMAIN units' = Unit /\ units' = [u \in Unit |-> units'[u]]
    BY <1>1
  <2>2. \A u \in Unit : units'[u] \in UnitRow \cup {None}
    BY <1>7, <1>8 DEF TypeOK
  <2> QED
    BY <2>1, <2>2
<1>10. ASSUME NEW u \in Unit
       PROVE  /\ units'[u] = None <=> units[u] = None
              /\ units[u] # None =>
                   /\ units'[u].community = units[u].community
                   /\ units'[u].owners = units[u].owners \cup
                        (IF u = q.unit THEN {q.owner} ELSE {})
              /\ units[u] # None /\ units[u].community # c => units'[u] = units[u]
  <2>1. CASE u \in UnitsOf(c)
    BY <1>7, <2>1, NoneAssumption DEF UnitsOf
  <2>2. CASE u \notin UnitsOf(c)
    <3>1. u # q.unit /\ units'[u] = units[u]
      BY <1>2, <1>6, <1>8, <2>2
    <3>2. units[u] # None => units[u].owners \in SUBSET Owner
      BY DEF TypeOK, UnitRow
    <3> QED
      BY <3>1, <3>2
  <2> QED
    BY <2>1, <2>2
<1> QED
  BY <1>2, <1>3, <1>5, <1>6, <1>9, <1>10

LEMMA AssignCommitInv ==
  ASSUME TypeOK, RequestsInv, NEW r \in AssignReq, AssignCommit(r)
  PROVE  RequestsInv' /\ assign' \in [AssignReq -> AssignRecord]
<1> DEFINE q == assign[r]
           p == [q EXCEPT !.pc = "committed"]
           c == q.community
           u0 == q.unit
           o0 == q.owner
<1>1. /\ q.pc = "commit" /\ q \in AssignRecord /\ AssignOk(q)
      /\ assign' = [assign EXCEPT ![r] = p] /\ UNCHANGED <<register, listing>>
  BY DEF AssignCommit, AssignGo, TypeOK, RequestsInv
<1>2. /\ p \in AssignRecord /\ p.pc = "committed" /\ p.community = c /\ p.unit = u0
      /\ p.owner = o0
  BY <1>1 DEF AssignRecord, AssignSteps
<1> HIDE DEF p
<1>3. /\ assign'[r] = p /\ \A s \in AssignReq \ {r} : assign'[s] = assign[s]
      /\ assign' \in [AssignReq -> AssignRecord]
  BY <1>1, <1>2 DEF TypeOK
<1>4. /\ c \in RegisterReq /\ u0 \in UnitsOf(c) /\ o0 \in Owner
      /\ communities[c] # None /\ communities'[c] # None
      /\ communities'[c].cif = communities[c].cif
      /\ communities[c].version \in Nat
      /\ communities'[c].version = communities[c].version + 1
      /\ \A d \in RegisterReq \ {c} : communities'[d] = communities[d]
      /\ \A u \in Unit : /\ units'[u] = None <=> units[u] = None
                         /\ units[u] # None =>
                              /\ units'[u].community = units[u].community
                              /\ units'[u].owners = units[u].owners \cup
                                   (IF u = u0 THEN {o0} ELSE {})
                         /\ units[u] # None /\ units[u].community # c => units'[u] = units[u]
  BY AssignCommitRows
<1>5. \A s \in AssignReq \ {r} : AssignsApart(q, assign[s])
  BY DEF RequestsInv
<1>6. q.version = communities[c].version
  BY <1>1 DEF AssignOk
<1> HIDE DEF c, u0, o0
<1>7. /\ \A d : UnitsOf(d)' = UnitsOf(d)
      /\ \A u \in Unit : units[u] # None => units[u].owners \subseteq units'[u].owners
      /\ \A x : Taken(x)' <=> Taken(x)
      /\ \A d \in RegisterReq : communities'[d] = None <=> communities[d] = None
  <2>1. \A d \in RegisterReq : /\ communities'[d] = None <=> communities[d] = None
                               /\ communities[d] # None => communities'[d].cif = communities[d].cif
    BY <1>4
  <2>2. \A x : Taken(x)' <=> Taken(x)
    BY <2>1 DEF Taken
  <2> QED
    BY <1>4, <2>1, <2>2 DEF UnitsOf
<1>8. ASSUME NEW s \in RegisterReq PROVE RegisterOk(s, register[s])'
  <2>1. RegisterOk(s, register[s]) /\ register'[s] = register[s] /\ register[s] \in RegisterRecord
    BY <1>1 DEF RequestsInv, TypeOK
  <2>2. /\ Whole(s, register[s]) => Whole(s, register[s])'
        /\ Absent(s)' <=> Absent(s)
    BY <1>7, <2>1 DEF Whole, Absent, UnitsOf
  <2>3. \A u \in register[s].inserted : units[u] = None => units'[u] = None
    BY <1>4, <2>1 DEF RegisterRecord
  <2> QED
    BY <1>7, <2>1, <2>2, <2>3 DEF RegisterOk, Inserting
<1>9. \A s, t \in RegisterReq : s # t => RegistersApart(register[s], register[t])'
  BY <1>1 DEF RequestsInv, RegistersApart, Inserting
<1>k. ASSUME NEW x \in AssignRecord, AssignOk(x),
             x.pc \in {"replaceUnits", "commit"} => x.community # c
      PROVE  AssignOk(x)'
  <2>1. x.pc \in {"committed", "Assigned"} =>
          x.unit \in UnitsOf(x.community)' /\ x.owner \in units'[x.unit].owners
    BY <1>k, <1>7 DEF AssignOk, UnitsOf
  <2>2. x.pc \in AssignSteps \ {"getCommunity"} =>
          /\ x.community \in RegisterReq
          /\ communities[x.community] # None /\ communities'[x.community] # None
    BY <1>k, <1>7 DEF AssignOk
  <2>3. CASE x.community # c
    <3>1. x.pc \in AssignSteps => communities'[x.community] = communities[x.community]
      BY <1>k, <1>4, <2>3 DEF AssignOk
    <3>2. \A u \in UnitsOf(x.community) : units'[u] = units[u]
      BY <1>4, <2>3 DEF UnitsOf
    <3>3. AsRead(x)' <=> AsRead(x)
      BY <1>7, <3>2 DEF AsRead
    <3> QED
      BY <1>k, <2>1, <3>1, <3>3 DEF AssignOk, AssignSteps
  <2>4. CASE x.community = c
    <3>1. x.pc \in AssignSteps \ {"getCommunity", "committed"} =>
            /\ x.version <= communities'[c].version
            /\ x.version # communities'[c].version
      BY <1>k, <1>4, <2>4 DEF AssignOk, AssignRecord
    <3> QED
      BY <1>k, <2>1, <2>2, <2>4, <3>1 DEF AssignOk, AssignSteps
  <2> QED
    BY <2>3, <2>4
<1>10. ASSUME NEW s \in AssignReq PROVE AssignOk(assign[s])'
  <2>1. CASE s = r
    <3>1. /\ p.unit \in Unit /\ p.unit = u0 /\ p.owner = o0 /\ p.community = c
          /\ units'[u0] # None /\ units'[u0].community = c /\ o0 \in units'[u0].owners
      BY <1>2, <1>4 DEF UnitsOf
    <3> QED
      BY <1>2, <1>3, <1>4, <2>1, <3>1 DEF AssignOk, AssignSteps, UnitsOf
  <2>2. CASE s # r
    <3>1. PICK x \in AssignRecord : x = assign[s]
      BY DEF TypeOK
    <3>2. AssignOk(x) /\ assign'[s] = x
      BY <1>3, <2>2, <3>1 DEF RequestsInv
    <3>3. x.pc \in {"replaceUnits", "commit"} => x.community # c
      BY <1>1, <1>5, <2>2, <3>1 DEF AssignsApart, c
    <3>4. AssignOk(x)'
      BY <1>k, <3>2, <3>3
    <3> QED
      BY <3>2, <3>4 DEF AssignOk, AsRead, UnitsOf
  <2> QED
    BY <2>1, <2>2
<1>11. \A s, t \in AssignReq : s # t => AssignsApart(assign[s], assign[t])'
  <2>1. \A s, t \in AssignReq : s # t => AssignsApart(assign'[s], assign'[t])
    BY <1>2, <1>3 DEF RequestsInv, AssignsApart
  <2> QED
    BY <2>1 DEF AssignsApart
<1>12. ASSUME NEW s \in ListReq PROVE ListOk(listing[s])'
  <2>1. ListOk(listing[s]) /\ listing'[s] = listing[s]
    BY <1>1 DEF RequestsInv
  <2>2. \A o : UnitsOwnedBy(o) \subseteq UnitsOwnedBy(o)'
    BY <1>4, <1>7 DEF UnitsOwnedBy
  <2>3. \A o : \A u \in UnitsOwnedBy(o) : units'[u].community = units[u].community
    BY <1>4 DEF UnitsOwnedBy
  <2> QED
    BY <2>1, <2>2, <2>3 DEF ListOk
<1> QED
  BY <1>3, <1>8, <1>9, <1>10, <1>11, <1>12 DEF RequestsInv

-----------------------------------------------------------------------------
(* Every step *)

(* A request arrives, and has read and written nothing.                    *)
LEMMA ArrivalsInv ==
  ASSUME CommunityInv, Arrivals
  PROVE  CommunityInv'
<1>0. TypeOK /\ RequestsInv
  BY DEF CommunityInv
<1>1. ASSUME NEW o \in Owner, RegisterOwner(o) PROVE CommunityInv'
  <2>1. RequestsInv'
    BY <1>0, <1>1, RequestsStutter DEF RegisterOwner
  <2> QED
    BY <1>0, <1>1, <2>1 DEF RegisterOwner, TypeOK, CommunityInv
<1>2. ASSUME NEW r \in RegisterReq, NEW cif \in Cif, NEW content \in {"valid", "invalid"},
             NEW list \in UnitLists, NEW owners \in GivenOwners,
             RegisterArrive(r, cif, content, list, owners)
      PROVE  CommunityInv'
  <2> DEFINE q == [pc |-> "checkCif", cif |-> cif, content |-> content, list |-> list,
                   owners |-> owners, todo |-> list, inserted |-> {}]
  <2>1. /\ register[r].pc = "idle" /\ register' = [register EXCEPT ![r] = q]
        /\ UNCHANGED <<registered, communities, units, assign, listing>>
    BY <1>2 DEF RegisterArrive, store
  <2>2. q \in RegisterRecord
    BY ListsAssumption DEF RegisterRecord, RegisterSteps
  <2>3. q.pc = "checkCif" /\ q.cif = cif /\ q.todo = q.list /\ q.inserted = {}
    OBVIOUS
  <2> HIDE DEF q
  <2>4. Absent(r)
    BY <1>0, <2>1 DEF RequestsInv, RegisterOk
  <2>5. RegisterOk(r, q)
    BY <2>3, <2>4 DEF RegisterOk, Inserting
  <2>6. \A s \in RegisterReq \ {r} : RegistersApart(q, register[s])
    BY <2>3 DEF RegistersApart, Inserting
  <2>7. RequestsInv' /\ register' \in [RegisterReq -> RegisterRecord]
    BY <1>0, <2>1, <2>2, <2>5, <2>6, RegisterFrame
  <2> QED
    BY <1>0, <2>1, <2>7 DEF TypeOK, CommunityInv
<1>3. ASSUME NEW r \in AssignReq, NEW c \in RegisterReq, NEW u \in Unit, NEW o \in Owner,
             AssignArrive(r, c, u, o)
      PROVE  CommunityInv'
  <2> DEFINE q == [NoAssign EXCEPT !.pc = "getCommunity", !.community = c, !.unit = u,
                                   !.owner = o]
  <2>1. /\ assign' = [assign EXCEPT ![r] = q]
        /\ UNCHANGED <<registered, communities, units, register, listing>>
    BY <1>3 DEF AssignArrive, store
  <2>2. /\ q \in AssignRecord /\ q.pc = "getCommunity" /\ q.community = c
        /\ q.unit = u /\ q.owner = o
    BY DEF NoAssign, AssignRecord, AssignSteps
  <2> HIDE DEF q
  <2>3. AssignOk(q) /\ \A s \in AssignReq \ {r} : AssignsApart(q, assign[s])
    BY <2>2 DEF AssignOk, AssignSteps, AssignsApart
  <2>4. RequestsInv' /\ assign' \in [AssignReq -> AssignRecord]
    BY <1>0, <2>1, <2>2, <2>3, AssignFrame
  <2> QED
    BY <1>0, <2>1, <2>4 DEF TypeOK, CommunityInv
<1>4. ASSUME NEW r \in ListReq, NEW o \in Owner \cup {None}, ListArrive(r, o)
      PROVE  CommunityInv'
  <2> DEFINE due == UnitsOwnedBy(o)
             pc == IF o = None THEN "OwnerNotLinked" ELSE "findCommunities"
             q == [NoList EXCEPT !.pc = pc, !.owner = o, !.due = due]
  <2>1. /\ listing' = [listing EXCEPT ![r] = q]
        /\ UNCHANGED <<registered, communities, units, register, assign>>
    BY <1>4 DEF ListArrive, store
  <2>2. due \subseteq Unit /\ pc \in {"OwnerNotLinked", "findCommunities"}
    BY DEF UnitsOwnedBy
  <2>3. due = UnitsOwnedBy(o)
    OBVIOUS
  <2> HIDE DEF due, pc
  <2>4. q \in ListRecord /\ q.pc = pc /\ q.owner = o /\ q.due = due /\ q.shown = {}
    BY <2>2 DEF NoList, ListRecord
  <2> HIDE DEF q
  <2>5. ListOk(q)
    BY <2>2, <2>3, <2>4 DEF ListOk
  <2>6. RequestsInv' /\ listing' \in [ListReq -> ListRecord]
    BY <1>0, <2>1, <2>4, <2>5, ListFrame
  <2> QED
    BY <1>0, <2>1, <2>6 DEF TypeOK, CommunityInv
<1> QED
  BY <1>1, <1>2, <1>3, <1>4 DEF Arrivals

(* Every step of the component preserves the invariant.                    *)
LEMMA NextCommunityInv == CommunityInv /\ [Next]_vars => CommunityInv'
<1> SUFFICES ASSUME CommunityInv, [Next]_vars PROVE CommunityInv'
  OBVIOUS
<1>0. TypeOK /\ RequestsInv
  BY DEF CommunityInv
<1>1. ASSUME NEW r \in RegisterReq, RegisterCommit(r) PROVE CommunityInv'
  <2>1. RequestsInv' /\ register' \in [RegisterReq -> RegisterRecord]
    BY <1>0, <1>1, RegisterCommitInv
  <2>2. /\ communities' \in [RegisterReq -> CommunityRow \cup {None}]
        /\ units' \in [Unit -> UnitRow \cup {None}]
    BY <1>0, <1>1, RegisterCommitRows
  <2>3. UNCHANGED <<registered, assign, listing>>
    BY <1>1 DEF RegisterCommit
  <2> QED
    BY <1>0, <2>1, <2>2, <2>3 DEF TypeOK, CommunityInv
<1>2. ASSUME NEW r \in RegisterReq, RegisterProgress(r) \/ RegisterLost(r), ~RegisterCommit(r)
      PROVE  CommunityInv'
  <2>1. RequestsInv' /\ register' \in [RegisterReq -> RegisterRecord]
    BY <1>0, <1>2, RegisterStep
  <2>2. UNCHANGED <<registered, communities, units, assign, listing>>
    BY <1>2 DEF RegisterProgress, RegisterCheckCif, RegisterInsertCommunity,
                RegisterInsertUnit, RegisterUnitsDone, RegisterDeadlocked, RegisterRespond,
                RegisterLost, store
  <2> QED
    BY <1>0, <2>1, <2>2 DEF TypeOK, CommunityInv
<1>3. ASSUME NEW r \in AssignReq, AssignCommit(r) PROVE CommunityInv'
  <2>1. RequestsInv' /\ assign' \in [AssignReq -> AssignRecord]
    BY <1>0, <1>3, AssignCommitInv
  <2>2. /\ communities' \in [RegisterReq -> CommunityRow \cup {None}]
        /\ units' \in [Unit -> UnitRow \cup {None}]
    BY <1>0, <1>3, AssignCommitRows
  <2>3. UNCHANGED <<registered, register, listing>>
    BY <1>3 DEF AssignCommit
  <2> QED
    BY <1>0, <2>1, <2>2, <2>3 DEF TypeOK, CommunityInv
<1>4. ASSUME NEW r \in AssignReq, AssignProgress(r) \/ AssignLost(r), ~AssignCommit(r)
      PROVE  CommunityInv'
  <2>1. RequestsInv' /\ assign' \in [AssignReq -> AssignRecord]
    BY <1>0, <1>4, AssignStep
  <2>2. UNCHANGED <<registered, communities, units, register, listing>>
    BY <1>4 DEF AssignProgress, AssignGetCommunity, AssignGetUnits, AssignGetOwner,
                AssignSave, AssignReplaceUnits, AssignRespond, AssignLost, store
  <2> QED
    BY <1>0, <2>1, <2>2 DEF TypeOK, CommunityInv
<1>5. ASSUME NEW r \in ListReq, ListFindCommunities(r) \/ ListGetUnits(r) \/ ListLost(r)
      PROVE  CommunityInv'
  <2>1. RequestsInv' /\ listing' \in [ListReq -> ListRecord]
    BY <1>0, <1>5, ListStep
  <2>2. UNCHANGED <<registered, communities, units, register, assign>>
    BY <1>5 DEF ListFindCommunities, ListGetUnits, ListLost, store
  <2> QED
    BY <1>0, <2>1, <2>2 DEF TypeOK, CommunityInv
<1>6. CASE UNCHANGED vars
  <2>1. RequestsInv'
    BY <1>0, <1>6, RequestsStutter DEF vars
  <2> QED
    BY <1>0, <1>6, <2>1 DEF vars, TypeOK, CommunityInv
<1> QED
  BY <1>1, <1>2, <1>3, <1>4, <1>5, <1>6, ArrivalsInv DEF Next, Losses

LEMMA Reachable == Spec => []CommunityInv
BY InitCommunityInv, NextCommunityInv, PTL DEF Spec

-----------------------------------------------------------------------------
(* The results *)

(* Rows and requests keep their types, whatever requests arrive.           *)
THEOREM Typing == Spec => []TypeOK
<1>1. CommunityInv => TypeOK
  BY DEF CommunityInv
<1> QED
  BY Reachable, <1>1, PTL

(* register_community stores a community with all the units it was given   *)
(* or nothing, its answer says which, and the CIF it blames is taken.      *)
THEOREM WholeRegistrations == Spec => []RegistrationsAreWhole
<1>1. CommunityInv => RegistrationsAreWhole
  <2> SUFFICES ASSUME CommunityInv, NEW r \in RegisterReq
               PROVE  /\ Whole(r, register[r]) \/ Absent(r)
                      /\ register[r].pc \in {"committed", "Registered"} => Whole(r, register[r])
                      /\ register[r].pc \in RegisterEnds \ {"Registered", "Lost"} => Absent(r)
                      /\ register[r].pc = "DuplicateCif" => Taken(register[r].cif)
    BY DEF RegistrationsAreWhole, Whole, Absent
  <2> QED
    BY DEF CommunityInv, RequestsInv, RegisterOk, RegisterEnds
<1> QED
  BY Reachable, <1>1, PTL

(* assign_owner_to_unit rewrites the units it has read, yet no assignment  *)
(* that was answered 200 is undone by another, and a list of the owner's   *)
(* units that races with it shows what was the owner's when it was asked.  *)
THEOREM KeptAssignments == Spec => []AssignmentsAreKept
<1>1. CommunityInv => AssignmentsAreKept
  BY DEF CommunityInv, RequestsInv, AssignOk, ListOk, AssignmentsAreKept
<1> QED
  BY Reachable, <1>1, PTL

(* A commit founds one community or adds one owner to one unit.            *)
LEMMA OwnersStep ==
  CommunityInv /\ [Next]_vars => [Owners!Next]_(Owners!vars)
<1> DEFINE cifs == [c \in RegisterReq |-> IF communities[c] = None THEN None
                                          ELSE communities[c].cif]
           homes == [u \in Unit |-> IF units[u] = None THEN None ELSE units[u].community]
           own == [u \in Unit |-> IF units[u] = None THEN {} ELSE units[u].owners]
<1> SUFFICES ASSUME CommunityInv, [Next]_vars
             PROVE  Owners!Next \/ UNCHANGED <<cifs, homes, own>>
  BY DEF Owners!vars
<1>0. TypeOK /\ RequestsInv
  BY DEF CommunityInv
<1>1. CASE UNCHANGED <<communities, units>>
  BY <1>1
<1>2. ASSUME NEW r \in RegisterReq, RegisterCommit(r) PROVE Owners!Next
  <2>1. PICK q \in RegisterRecord : q = register[r]
    BY <1>0 DEF TypeOK
  <2>2. /\ q.inserted \in SUBSET Unit /\ q.owners \in SUBSET Owner
        /\ communities[r] = None /\ communities'[r] # None /\ communities'[r].cif = q.cif
        /\ q.cif \in Cif /\ ~Taken(q.cif)
        /\ \A c \in RegisterReq \ {r} : communities'[c] = communities[c]
    BY <1>0, <1>2, <2>1, RegisterCommitRows
  <2>3. /\ \A u \in q.inserted : /\ units[u] = None /\ units'[u] # None
                                 /\ units'[u].owners = q.owners /\ units'[u].community = r
        /\ \A u \in Unit \ q.inserted : units'[u] = units[u]
    <3>1. [community |-> r, owners |-> q.owners].community = r
      OBVIOUS
    <3> QED
      BY ZenonT(30), <1>0, <1>2, <2>1, <3>1, RegisterCommitRows
  <2>4. cifs[r] = None /\ \A d \in RegisterReq : cifs[d] # q.cif
    BY <2>2, NoneAssumption DEF Taken
  <2>5. \A u \in q.inserted : homes[u] = None
    BY <2>2, <2>3
  <2>6. cifs' = [cifs EXCEPT ![r] = q.cif]
    BY <2>2
  <2>7. /\ homes' = [u \in Unit |-> IF u \in q.inserted THEN r ELSE homes[u]]
        /\ own' = [u \in Unit |-> IF u \in q.inserted THEN q.owners ELSE own[u]]
    BY <2>3
  <2>8. Owners!Found(r, q.cif, q.inserted, q.owners)
    BY <2>4, <2>5, <2>6, <2>7 DEF Owners!Found
  <2> QED
    BY <2>2, <2>8 DEF Owners!Next
<1>3. ASSUME NEW r \in AssignReq, AssignCommit(r) PROVE Owners!Next
  <2>1. PICK q \in AssignRecord : q = assign[r]
    BY <1>0 DEF TypeOK
  <2>2. /\ q.community \in RegisterReq /\ q.owner \in Owner
        /\ q.unit \in Unit /\ units[q.unit] # None /\ q.owner \notin units[q.unit].owners
        /\ communities[q.community] # None /\ communities'[q.community] # None
        /\ communities'[q.community].cif = communities[q.community].cif
        /\ \A c \in RegisterReq \ {q.community} : communities'[c] = communities[c]
    BY <1>0, <1>3, <2>1, AssignCommitRows DEF UnitsOf
  <2>3. \A u \in Unit : /\ units'[u] = None <=> units[u] = None
                        /\ units[u] # None =>
                             /\ units'[u].community = units[u].community
                             /\ units'[u].owners = units[u].owners \cup
                                  (IF u = q.unit THEN {q.owner} ELSE {})
    BY <1>0, <1>3, <2>1, AssignCommitRows
  <2>4. UNCHANGED <<cifs, homes>>
    BY <2>2, <2>3
  <2>5. own' = [own EXCEPT ![q.unit] = own[q.unit] \cup {q.owner}]
    <3>1. ASSUME NEW u \in Unit
          PROVE  own'[u] = own[u] \cup (IF u = q.unit THEN {q.owner} ELSE {})
      BY <2>2, <2>3
    <3>4. own = [u \in Unit |-> own[u]] /\ own' = [u \in Unit |-> own'[u]]
      OBVIOUS
    <3> HIDE DEF own
    <3>2. ASSUME NEW u \in Unit, u # q.unit PROVE own'[u] = own[u]
      <4>1. own'[u] = own[u] \cup {}
        BY <3>1, <3>2
      <4>2. \A S : S \cup {} = S
        OBVIOUS
      <4> QED
        BY <4>1, <4>2
    <3>3. own'[q.unit] = own[q.unit] \cup {q.owner}
      BY <2>2, <3>1
    <3> QED
      BY <3>2, <3>3, <3>4
  <2>6. homes[q.unit] # None /\ q.owner \notin own[q.unit]
    BY <1>0, <2>2, NoneAssumption DEF TypeOK, UnitRow
  <2>7. Owners!AddOwner(q.unit, q.owner)
    BY <2>4, <2>5, <2>6 DEF Owners!AddOwner
  <2> QED
    BY <2>2, <2>7 DEF Owners!Next
<1>4. \/ UNCHANGED <<communities, units>>
      \/ \E r \in RegisterReq : RegisterCommit(r)
      \/ \E r \in AssignReq : AssignCommit(r)
  BY DEF Next, Arrivals, RegisterOwner, RegisterArrive, AssignArrive, ListArrive, Losses,
         RegisterLost, AssignLost, ListLost, RegisterProgress, RegisterCheckCif,
         RegisterInsertCommunity, RegisterInsertUnit, RegisterUnitsDone, RegisterDeadlocked,
         RegisterRespond, AssignProgress, AssignGetCommunity, AssignGetUnits, AssignGetOwner,
         AssignSave, AssignReplaceUnits, AssignRespond, ListFindCommunities, ListGetUnits,
         store, vars
<1> QED
  BY <1>1, <1>2, <1>3, <1>4

(* Whatever a save rewrites, communities and units change as UnitOwners    *)
(* says: founded at once, and then one owner more at a time.               *)
THEOREM Refinement == Spec => ImplementsUnitOwners
<1>1. Init => Owners!Init
  BY NoneAssumption DEF Init, Owners!Init
<1>2. CommunityInv /\ [Next]_vars => [Owners!Next]_(Owners!vars)
  BY OwnersStep
<1> QED
  BY Reachable, <1>1, <1>2, PTL DEF Spec, ImplementsUnitOwners, Owners!Spec
=============================================================================
