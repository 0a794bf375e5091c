--------------------------- MODULE IdentityProofs ---------------------------
(***************************************************************************)
(* Owners and accounts, proved for every number of requests: an owner has  *)
(* one account, a NIF one owner and an email one account, refusals are     *)
(* true, and the component implements OwnerLinks.  The invariant says what *)
(* each open transaction holds in the unique indexes, and what the version *)
(* that a link has read tells of the account's owner.                      *)
(***************************************************************************)
EXTENDS Identity, TLAPS

(* An owner is stored by the commit of its request; at its commit, a       *)
(* request has the only entry of its NIF.                                  *)
EnrolOk(r, q) ==
  /\ q.pc \notin {"committed", "Created", "Lost"} => owners[r] = None
  /\ q.pc \in {"committed", "Created"} => owners[r] # None
  /\ q.pc \notin {"idle", "Lost"} => q.nif \in Nif
  /\ q.pc = "commit" => ~NifTaken(q.nif)
  /\ q.pc = "DuplicateNif" => NifTaken(q.nif)

NifKeys ==
  \A o1, o2 \in OwnerReq :
    owners[o1] # None /\ owners[o2] # None /\ owners[o1].nif = owners[o2].nif => o1 = o2

EnrolInv ==
  /\ \A r \in OwnerReq : EnrolOk(r, enrol[r])
  /\ \A r, s \in OwnerReq :
       r # s /\ enrol[r].pc = "commit" /\ enrol[s].pc = "commit" => enrol[r].nif # enrol[s].nif
  /\ NifKeys

(* A registration has the entry of its email from its insert, and that of  *)
(* its owner at its commit.                                                *)
RegisterOk(r, q) ==
  /\ q.pc \notin {"committed", "Created", "Lost"} => accounts[r] = None
  /\ q.pc \in {"committed", "Created"} => accounts[r] # None
  /\ q.pc \notin {"idle", "Lost"} => q.email \in Email
  /\ q.pc \in {"getOwner", "checkOwner"} => q.owner # None
  /\ q.pc \in {"insertOwner", "commit"} => ~EmailTaken(q.email)
  /\ q.pc = "commit" /\ q.owner # None => ~OwnerTaken(q.owner)
  /\ q.pc = "DuplicateEmail" => EmailTaken(q.email)
  /\ q.pc = "OwnerAlreadyLinked" => q.owner # None /\ OwnerTaken(q.owner)

(* A link has read a version that its account keeps until it is linked,    *)
(* and from its save on it holds the account's row at that version.        *)
LinkOk(q) ==
  /\ q.pc \notin {"idle", "Lost"} => /\ q.account \in AccountReq
                                     /\ accounts[q.account] # None
                                     /\ q.nif \in Nif
  /\ q.pc \in {"checkOwner", "save", "saveOwner", "commit", "committed"} => q.owner \in OwnerReq
  /\ q.pc \in {"getOwner", "checkOwner", "save", "saveOwner", "commit"} =>
       (accounts[q.account].version = q.version <=> accounts[q.account].owner = None)
  /\ q.pc \in {"saveOwner", "commit"} => accounts[q.account].version = q.version
  /\ q.pc = "commit" => ~OwnerTaken(q.owner)
  /\ q.pc \in {"committed", "Linked"} => /\ accounts[q.account].owner = q.owner
                                         /\ q.owner # None
  /\ q.pc = "OwnerAlreadyLinked" => q.owner # None /\ OwnerTaken(q.owner)
  /\ q.pc \in {"AlreadyHasOwner", "ConcurrentModification"} =>
       accounts[q.account].owner # None

(* Open transactions hold different keys and rows.                         *)
RegistersApart(p, q) ==
  /\ p.pc \in {"insertOwner", "commit"} /\ q.pc \in {"insertOwner", "commit"}
       => p.email # q.email
  /\ p.pc = "commit" /\ q.pc = "commit" /\ p.owner # None => p.owner # q.owner

LinksApart(p, q) ==
  /\ p.pc \in {"saveOwner", "commit"} /\ q.pc \in {"saveOwner", "commit"}
       => p.account # q.account
  /\ p.pc = "commit" /\ q.pc = "commit" => p.owner # q.owner

KindsApart(p, q) == p.pc = "commit" /\ q.pc = "commit" => p.owner # q.owner

AccountKeys ==
  \A a1, a2 \in AccountReq :
    /\ accounts[a1] # None /\ accounts[a2] # None
    /\ \/ accounts[a1].email = accounts[a2].email
       \/ accounts[a1].owner # None /\ accounts[a1].owner = accounts[a2].owner
    => a1 = a2

AccountsInv ==
  /\ \A r \in AccountReq : RegisterOk(r, register[r])
  /\ \A r \in LinkReq : LinkOk(link[r])
  /\ \A r, s \in AccountReq : r # s => RegistersApart(register[r], register[s])
  /\ \A r, s \in LinkReq : r # s => LinksApart(link[r], link[s])
  /\ \A r \in AccountReq, s \in LinkReq : KindsApart(register[r], link[s])
  /\ AccountKeys

IdentityInv == TypeOK /\ EnrolInv /\ AccountsInv

(* No request has arrived and nothing is stored at the start.              *)
LEMMA InitIdentityInv == Init => IdentityInv
BY NoneAssumption
   DEF Init, IdentityInv, TypeOK, EnrolInv, EnrolOk, NifKeys, AccountsInv, RegisterOk, LinkOk,
       RegistersApart, LinksApart, KindsApart, AccountKeys, EnrolRecord, RegisterRecord,
       LinkRecord, NifTaken, OwnersOf, EmailTaken, OwnerTaken

-----------------------------------------------------------------------------
(* Owners *)

(* A step of one request that stores no owner.                             *)
LEMMA EnrolFrame ==
  ASSUME TypeOK, EnrolInv, NEW r \in OwnerReq, NEW q \in EnrolRecord,
         enrol' = [enrol EXCEPT ![r] = q], UNCHANGED owners, EnrolOk(r, q),
         q.pc = "commit" => \A s \in OwnerReq \ {r} :
                              enrol[s].pc = "commit" => enrol[s].nif # q.nif
  PROVE  EnrolInv' /\ enrol' \in [OwnerReq -> EnrolRecord]
<1>1. \A s \in OwnerReq : enrol'[s] = IF s = r THEN q ELSE enrol[s]
  BY DEF TypeOK
<1>2. \A s \in OwnerReq : EnrolOk(s, enrol'[s])
  BY <1>1 DEF EnrolInv
<1>3. \A s \in OwnerReq : EnrolOk(s, enrol[s])'
  BY <1>2 DEF EnrolOk, NifTaken, OwnersOf
<1>4. \A s, t \in OwnerReq :
        s # t /\ enrol'[s].pc = "commit" /\ enrol'[t].pc = "commit" => enrol'[s].nif # enrol'[t].nif
  BY <1>1 DEF EnrolInv
<1>5. NifKeys'
  BY DEF EnrolInv, NifKeys
<1>6. enrol' \in [OwnerReq -> EnrolRecord]
  BY DEF TypeOK
<1> QED
  BY <1>3, <1>4, <1>5, <1>6 DEF EnrolInv

(* The check and the index: a request inserts the only entry of its NIF.   *)
LEMMA EnrolStep ==
  ASSUME TypeOK, EnrolInv, NEW r \in OwnerReq, EnrolProgress(r) \/ EnrolLost(r)
  PROVE  EnrolInv' /\ enrol' \in [OwnerReq -> EnrolRecord]
                   /\ owners' \in [OwnerReq -> OwnerRow \cup {None}]
<1>q. enrol[r] \in EnrolRecord /\ EnrolOk(r, enrol[r])
  BY DEF TypeOK, EnrolInv
<1>m. ASSUME NEW to \in EnrolSteps \cup EnrolEnds, enrol' = [enrol EXCEPT ![r].pc = to],
             UNCHANGED owners, EnrolOk(r, [enrol[r] EXCEPT !.pc = to]),
             to = "commit" => \A s \in OwnerReq \ {r} :
                                enrol[s].pc = "commit" => enrol[s].nif # enrol[r].nif
      PROVE  EnrolInv' /\ enrol' \in [OwnerReq -> EnrolRecord]
                       /\ owners' \in [OwnerReq -> OwnerRow \cup {None}]
  <2> DEFINE q == [enrol[r] EXCEPT !.pc = to]
  <2>1. /\ q \in EnrolRecord /\ q.pc = to /\ q.nif = enrol[r].nif
        /\ enrol' = [enrol EXCEPT ![r] = q] /\ EnrolOk(r, q)
    BY <1>q, <1>m DEF EnrolRecord
  <2>2. owners' \in [OwnerReq -> OwnerRow \cup {None}]
    BY <1>m DEF TypeOK
  <2> HIDE DEF q
  <2> QED
    BY <1>m, <2>1, <2>2, EnrolFrame
<1>1. CASE EnrolCheckNif(r)
  <2>1. enrol[r].pc = "checkNif" /\ UNCHANGED owners
    BY <1>1 DEF EnrolCheckNif, EnrolGo, store
  <2>2. CASE NifTaken(enrol[r].nif)
    <3>1. EnrolOk(r, [enrol[r] EXCEPT !.pc = "DuplicateNif"])
      BY <1>q, <2>1, <2>2 DEF EnrolOk, EnrolRecord
    <3> QED
      BY <1>1, <1>m, <2>1, <2>2, <3>1 DEF EnrolCheckNif, EnrolGo, EnrolEnds
  <2>3. CASE ~NifTaken(enrol[r].nif)
    <3>1. EnrolOk(r, [enrol[r] EXCEPT !.pc = "insert"])
      BY <1>q, <2>1 DEF EnrolOk, EnrolRecord
    <3> QED
      BY <1>1, <1>m, <2>1, <2>3, <3>1 DEF EnrolCheckNif, EnrolGo, EnrolSteps
  <2> QED
    BY <2>2, <2>3
<1>2. CASE EnrolInsert(r)
  <2>1. /\ enrol[r].pc = "insert" /\ UNCHANGED owners
        /\ \A s \in OwnerReq \ {r} : enrol[s].pc = "commit" => enrol[s].nif # enrol[r].nif
    BY <1>2 DEF EnrolInsert, EnrolGo, NifInDoubt, store
  <2>2. CASE NifTaken(enrol[r].nif)
    <3>1. EnrolOk(r, [enrol[r] EXCEPT !.pc = "DuplicateNif"])
      BY <1>q, <2>1, <2>2 DEF EnrolOk, EnrolRecord
    <3> QED
      BY <1>2, <1>m, <2>1, <2>2, <3>1 DEF EnrolInsert, EnrolGo, EnrolEnds
  <2>3. CASE ~NifTaken(enrol[r].nif)
    <3>1. EnrolOk(r, [enrol[r] EXCEPT !.pc = "commit"])
      BY <1>q, <2>1, <2>3 DEF EnrolOk, EnrolRecord
    <3> QED
      BY <1>2, <1>m, <2>1, <2>3, <3>1 DEF EnrolInsert, EnrolGo, EnrolSteps
  <2> QED
    BY <2>2, <2>3
<1>3. CASE EnrolCommit(r)
  <2> DEFINE n == enrol[r].nif
             row == [nif |-> n]
  <2>1. /\ enrol[r].pc = "commit" /\ enrol' = [enrol EXCEPT ![r].pc = "committed"]
        /\ owners' = [owners EXCEPT ![r] = row] /\ owners[r] = None
        /\ ~NifTaken(n) /\ n \in Nif
    BY <1>q, <1>3 DEF EnrolCommit, EnrolGo, EnrolOk
  <2>2. row \in OwnerRow /\ row # None /\ row.nif = n
    BY <2>1, NoneAssumption DEF OwnerRow
  <2> HIDE DEF row, n
  <2>3. \A o \in OwnerReq : owners'[o] = IF o = r THEN row ELSE owners[o]
    BY <2>1 DEF TypeOK
  <2>4. \A m : NifTaken(m)' <=> (NifTaken(m) \/ m = n)
    BY <2>1, <2>2, <2>3 DEF NifTaken, OwnersOf
  <2>5. /\ \A s \in OwnerReq \ {r} : enrol'[s] = enrol[s]
        /\ enrol'[r].pc = "committed" /\ enrol'[r].nif = n
        /\ enrol' \in [OwnerReq -> EnrolRecord]
    BY <1>q, <2>1 DEF TypeOK, EnrolRecord, EnrolSteps, n
  <2>6. \A s \in OwnerReq : EnrolOk(s, enrol[s])'
    <3>1. ASSUME NEW s \in OwnerReq, s # r PROVE EnrolOk(s, enrol[s])'
      <4>1. enrol'[s] = enrol[s] /\ owners'[s] = owners[s] /\ EnrolOk(s, enrol[s])
        BY <2>3, <2>5, <3>1 DEF EnrolInv
      <4>2. enrol[s].pc = "commit" => enrol[s].nif # n
        BY <2>1, <3>1 DEF EnrolInv, n
      <4> QED
        BY <2>4, <4>1, <4>2 DEF EnrolOk
    <3>2. EnrolOk(r, enrol[r])'
      BY <2>1, <2>2, <2>3, <2>5 DEF EnrolOk
    <3> QED
      BY <3>1, <3>2
  <2>7. \A s, t \in OwnerReq :
          s # t /\ enrol'[s].pc = "commit" /\ enrol'[t].pc = "commit" => enrol'[s].nif # enrol'[t].nif
    BY <2>5 DEF EnrolInv
  <2>8. NifKeys'
    BY <2>1, <2>2, <2>3 DEF EnrolInv, NifKeys, NifTaken, OwnersOf
  <2>9. owners' \in [OwnerReq -> OwnerRow \cup {None}]
    BY <2>1, <2>2 DEF TypeOK
  <2> QED
    BY <2>5, <2>6, <2>7, <2>8, <2>9 DEF EnrolInv
<1>4. CASE EnrolRespond(r)
  <2>1. enrol[r].pc = "committed" /\ UNCHANGED owners /\ enrol' = [enrol EXCEPT ![r].pc = "Created"]
    BY <1>4 DEF EnrolRespond, EnrolGo, store
  <2>2. EnrolOk(r, [enrol[r] EXCEPT !.pc = "Created"])
    BY <1>q, <2>1 DEF EnrolOk, EnrolRecord
  <2> QED
    BY <1>m, <2>1, <2>2 DEF EnrolEnds
<1>5. CASE EnrolLost(r)
  <2>1. UNCHANGED owners /\ enrol' = [enrol EXCEPT ![r].pc = "Lost"]
    BY <1>5 DEF EnrolLost, store
  <2>2. EnrolOk(r, [enrol[r] EXCEPT !.pc = "Lost"])
    BY <1>q DEF EnrolOk, EnrolRecord
  <2> QED
    BY <1>m, <2>1, <2>2 DEF EnrolEnds
<1> QED
  BY <1>1, <1>2, <1>3, <1>4, <1>5 DEF EnrolProgress

-----------------------------------------------------------------------------
(* Accounts: steps that store nothing *)

(* A step of one registration that stores no account.                      *)
LEMMA RegisterFrame ==
  ASSUME TypeOK, AccountsInv, NEW r \in AccountReq, NEW q \in RegisterRecord,
         register' = [register EXCEPT ![r] = q], UNCHANGED <<accounts, link>>, RegisterOk(r, q),
         \A s \in AccountReq \ {r} : RegistersApart(q, register[s]),
         \A s \in LinkReq : KindsApart(q, link[s])
  PROVE  AccountsInv' /\ register' \in [AccountReq -> RegisterRecord]
<1>1. \A s \in AccountReq : register'[s] = IF s = r THEN q ELSE register[s]
  BY DEF TypeOK
<1>2. \A s \in AccountReq : RegisterOk(s, register'[s])
  BY <1>1 DEF AccountsInv
<1>3. \A s \in AccountReq : RegisterOk(s, register[s])'
  BY <1>2 DEF RegisterOk, EmailTaken, OwnerTaken
<1>4. \A s, t \in AccountReq : s # t => RegistersApart(register'[s], register'[t])
  BY <1>1 DEF AccountsInv, RegistersApart
<1>5. \A s \in AccountReq, t \in LinkReq : KindsApart(register'[s], link'[t])
  BY <1>1 DEF AccountsInv
<1>6. /\ \A s \in LinkReq : LinkOk(link[s])'
      /\ \A s, t \in LinkReq : s # t => LinksApart(link[s], link[t])'
      /\ AccountKeys'
  BY DEF AccountsInv, LinkOk, OwnerTaken, LinksApart, AccountKeys
<1>7. register' \in [AccountReq -> RegisterRecord]
  BY DEF TypeOK
<1> QED
  BY <1>3, <1>4, <1>5, <1>6, <1>7 DEF AccountsInv, RegistersApart, KindsApart

(* A step of one link that stores nothing.                                 *)
LEMMA LinkFrame ==
  ASSUME TypeOK, AccountsInv, NEW r \in LinkReq, NEW q \in LinkRecord,
         link' = [link EXCEPT ![r] = q], UNCHANGED <<accounts, register>>, LinkOk(q),
         \A s \in LinkReq \ {r} : LinksApart(q, link[s]),
         \A s \in AccountReq : KindsApart(register[s], q)
  PROVE  AccountsInv' /\ link' \in [LinkReq -> LinkRecord]
<1>1. \A s \in LinkReq : link'[s] = IF s = r THEN q ELSE link[s]
  BY DEF TypeOK
<1>2. \A s \in LinkReq : LinkOk(link'[s])
  BY <1>1 DEF AccountsInv
<1>3. \A s \in LinkReq : LinkOk(link[s])'
  BY <1>2 DEF LinkOk, OwnerTaken
<1>4. \A s, t \in LinkReq : s # t => LinksApart(link'[s], link'[t])
  BY <1>1 DEF AccountsInv, LinksApart
<1>5. \A s \in AccountReq, t \in LinkReq : KindsApart(register'[s], link'[t])
  BY <1>1 DEF AccountsInv
<1>6. /\ \A s \in AccountReq : RegisterOk(s, register[s])'
      /\ \A s, t \in AccountReq : s # t => RegistersApart(register[s], register[t])'
      /\ AccountKeys'
  BY DEF AccountsInv, RegisterOk, EmailTaken, OwnerTaken, RegistersApart, AccountKeys
<1>7. link' \in [LinkReq -> LinkRecord]
  BY DEF TypeOK
<1> QED
  BY <1>3, <1>4, <1>5, <1>6, <1>7 DEF AccountsInv, LinksApart, KindsApart

(* A registration moves to another step; RegisterInsert and               *)
(* RegisterInsertOwner take the entries that no open transaction has.      *)
LEMMA RegisterStep ==
  ASSUME TypeOK, AccountsInv, NEW r \in AccountReq,
         RegisterProgress(r) \/ RegisterLost(r), ~RegisterCommit(r)
  PROVE  AccountsInv' /\ register' \in [AccountReq -> RegisterRecord]
<1> DEFINE Goal == AccountsInv' /\ register' \in [AccountReq -> RegisterRecord]
<1> SUFFICES Goal
  OBVIOUS
<1> HIDE DEF Goal
<1>q. /\ register[r] \in RegisterRecord /\ RegisterOk(r, register[r])
      /\ \A s \in AccountReq \ {r} : RegistersApart(register[r], register[s])
      /\ \A s \in LinkReq : KindsApart(register[r], link[s])
  BY DEF TypeOK, AccountsInv
<1>m. ASSUME NEW to \in RegisterSteps \cup RegisterEnds,
             register' = [register EXCEPT ![r].pc = to], UNCHANGED <<accounts, link>>,
             RegisterOk(r, [register[r] EXCEPT !.pc = to]),
             to \in {"insertOwner", "commit"} =>
               \A s \in AccountReq \ {r} :
                 register[s].pc \in {"insertOwner", "commit"} => register[s].email # register[r].email,
             to = "commit" /\ register[r].owner # None => ~OwnerInDoubt(register[r].owner)
      PROVE  Goal
  <2> DEFINE q == [register[r] EXCEPT !.pc = to]
  <2>1. /\ q \in RegisterRecord /\ q.pc = to /\ q.email = register[r].email
        /\ q.owner = register[r].owner
        /\ register' = [register EXCEPT ![r] = q] /\ RegisterOk(r, q)
    BY <1>q, <1>m DEF RegisterRecord
  <2> HIDE DEF q
  <2>2. \A s \in AccountReq \ {r} : RegistersApart(q, register[s])
    BY <1>m, <2>1 DEF RegistersApart, OwnerInDoubt
  <2>3. \A s \in LinkReq : KindsApart(q, link[s])
    <3>1. ASSUME NEW s \in LinkReq, q.pc = "commit", link[s].pc = "commit"
          PROVE  q.owner # link[s].owner
      <4>1. LinkOk(link[s]) /\ link[s].owner \in OwnerReq
        BY <3>1 DEF AccountsInv, LinkOk
      <4> QED
        BY <1>m, <2>1, <3>1, <4>1, NoneAssumption DEF OwnerInDoubt
    <3> QED
      BY <3>1 DEF KindsApart
  <2> QED
    BY <1>m, <2>1, <2>2, <2>3, RegisterFrame DEF Goal
<1>1. CASE RegisterCheckEmail(r)
  <2>1. register[r].pc = "checkEmail" /\ UNCHANGED <<accounts, link>>
    BY <1>1 DEF RegisterCheckEmail, RegisterGo, store
  <2>2. CASE EmailTaken(register[r].email)
    <3>1. RegisterOk(r, [register[r] EXCEPT !.pc = "DuplicateEmail"])
      BY <1>q, <2>1, <2>2 DEF RegisterOk, RegisterRecord
    <3> QED
      BY <1>1, <1>m, <2>1, <2>2, <3>1 DEF RegisterCheckEmail, RegisterGo, RegisterEnds
  <2>3. CASE ~EmailTaken(register[r].email)
    <3>1. register[r].owner = None => RegisterOk(r, [register[r] EXCEPT !.pc = "insert"])
      BY <1>q, <2>1 DEF RegisterOk, RegisterRecord
    <3>2. register[r].owner # None => RegisterOk(r, [register[r] EXCEPT !.pc = "getOwner"])
      BY <1>q, <2>1 DEF RegisterOk, RegisterRecord
    <3> QED
      BY <1>1, <1>m, <2>1, <2>3, <3>1, <3>2 DEF RegisterCheckEmail, RegisterGo, RegisterSteps
  <2> QED
    BY <2>2, <2>3
<1>2. CASE RegisterGetOwner(r)
  <2>1. register[r].pc = "getOwner" /\ UNCHANGED <<accounts, link>>
    BY <1>2 DEF RegisterGetOwner, RegisterGo, store
  <2>2. /\ RegisterOk(r, [register[r] EXCEPT !.pc = "OwnerNotFound"])
        /\ RegisterOk(r, [register[r] EXCEPT !.pc = "checkOwner"])
    BY <1>q, <2>1 DEF RegisterOk, RegisterRecord
  <2> QED
    BY <1>2, <1>m, <2>1, <2>2 DEF RegisterGetOwner, RegisterGo, RegisterSteps, RegisterEnds
<1>3. CASE RegisterCheckOwner(r)
  <2>1. register[r].pc = "checkOwner" /\ UNCHANGED <<accounts, link>>
    BY <1>3 DEF RegisterCheckOwner, RegisterGo, store
  <2>2. /\ OwnerTaken(register[r].owner) =>
             RegisterOk(r, [register[r] EXCEPT !.pc = "OwnerAlreadyLinked"])
        /\ RegisterOk(r, [register[r] EXCEPT !.pc = "insert"])
    BY <1>q, <2>1 DEF RegisterOk, RegisterRecord
  <2> QED
    BY <1>3, <1>m, <2>1, <2>2 DEF RegisterCheckOwner, RegisterGo, RegisterSteps, RegisterEnds
<1>4. CASE RegisterInsert(r)
  <2>1. /\ register[r].pc = "insert" /\ UNCHANGED <<accounts, link>>
        /\ \A s \in AccountReq \ {r} :
             register[s].pc \in {"insertOwner", "commit"} => register[s].email # register[r].email
    BY <1>4 DEF RegisterInsert, RegisterGo, EmailInDoubt, store
  <2>2. CASE EmailTaken(register[r].email)
    <3>1. RegisterOk(r, [register[r] EXCEPT !.pc = "DuplicateEmail"])
      BY <1>q, <2>1, <2>2 DEF RegisterOk, RegisterRecord
    <3> QED
      BY <1>4, <1>m, <2>1, <2>2, <3>1 DEF RegisterInsert, RegisterGo, RegisterEnds
  <2>3. CASE ~EmailTaken(register[r].email)
    <3>1. RegisterOk(r, [register[r] EXCEPT !.pc = "insertOwner"])
      BY <1>q, <2>1, <2>3 DEF RegisterOk, RegisterRecord
    <3> QED
      BY <1>4, <1>m, <2>1, <2>3, <3>1 DEF RegisterInsert, RegisterGo, RegisterSteps
  <2> QED
    BY <2>2, <2>3
<1>5. CASE RegisterInsertOwner(r)
  <2> DEFINE o == register[r].owner
  <2>1. /\ register[r].pc = "insertOwner" /\ UNCHANGED <<accounts, link>>
        /\ o = None \/ ~OwnerInDoubt(o)
        /\ \A s \in AccountReq \ {r} :
             register[s].pc \in {"insertOwner", "commit"} => register[s].email # register[r].email
    BY <1>5, <1>q DEF RegisterInsertOwner, RegisterGo, RegistersApart, store
  <2>2. CASE o # None /\ OwnerTaken(o)
    <3>1. RegisterOk(r, [register[r] EXCEPT !.pc = "OwnerAlreadyLinked"])
      BY <1>q, <2>1, <2>2 DEF RegisterOk, RegisterRecord
    <3> QED
      BY <1>5, <1>m, <2>1, <2>2, <3>1 DEF RegisterInsertOwner, RegisterGo, RegisterEnds
  <2>3. CASE o = None \/ ~OwnerTaken(o)
    <3>1. RegisterOk(r, [register[r] EXCEPT !.pc = "commit"])
      BY <1>q, <2>1, <2>3 DEF RegisterOk, RegisterRecord
    <3> QED
      BY <1>5, <1>m, <2>1, <2>3, <3>1 DEF RegisterInsertOwner, RegisterGo, RegisterSteps
  <2> QED
    BY <2>2, <2>3
<1>6. CASE RegisterRespond(r) \/ RegisterLost(r)
  <2>1. /\ UNCHANGED <<accounts, link>>
        /\ \/ register' = [register EXCEPT ![r].pc = "Lost"]
           \/ register[r].pc = "committed" /\ register' = [register EXCEPT ![r].pc = "Created"]
    BY <1>6 DEF RegisterRespond, RegisterLost, RegisterGo, store
  <2>2. /\ RegisterOk(r, [register[r] EXCEPT !.pc = "Lost"])
        /\ register[r].pc = "committed" => RegisterOk(r, [register[r] EXCEPT !.pc = "Created"])
    BY <1>q DEF RegisterOk, RegisterRecord
  <2> QED
    BY <1>m, <2>1, <2>2 DEF RegisterEnds
<1> QED
  BY <1>1, <1>2, <1>3, <1>4, <1>5, <1>6 DEF RegisterProgress

(* A link moves to another step; LinkSave takes the row of the account at  *)
(* the version that was read, LinkSaveOwner the entry of the owner.        *)
LEMMA LinkStep ==
  ASSUME TypeOK, AccountsInv, NEW r \in LinkReq,
         LinkProgress(r) \/ LinkLost(r), ~LinkCommit(r)
  PROVE  AccountsInv' /\ link' \in [LinkReq -> LinkRecord]
<1> DEFINE Goal == AccountsInv' /\ link' \in [LinkReq -> LinkRecord]
<1> SUFFICES Goal
  OBVIOUS
<1> HIDE DEF Goal
<1>q. /\ link[r] \in LinkRecord /\ LinkOk(link[r])
      /\ \A s \in LinkReq \ {r} : LinksApart(link[r], link[s])
      /\ \A s \in AccountReq : KindsApart(register[s], link[r])
  BY DEF TypeOK, AccountsInv
<1>m. ASSUME NEW to \in LinkSteps \cup LinkEnds,
             link' = [link EXCEPT ![r].pc = to], UNCHANGED <<accounts, register>>,
             LinkOk([link[r] EXCEPT !.pc = to]),
             to \in {"saveOwner", "commit"} =>
               \A s \in LinkReq \ {r} : ~AccountLocked(s, link[r].account),
             to = "commit" => ~OwnerInDoubt(link[r].owner)
      PROVE  Goal
  <2> DEFINE q == [link[r] EXCEPT !.pc = to]
  <2>1. /\ q \in LinkRecord /\ q.pc = to /\ q.account = link[r].account
        /\ q.owner = link[r].owner
        /\ link' = [link EXCEPT ![r] = q] /\ LinkOk(q)
    BY <1>q, <1>m DEF LinkRecord
  <2> HIDE DEF q
  <2>2. \A s \in LinkReq \ {r} : LinksApart(q, link[s])
    BY <1>m, <2>1 DEF LinksApart, OwnerInDoubt, AccountLocked
  <2>3. \A s \in AccountReq : KindsApart(register[s], q)
    BY <1>m, <2>1 DEF KindsApart, OwnerInDoubt
  <2> QED
    BY <1>m, <2>1, <2>2, <2>3, LinkFrame DEF Goal
<1>1. CASE LinkGetAccount(r)
  <2> DEFINE row == accounts[link[r].account]
             to == IF row.owner = None THEN "getOwner" ELSE "AlreadyHasOwner"
             q == [link[r] EXCEPT !.pc = to, !.version = row.version]
  <2>1. /\ link[r].pc = "getAccount" /\ UNCHANGED <<accounts, register>>
        /\ link' = [link EXCEPT ![r] = q]
    BY <1>1 DEF LinkGetAccount, store
  <2>2. row \in AccountRow /\ link[r].account \in AccountReq
    BY <1>q, <2>1 DEF LinkOk, TypeOK
  <2>3. q \in LinkRecord
    BY <1>q, <2>2 DEF LinkRecord, AccountRow, LinkSteps, LinkEnds
  <2>4. LinkOk(q) /\ q.pc \in {"getOwner", "AlreadyHasOwner"}
    BY <1>q, <2>1 DEF LinkOk, LinkRecord
  <2> HIDE DEF q
  <2>5. \A s \in LinkReq \ {r} : LinksApart(q, link[s])
    BY <2>4 DEF LinksApart
  <2>6. \A s \in AccountReq : KindsApart(register[s], q)
    BY <2>4 DEF KindsApart
  <2> QED
    BY <2>1, <2>3, <2>4, <2>5, <2>6, LinkFrame DEF Goal
<1>2. CASE LinkGetOwner(r)
  <2>1. link[r].pc = "getOwner" /\ UNCHANGED <<accounts, register>>
    BY <1>2 DEF LinkGetOwner, LinkGo, store
  <2>2. ASSUME NEW o \in OwnersOf(link[r].nif),
               link' = [link EXCEPT ![r].pc = "checkOwner", ![r].owner = o]
        PROVE  Goal
    <3> DEFINE q == [link[r] EXCEPT !.pc = "checkOwner", !.owner = o]
    <3>1. q \in LinkRecord /\ LinkOk(q) /\ q.pc = "checkOwner"
      BY <1>q, <2>1 DEF LinkOk, LinkRecord, LinkSteps, OwnersOf
    <3>2. link' = [link EXCEPT ![r] = q]
      BY <2>2
    <3> HIDE DEF q
    <3>3. \A s \in LinkReq \ {r} : LinksApart(q, link[s])
      BY <3>1 DEF LinksApart
    <3>4. \A s \in AccountReq : KindsApart(register[s], q)
      BY <3>1 DEF KindsApart
    <3> QED
      BY <2>1, <3>1, <3>2, <3>3, <3>4, LinkFrame DEF Goal
  <2>3. LinkOk([link[r] EXCEPT !.pc = "OwnerNotFound"])
    BY <1>q, <2>1 DEF LinkOk, LinkRecord
  <2> QED
    BY <1>2, <1>m, <2>1, <2>2, <2>3 DEF LinkGetOwner, LinkGo, LinkEnds
<1>3. CASE LinkCheckOwner(r)
  <2>1. link[r].pc = "checkOwner" /\ UNCHANGED <<accounts, register>>
    BY <1>3 DEF LinkCheckOwner, LinkGo, store
  <2>2. /\ OwnerTaken(link[r].owner) => LinkOk([link[r] EXCEPT !.pc = "OwnerAlreadyLinked"])
        /\ LinkOk([link[r] EXCEPT !.pc = "save"])
    BY <1>q, <2>1, NoneAssumption DEF LinkOk, LinkRecord
  <2> QED
    BY <1>3, <1>m, <2>1, <2>2 DEF LinkCheckOwner, LinkGo, LinkSteps, LinkEnds
<1>4. CASE LinkSave(r)
  <2>1. /\ link[r].pc = "save" /\ UNCHANGED <<accounts, register>>
        /\ \A s \in LinkReq \ {r} : ~AccountLocked(s, link[r].account)
    BY <1>4 DEF LinkSave, LinkGo, store
  <2>2. /\ VersionMatches(r) => LinkOk([link[r] EXCEPT !.pc = "saveOwner"])
        /\ ~VersionMatches(r) => LinkOk([link[r] EXCEPT !.pc = "ConcurrentModification"])
    BY <1>q, <2>1 DEF LinkOk, LinkRecord, VersionMatches
  <2> QED
    BY <1>4, <1>m, <2>1, <2>2 DEF LinkSave, LinkGo, LinkSteps, LinkEnds
<1>5. CASE LinkSaveOwner(r)
  <2>1. /\ link[r].pc = "saveOwner" /\ UNCHANGED <<accounts, register>>
        /\ ~OwnerInDoubt(link[r].owner)
        /\ \A s \in LinkReq \ {r} : ~AccountLocked(s, link[r].account)
    BY <1>5, <1>q DEF LinkSaveOwner, LinkGo, LinksApart, AccountLocked, store
  <2>2. /\ OwnerTaken(link[r].owner) => LinkOk([link[r] EXCEPT !.pc = "OwnerAlreadyLinked"])
        /\ ~OwnerTaken(link[r].owner) => LinkOk([link[r] EXCEPT !.pc = "commit"])
    BY <1>q, <2>1, NoneAssumption DEF LinkOk, LinkRecord
  <2> QED
    BY <1>5, <1>m, <2>1, <2>2 DEF LinkSaveOwner, LinkGo, LinkSteps, LinkEnds
<1>6. CASE LinkRespond(r) \/ LinkLost(r)
  <2>1. /\ UNCHANGED <<accounts, register>>
        /\ \/ link' = [link EXCEPT ![r].pc = "Lost"]
           \/ link[r].pc = "committed" /\ link' = [link EXCEPT ![r].pc = "Linked"]
    BY <1>6 DEF LinkRespond, LinkLost, LinkGo, store
  <2>2. /\ LinkOk([link[r] EXCEPT !.pc = "Lost"])
        /\ link[r].pc = "committed" => LinkOk([link[r] EXCEPT !.pc = "Linked"])
    BY <1>q DEF LinkOk, LinkRecord
  <2> QED
    BY <1>m, <2>1, <2>2 DEF LinkEnds
<1> QED
  BY <1>1, <1>2, <1>3, <1>4, <1>5, <1>6 DEF LinkProgress

-----------------------------------------------------------------------------
(* Accounts: the two commits *)

(* A registration stores a new account, with an email and an owner that no *)
(* stored account has, and that no other open transaction holds.           *)
LEMMA RegisterCommitRows ==
  ASSUME TypeOK, AccountsInv, NEW r \in AccountReq, RegisterCommit(r)
  PROVE  /\ accounts[r] = None /\ accounts'[r] \in AccountRow /\ accounts'[r] # None
         /\ accounts'[r].email = register[r].email /\ accounts'[r].owner = register[r].owner
         /\ \A a \in AccountReq \ {r} : accounts'[a] = accounts[a]
         /\ accounts' \in [AccountReq -> AccountRow \cup {None}]
<1> DEFINE row == [email |-> register[r].email, owner |-> register[r].owner, version |-> 1]
<1>1. /\ register[r].pc = "commit" /\ accounts' = [accounts EXCEPT ![r] = row]
      /\ register[r] \in RegisterRecord /\ RegisterOk(r, register[r])
  BY DEF RegisterCommit, RegisterGo, TypeOK, AccountsInv
<1>2. row \in AccountRow
  BY <1>1 DEF RegisterOk, RegisterRecord, AccountRow
<1>3. row # None /\ row.email = register[r].email /\ row.owner = register[r].owner
  BY <1>2, NoneAssumption
<1> HIDE DEF row
<1> QED
  BY <1>1, <1>2, <1>3 DEF TypeOK, RegisterOk

LEMMA RegisterCommitInv ==
  ASSUME TypeOK, AccountsInv, NEW r \in AccountReq, RegisterCommit(r)
  PROVE  AccountsInv' /\ register' \in [AccountReq -> RegisterRecord]
<1> DEFINE e == register[r].email
           o == register[r].owner
<1>1. /\ register[r].pc = "commit" /\ register' = [register EXCEPT ![r].pc = "committed"]
      /\ register[r] \in RegisterRecord /\ RegisterOk(r, register[r]) /\ UNCHANGED link
  BY DEF RegisterCommit, RegisterGo, TypeOK, AccountsInv
<1>2. /\ accounts[r] = None /\ accounts'[r] # None
      /\ accounts'[r].email = e /\ accounts'[r].owner = o
      /\ \A a \in AccountReq \ {r} : accounts'[a] = accounts[a]
  BY RegisterCommitRows
<1>3. /\ register'[r].pc = "committed" /\ register'[r].email = e /\ register'[r].owner = o
      /\ \A s \in AccountReq \ {r} : register'[s] = register[s]
      /\ register' \in [AccountReq -> RegisterRecord]
  BY <1>1 DEF TypeOK, RegisterRecord, RegisterSteps
<1>4. /\ ~EmailTaken(e) /\ e \in Email
      /\ o # None => ~OwnerTaken(o)
  BY <1>1 DEF RegisterOk
<1>5. /\ \A s \in AccountReq \ {r} : RegistersApart(register[r], register[s])
      /\ \A s \in LinkReq : KindsApart(register[r], link[s])
  BY DEF AccountsInv
<1> HIDE DEF e, o
<1>6. /\ \A x : EmailTaken(x)' <=> (EmailTaken(x) \/ x = e)
      /\ \A x : OwnerTaken(x)' <=> (OwnerTaken(x) \/ x = o)
  BY <1>2 DEF EmailTaken, OwnerTaken
<1>7. ASSUME NEW s \in AccountReq PROVE RegisterOk(s, register[s])'
  <2>1. CASE s = r
    BY <1>1, <1>2, <1>3, <1>4, <2>1 DEF RegisterOk
  <2>2. CASE s # r
    <3>1. /\ RegisterOk(s, register[s]) /\ register'[s] = register[s]
          /\ accounts'[s] = accounts[s]
      BY <1>2, <1>3, <2>2 DEF AccountsInv
    <3>2. /\ register[s].pc \in {"insertOwner", "commit"} => register[s].email # e
          /\ register[s].pc = "commit" /\ register[s].owner # None => register[s].owner # o
      BY <1>1, <1>5, <2>2 DEF RegistersApart, e, o
    <3> QED
      BY <1>6, <3>1, <3>2 DEF RegisterOk
  <2> QED
    BY <2>1, <2>2
<1>8. ASSUME NEW s \in LinkReq PROVE LinkOk(link[s])'
  <2>1. LinkOk(link[s]) /\ link'[s] = link[s]
    BY <1>1 DEF AccountsInv
  <2>2. link[s].pc \notin {"idle", "Lost"} => accounts'[link[s].account] = accounts[link[s].account]
    BY <1>2, <2>1 DEF LinkOk
  <2>3. link[s].pc = "commit" => link[s].owner # o
    BY <1>1, <1>5 DEF KindsApart, o
  <2> QED
    BY <1>6, <2>1, <2>2, <2>3 DEF LinkOk
<1>9. \A s, t \in AccountReq : s # t => RegistersApart(register[s], register[t])'
  BY <1>3 DEF AccountsInv, RegistersApart
<1>10. \A s \in AccountReq, t \in LinkReq : KindsApart(register[s], link[t])'
  BY <1>1, <1>3 DEF AccountsInv, KindsApart
<1>11. \A s, t \in LinkReq : s # t => LinksApart(link[s], link[t])'
  BY <1>1 DEF AccountsInv, LinksApart
<1>12. AccountKeys'
  <2>1. ASSUME NEW x \in AccountReq \ {r}, accounts'[x] # None
        PROVE  /\ accounts'[x].email # e
               /\ accounts'[x].owner # None => accounts'[x].owner # o
    BY <1>2, <1>4, <2>1 DEF EmailTaken, OwnerTaken
  <2> QED
    BY <1>2, <2>1 DEF AccountsInv, AccountKeys
<1> QED
  BY <1>3, <1>7, <1>8, <1>9, <1>10, <1>11, <1>12 DEF AccountsInv

(* A link writes the owner of an account that has none, and its version.   *)
LEMMA LinkCommitRows ==
  ASSUME TypeOK, AccountsInv, NEW r \in LinkReq, LinkCommit(r)
  PROVE  LET a == link[r].account IN
         /\ a \in AccountReq /\ accounts[a] \in AccountRow /\ accounts[a].owner = None
         /\ accounts'[a] \in AccountRow /\ accounts'[a].email = accounts[a].email
         /\ accounts'[a].owner = link[r].owner /\ link[r].owner \in OwnerReq
         /\ accounts'[a].version = accounts[a].version + 1
         /\ \A x \in AccountReq \ {a} : accounts'[x] = accounts[x]
         /\ accounts' \in [AccountReq -> AccountRow \cup {None}]
<1> DEFINE a == link[r].account
           row == [accounts[a] EXCEPT !.owner = link[r].owner, !.version = link[r].version + 1]
<1>1. /\ link[r].pc = "commit" /\ link[r] \in LinkRecord /\ LinkOk(link[r])
      /\ accounts' = [accounts EXCEPT ![a].owner = link[r].owner,
                                      ![a].version = link[r].version + 1]
  BY DEF LinkCommit, LinkGo, TypeOK, AccountsInv
<1>2. /\ a \in AccountReq /\ accounts[a] \in AccountRow /\ link[r].owner \in OwnerReq
      /\ accounts[a].version = link[r].version /\ accounts[a].owner = None
  BY <1>1 DEF LinkOk, TypeOK
<1>3. accounts' = [accounts EXCEPT ![a] = row]
  BY <1>1
<1>4. /\ row \in AccountRow /\ row.email = accounts[a].email /\ row.owner = link[r].owner
      /\ row.version = accounts[a].version + 1
  <2>1. link[r].version + 1 \in Nat
    BY <1>1 DEF LinkRecord
  <2>2. /\ row \in AccountRow /\ row.email = accounts[a].email /\ row.owner = link[r].owner
        /\ row.version = link[r].version + 1
    BY <1>2, <2>1 DEF AccountRow
  <2> QED
    BY <1>2, <2>2
<1> HIDE DEF row
<1> QED
  BY <1>2, <1>3, <1>4 DEF TypeOK

LEMMA LinkCommitInv ==
  ASSUME TypeOK, AccountsInv, NEW r \in LinkReq, LinkCommit(r)
  PROVE  AccountsInv' /\ link' \in [LinkReq -> LinkRecord]
<1> DEFINE a == link[r].account
           o == link[r].owner
<1>1. /\ link[r].pc = "commit" /\ link' = [link EXCEPT ![r].pc = "committed"]
      /\ link[r] \in LinkRecord /\ LinkOk(link[r]) /\ UNCHANGED register
  BY DEF LinkCommit, LinkGo, TypeOK, AccountsInv
<1>2. /\ a \in AccountReq /\ accounts[a] # None /\ accounts'[a] # None
      /\ accounts[a].owner = None /\ accounts'[a].email = accounts[a].email
      /\ accounts'[a].owner = o /\ o \in OwnerReq /\ o # None
      /\ accounts[a].version \in Nat /\ accounts'[a].version = accounts[a].version + 1
      /\ \A x \in AccountReq \ {a} : accounts'[x] = accounts[x]
  BY LinkCommitRows, NoneAssumption DEF AccountRow
<1>3. /\ link'[r] \in LinkRecord /\ link'[r].pc = "committed" /\ link'[r].account = a
      /\ link'[r].owner = o /\ link'[r].nif = link[r].nif
      /\ \A s \in LinkReq \ {r} : link'[s] = link[s]
      /\ link' \in [LinkReq -> LinkRecord]
  BY <1>1 DEF TypeOK, LinkRecord, LinkSteps
<1>4. ~OwnerTaken(o) /\ link[r].nif \in Nif
  BY <1>1 DEF LinkOk
<1>5. /\ \A s \in LinkReq \ {r} : LinksApart(link[s], link[r])
      /\ \A s \in AccountReq : KindsApart(register[s], link[r])
  BY DEF AccountsInv
<1> HIDE DEF a, o
<1>6. /\ \A x : EmailTaken(x)' <=> EmailTaken(x)
      /\ \A x : x # None => (OwnerTaken(x)' <=> (OwnerTaken(x) \/ x = o))
      /\ \A x \in AccountReq : accounts'[x] # None <=> accounts[x] # None
  BY <1>2 DEF EmailTaken, OwnerTaken
<1>7. ASSUME NEW s \in AccountReq PROVE RegisterOk(s, register[s])'
  <2>1. RegisterOk(s, register[s]) /\ register'[s] = register[s]
    BY <1>1 DEF AccountsInv
  <2>2. register[s].pc = "commit" => register[s].owner # o
    BY <1>1, <1>5 DEF KindsApart, o
  <2> QED
    BY <1>6, <2>1, <2>2 DEF RegisterOk
<1>8. ASSUME NEW s \in LinkReq PROVE LinkOk(link[s])'
  <2>1. CASE s = r
    BY <1>2, <1>3, <1>4, <2>1 DEF LinkOk
  <2>2. CASE s # r
    <3>1. LinkOk(link[s]) /\ link'[s] = link[s] /\ link[s] \in LinkRecord
      BY <1>3, <2>2 DEF AccountsInv, TypeOK
    <3>2. /\ link[s].pc \in {"saveOwner", "commit"} => link[s].account # a
          /\ link[s].pc = "commit" => link[s].owner # o /\ link[s].owner # None
      BY <1>1, <1>5, <2>2, <3>1, NoneAssumption DEF LinksApart, LinkOk, a, o
    <3>3. CASE link[s].account # a
      <4>1. link[s].pc \notin {"idle", "Lost"} => accounts'[link[s].account] = accounts[link[s].account]
        BY <1>2, <3>1, <3>3 DEF LinkOk
      <4> QED
        BY <1>6, <3>1, <3>2, <4>1 DEF LinkOk
    <3>4. CASE link[s].account = a
      <4>1. link[s].pc \in {"getOwner", "checkOwner", "save"} => link[s].version = accounts[a].version
        BY <1>2, <3>1, <3>4 DEF LinkOk
      <4>2. link[s].pc \notin {"committed", "Linked", "AlreadyHasOwner", "ConcurrentModification"}
        BY <1>2, <3>1, <3>4 DEF LinkOk
      <4> QED
        BY <1>2, <1>6, <3>1, <3>2, <3>4, <4>1, <4>2 DEF LinkOk
    <3> QED
      BY <3>3, <3>4
  <2> QED
    BY <2>1, <2>2
<1>9. \A s, t \in LinkReq : s # t => LinksApart(link[s], link[t])'
  BY <1>3 DEF AccountsInv, LinksApart
<1>10. \A s \in AccountReq, t \in LinkReq : KindsApart(register[s], link[t])'
  BY <1>1, <1>3 DEF AccountsInv, KindsApart
<1>11. \A s, t \in AccountReq : s # t => RegistersApart(register[s], register[t])'
  BY <1>1 DEF AccountsInv, RegistersApart
<1>12. AccountKeys'
  BY <1>2, <1>4 DEF AccountsInv, AccountKeys, OwnerTaken
<1> QED
  BY <1>3, <1>7, <1>8, <1>9, <1>10, <1>11, <1>12 DEF AccountsInv

-----------------------------------------------------------------------------
(* The invariant *)

(* Steps that change neither owners nor their requests.                    *)
LEMMA EnrolStutter ==
  ASSUME EnrolInv, UNCHANGED <<owners, enrol>>
  PROVE  EnrolInv'
BY DEF EnrolInv, EnrolOk, NifKeys, NifTaken, OwnersOf

(* Steps that change neither accounts nor their requests.                  *)
LEMMA AccountsStutter ==
  ASSUME AccountsInv, UNCHANGED <<accounts, register, link>>
  PROVE  AccountsInv'
BY DEF AccountsInv, RegisterOk, LinkOk, RegistersApart, LinksApart, KindsApart, AccountKeys,
       EmailTaken, OwnerTaken

(* A request that has just arrived holds nothing.                          *)
LEMMA ArrivalsInv ==
  ASSUME IdentityInv, Arrivals
  PROVE  IdentityInv'
<1>0. TypeOK /\ EnrolInv /\ AccountsInv
  BY DEF IdentityInv
<1>1. ASSUME NEW r \in OwnerReq, NEW nif \in Nif, EnrolArrive(r, nif) PROVE IdentityInv'
  <2> DEFINE q == [pc |-> "checkNif", nif |-> nif]
  <2>1. enrol' = [enrol EXCEPT ![r] = q] /\ UNCHANGED <<store, register, link>> /\ enrol[r].pc = "idle"
    BY <1>1 DEF EnrolArrive
  <2>2. q \in EnrolRecord /\ q.pc = "checkNif"
    BY DEF EnrolRecord, EnrolSteps
  <2>3. EnrolOk(r, q)
    BY <1>0, <2>1 DEF EnrolInv, EnrolOk
  <2> HIDE DEF q
  <2>4. EnrolInv' /\ enrol' \in [OwnerReq -> EnrolRecord]
    BY <1>0, <2>1, <2>2, <2>3, EnrolFrame DEF store
  <2> QED
    BY <1>0, <2>1, <2>4, AccountsStutter DEF IdentityInv, TypeOK, store
<1>2. ASSUME NEW r \in AccountReq, NEW email \in Email, NEW o \in OwnerReq \cup {None},
             RegisterArrive(r, email, o)
      PROVE  IdentityInv'
  <2> DEFINE q == [pc |-> "checkEmail", email |-> email, owner |-> o]
  <2>1. /\ register' = [register EXCEPT ![r] = q] /\ UNCHANGED <<store, enrol, link>>
        /\ register[r].pc = "idle"
    BY <1>2 DEF RegisterArrive
  <2>2. q \in RegisterRecord /\ q.pc = "checkEmail"
    BY DEF RegisterRecord, RegisterSteps
  <2>3. RegisterOk(r, q)
    BY <1>0, <2>1 DEF AccountsInv, RegisterOk
  <2> HIDE DEF q
  <2>4. /\ \A s \in AccountReq \ {r} : RegistersApart(q, register[s])
        /\ \A s \in LinkReq : KindsApart(q, link[s])
    BY <2>2 DEF RegistersApart, KindsApart
  <2>5. AccountsInv' /\ register' \in [AccountReq -> RegisterRecord]
    BY <1>0, <2>1, <2>2, <2>3, <2>4, RegisterFrame DEF store
  <2> QED
    BY <1>0, <2>1, <2>5, EnrolStutter DEF IdentityInv, TypeOK, store
<1>3. ASSUME NEW r \in LinkReq, NEW a \in AccountReq, NEW nif \in Nif, LinkArrive(r, a, nif)
      PROVE  IdentityInv'
  <2> DEFINE q == [pc |-> "getAccount", account |-> a, nif |-> nif, owner |-> None, version |-> 0]
  <2>1. /\ link' = [link EXCEPT ![r] = q] /\ UNCHANGED <<store, enrol, register>>
        /\ accounts[a] # None
    BY <1>3 DEF LinkArrive
  <2>2. q \in LinkRecord /\ q.pc = "getAccount"
    BY DEF LinkRecord, LinkSteps
  <2>3. LinkOk(q)
    BY <2>1 DEF LinkOk
  <2> HIDE DEF q
  <2>4. /\ \A s \in LinkReq \ {r} : LinksApart(q, link[s])
        /\ \A s \in AccountReq : KindsApart(register[s], q)
    BY <2>2 DEF LinksApart, KindsApart
  <2>5. AccountsInv' /\ link' \in [LinkReq -> LinkRecord]
    BY <1>0, <2>1, <2>2, <2>3, <2>4, LinkFrame DEF store
  <2> QED
    BY <1>0, <2>1, <2>5, EnrolStutter DEF IdentityInv, TypeOK, store
<1> QED
  BY <1>1, <1>2, <1>3 DEF Arrivals

(* Every step keeps the invariant.                                         *)
LEMMA NextIdentityInv ==
  ASSUME IdentityInv, [Next]_vars
  PROVE  IdentityInv'
<1>0. TypeOK /\ EnrolInv /\ AccountsInv
  BY DEF IdentityInv
<1>1. ASSUME NEW r \in OwnerReq, EnrolProgress(r) \/ EnrolLost(r) PROVE IdentityInv'
  <2>1. UNCHANGED <<accounts, register, link>>
    BY <1>1 DEF EnrolProgress, EnrolCheckNif, EnrolInsert, EnrolCommit, EnrolRespond, EnrolLost, store
  <2> QED
    BY <1>0, <1>1, <2>1, EnrolStep, AccountsStutter DEF IdentityInv, TypeOK
<1>2. ASSUME NEW r \in AccountReq, RegisterProgress(r) \/ RegisterLost(r) PROVE IdentityInv'
  <2>1. UNCHANGED <<owners, enrol, link>> /\ (UNCHANGED accounts \/ RegisterCommit(r))
    BY <1>2 DEF RegisterProgress, RegisterCheckEmail, RegisterGetOwner, RegisterCheckOwner,
                RegisterInsert, RegisterInsertOwner, RegisterCommit, RegisterRespond,
                RegisterLost, store
  <2>2. AccountsInv' /\ register' \in [AccountReq -> RegisterRecord]
    BY <1>0, <1>2, RegisterStep, RegisterCommitInv
  <2>3. accounts' \in [AccountReq -> AccountRow \cup {None}]
    BY <1>0, <2>1, RegisterCommitRows DEF TypeOK
  <2> QED
    BY <1>0, <2>1, <2>2, <2>3, EnrolStutter DEF IdentityInv, TypeOK
<1>3. ASSUME NEW r \in LinkReq, LinkProgress(r) \/ LinkLost(r) PROVE IdentityInv'
  <2>1. UNCHANGED <<owners, enrol, register>> /\ (UNCHANGED accounts \/ LinkCommit(r))
    BY <1>3 DEF LinkProgress, LinkGetAccount, LinkGetOwner, LinkCheckOwner, LinkSave,
                LinkSaveOwner, LinkCommit, LinkRespond, LinkLost, store
  <2>2. AccountsInv' /\ link' \in [LinkReq -> LinkRecord]
    BY <1>0, <1>3, LinkStep, LinkCommitInv
  <2>3. accounts' \in [AccountReq -> AccountRow \cup {None}]
    BY <1>0, <2>1, LinkCommitRows DEF TypeOK
  <2> QED
    BY <1>0, <2>1, <2>2, <2>3, EnrolStutter DEF IdentityInv, TypeOK
<1>4. CASE UNCHANGED vars
  BY <1>0, <1>4, EnrolStutter, AccountsStutter DEF IdentityInv, TypeOK, vars
<1> QED
  BY <1>1, <1>2, <1>3, <1>4, ArrivalsInv DEF Next, Losses

(* In every reachable state.                                               *)
LEMMA Reachable == Spec => []IdentityInv
<1>1. IdentityInv /\ [Next]_vars => IdentityInv'
  BY NextIdentityInv
<1> QED
  BY InitIdentityInv, <1>1, PTL DEF Spec

-----------------------------------------------------------------------------
(* The results *)

(* Rows are whole or absent, requests at a step or ended with an answer.   *)
THEOREM Typing == Spec => []TypeOK
<1>1. IdentityInv => TypeOK
  BY DEF IdentityInv
<1> QED
  BY Reachable, <1>1, PTL

(* A NIF has one owner, an email one account and an owner one account,     *)
(* whatever registrations and links claim them at the same time.           *)
THEOREM Keys == Spec => []KeysAreUnique
<1>1. IdentityInv => KeysAreUnique
  BY DEF IdentityInv, EnrolInv, AccountsInv, NifKeys, AccountKeys, KeysAreUnique
<1> QED
  BY Reachable, <1>1, PTL

(* A success is stored, and a refusal names what is really taken.          *)
THEOREM TrueAnswers == Spec => []AnswersAreTrue
<1>1. IdentityInv => AnswersAreTrue
  BY DEF IdentityInv, EnrolInv, EnrolOk, AccountsInv, RegisterOk, LinkOk, AnswersAreTrue,
         RegisterEnds
<1> QED
  BY Reachable, <1>1, PTL

(* Commits link accounts as OwnerLinks allows; other steps link none.      *)
LEMMA LinksStep ==
  ASSUME IdentityInv, [Next]_vars
  PROVE  [Links!Next]_([a \in AccountReq |-> IF accounts[a] = None THEN None
                                             ELSE accounts[a].owner])
<1> DEFINE owned == [a \in AccountReq |-> IF accounts[a] = None THEN None ELSE accounts[a].owner]
<1>0. TypeOK /\ AccountsInv
  BY DEF IdentityInv
<1>1. CASE UNCHANGED accounts
  BY <1>1
<1>2. ASSUME NEW a \in AccountReq, NEW o \in OwnerReq, owned[a] = None, ~OwnerTaken(o),
             accounts'[a] # None, accounts'[a].owner = o,
             \A x \in AccountReq \ {a} : accounts'[x] = accounts[x]
      PROVE  Links!Next
  <2>1. \A x \in AccountReq : owned[x] # o
    BY <1>2, NoneAssumption DEF OwnerTaken
  <2>2. owned' = [owned EXCEPT ![a] = o]
    BY <1>2
  <2> QED
    BY <1>2, <2>1, <2>2 DEF Links!Next, Links!Link
<1>3. ASSUME NEW r \in AccountReq, RegisterCommit(r) PROVE Links!Next \/ owned' = owned
  <2>1. /\ accounts[r] = None /\ accounts'[r] # None /\ accounts'[r].owner = register[r].owner
        /\ \A a \in AccountReq \ {r} : accounts'[a] = accounts[a]
    BY <1>0, <1>3, RegisterCommitRows
  <2>2. register[r].pc = "commit" /\ RegisterOk(r, register[r]) /\ register[r] \in RegisterRecord
    BY <1>0, <1>3 DEF RegisterCommit, RegisterGo, AccountsInv, TypeOK
  <2>3. CASE register[r].owner = None
    BY <2>1, <2>3
  <2>4. CASE register[r].owner # None
    BY <1>2, <2>1, <2>2, <2>4 DEF RegisterOk, RegisterRecord
  <2> QED
    BY <2>3, <2>4
<1>4. ASSUME NEW r \in LinkReq, LinkCommit(r) PROVE Links!Next
  <2>1. ~OwnerTaken(link[r].owner)
    BY <1>0, <1>4 DEF LinkCommit, LinkGo, AccountsInv, LinkOk
  <2> DEFINE a == link[r].account
  <2>2. /\ a \in AccountReq /\ accounts[a].owner = None /\ accounts'[a] # None
        /\ accounts'[a].owner = link[r].owner /\ link[r].owner \in OwnerReq
        /\ \A x \in AccountReq \ {a} : accounts'[x] = accounts[x]
    BY <1>0, <1>4, LinkCommitRows, NoneAssumption
  <2> HIDE DEF a
  <2> QED
    BY <1>2, <2>1, <2>2
<1>5. \/ UNCHANGED accounts
      \/ \E r \in AccountReq : RegisterCommit(r)
      \/ \E r \in LinkReq : LinkCommit(r)
  BY DEF Next, Arrivals, EnrolArrive, RegisterArrive, LinkArrive, Losses, EnrolLost,
         RegisterLost, LinkLost, EnrolProgress, EnrolCheckNif, EnrolInsert, EnrolCommit,
         EnrolRespond, RegisterProgress, RegisterCheckEmail, RegisterGetOwner,
         RegisterCheckOwner, RegisterInsert, RegisterInsertOwner, RegisterRespond,
         LinkProgress, LinkGetAccount, LinkGetOwner, LinkCheckOwner, LinkSave,
         LinkSaveOwner, LinkRespond, store, vars
<1> QED
  BY <1>1, <1>3, <1>4, <1>5

(* An account is linked once and for ever, to an owner no other has: what  *)
(* voting takes for granted of link_owner_to_account and its rivals.       *)
THEOREM Refinement == Spec => ImplementsOwnerLinks
<1>1. Init => Links!Init
  BY DEF Init, Links!Init
<1>2. IdentityInv /\ [Next]_vars =>
        [Links!Next]_([a \in AccountReq |-> IF accounts[a] = None THEN None
                                            ELSE accounts[a].owner])
  BY LinksStep
<1> QED
  BY Reachable, <1>1, <1>2, PTL DEF Spec, ImplementsOwnerLinks, Links!Spec
=============================================================================
