------------------------------ MODULE Identity ------------------------------
(***************************************************************************)
(* Owners and accounts: the requests that register an owner, register an   *)
(* account (perhaps with an owner) and link the current account to the     *)
(* owner of a NIF, as transactions whose statements interleave.            *)
(*                                                                         *)
(* owners and accounts are the committed rows, named by the request that   *)
(* inserts them.  What an open transaction has written shows in its pc:    *)
(* an owner at "commit" holds its NIF, a registration at "insertOwner" or  *)
(* "commit" its email, and at "commit" its owner; a link at "saveOwner" or *)
(* "commit" holds the row of its account, and at "commit" its owner.       *)
(***************************************************************************)
EXTENDS Integers

CONSTANTS OwnerReq, AccountReq, LinkReq, Nif, Email, None

VARIABLES owners, accounts, enrol, register, link

store == <<owners, accounts>>
vars  == <<owners, accounts, enrol, register, link>>

-----------------------------------------------------------------------------
(* Rows and requests *)

OwnerRow == [nif: Nif]
AccountRow == [email: Email, owner: OwnerReq \cup {None}, version: Nat]

ASSUME NoneAssumption ==
  /\ None \notin Nif \cup Email \cup OwnerReq \cup AccountReq
  /\ None \notin OwnerRow /\ None \notin AccountRow

EnrolSteps == {"checkNif", "insert", "commit", "committed"}
EnrolEnds  == {"Created", "DuplicateNif", "Lost"}
RegisterSteps == {"checkEmail", "getOwner", "checkOwner", "insert", "insertOwner",
                  "commit", "committed"}
RegisterEnds  == {"Created", "DuplicateEmail", "OwnerNotFound", "OwnerAlreadyLinked",
                  "Lost"}
LinkSteps == {"getAccount", "getOwner", "checkOwner", "save", "saveOwner",
              "commit", "committed"}
LinkEnds  == {"Linked", "AlreadyHasOwner", "OwnerNotFound", "OwnerAlreadyLinked",
              "ConcurrentModification", "Lost"}

EnrolRecord == [pc: EnrolSteps \cup EnrolEnds \cup {"idle"}, nif: Nif \cup {None}]
RegisterRecord == [pc: RegisterSteps \cup RegisterEnds \cup {"idle"},
                   email: Email \cup {None}, owner: OwnerReq \cup {None}]
LinkRecord == [pc: LinkSteps \cup LinkEnds \cup {"idle"},
               account: AccountReq \cup {None}, nif: Nif \cup {None},
               owner: OwnerReq \cup {None}, version: Nat]

Init ==
  /\ owners = [o \in OwnerReq |-> None]
  /\ accounts = [a \in AccountReq |-> None]
  /\ enrol = [r \in OwnerReq |-> [pc |-> "idle", nif |-> None]]
  /\ register = [r \in AccountReq |-> [pc |-> "idle", email |-> None, owner |-> None]]
  /\ link = [r \in LinkReq |->
       [pc |-> "idle", account |-> None, nif |-> None, owner |-> None, version |-> 0]]

\* Mutant: get_by_nif gives the NIF in the place of the owner's id.
NifItself(nif) == {nif}

OwnersOf(nif) == {o \in OwnerReq : owners[o] # None /\ owners[o].nif = nif}

NifTaken(nif) == OwnersOf(nif) # {}
EmailTaken(email) == \E a \in AccountReq : accounts[a] # None /\ accounts[a].email = email
OwnerTaken(o) == \E a \in AccountReq : accounts[a] # None /\ accounts[a].owner = o

-----------------------------------------------------------------------------
(* RegisterOwner *)

EnrolGo(r, from, to) == enrol[r].pc = from /\ enrol' = [enrol EXCEPT ![r].pc = to]

EnrolArrive(r, nif) == /\ enrol[r].pc = "idle"
                       /\ enrol' = [enrol EXCEPT ![r] = [pc |-> "checkNif", nif |-> nif]]
                       /\ UNCHANGED <<store, register, link>>

EnrolCheckNif(r) ==
  /\ IF NifTaken(enrol[r].nif) THEN EnrolGo(r, "checkNif", "DuplicateNif")
     ELSE EnrolGo(r, "checkNif", "insert")
  /\ UNCHANGED <<store, register, link>>

\* Mutant: uq_owners_nif is a plain index.
NifIndexIsPlain(q, r) == FALSE

NifInDoubt(q, r) == enrol[q].pc = "commit" /\ enrol[q].nif = enrol[r].nif

EnrolInsert(r) ==
  /\ \A q \in OwnerReq \ {r} : ~NifInDoubt(q, r)
  /\ IF NifTaken(enrol[r].nif) THEN EnrolGo(r, "insert", "DuplicateNif")
     ELSE EnrolGo(r, "insert", "commit")
  /\ UNCHANGED <<store, register, link>>

EnrolCommit(r) == /\ EnrolGo(r, "commit", "committed")
                  /\ owners' = [owners EXCEPT ![r] = [nif |-> enrol[r].nif]]
                  /\ UNCHANGED <<accounts, register, link>>

EnrolRespond(r) == /\ EnrolGo(r, "committed", "Created")
                   /\ UNCHANGED <<store, register, link>>

EnrolLost(r) == /\ enrol[r].pc \in EnrolSteps
                /\ enrol' = [enrol EXCEPT ![r].pc = "Lost"]
                /\ UNCHANGED <<store, register, link>>

-----------------------------------------------------------------------------
(* The unique indexes of accounts.  An insert or update waits for the open *)
(* transaction that has the same key, and fails if it commits.             *)

EmailInDoubt(q, r) == /\ register[q].email = register[r].email
                      /\ register[q].pc \in {"insertOwner", "commit"}

\* Mutant: accounts.owner_id has no unique constraint, as before it was added.
OwnerIndexIsMissing(o) == FALSE
\* Mutant: a writer of an owner waits for all that will write it.
OwnerInDoubtEarly(o) ==
  \/ \E q \in AccountReq :
       register[q].owner = o /\ register[q].pc \in {"insertOwner", "commit"}
  \/ \E q \in LinkReq : link[q].owner = o /\ link[q].pc = "commit"

OwnerInDoubt(o) ==
  \/ \E q \in AccountReq : register[q].owner = o /\ register[q].pc = "commit"
  \/ \E q \in LinkReq : link[q].owner = o /\ link[q].pc = "commit"

-----------------------------------------------------------------------------
(* RegisterAccount *)

RegisterGo(r, from, to) == /\ register[r].pc = from
                           /\ register' = [register EXCEPT ![r].pc = to]

RegisterArrive(r, email, o) ==
  /\ register[r].pc = "idle"
  /\ register' = [register EXCEPT ![r] =
        [pc |-> "checkEmail", email |-> email, owner |-> o]]
  /\ UNCHANGED <<store, enrol, link>>

RegisterCheckEmail(r) ==
  /\ \/ /\ EmailTaken(register[r].email)
        /\ RegisterGo(r, "checkEmail", "DuplicateEmail")
     \/ /\ ~EmailTaken(register[r].email)
        /\ RegisterGo(r, "checkEmail",
                      IF register[r].owner = None THEN "insert" ELSE "getOwner")
  /\ UNCHANGED <<store, enrol, link>>

RegisterGetOwner(r) ==
  /\ RegisterGo(r, "getOwner",
                IF owners[register[r].owner] = None THEN "OwnerNotFound"
                ELSE "checkOwner")
  /\ UNCHANGED <<store, enrol, link>>

RegisterCheckOwner(r) ==
  /\ RegisterGo(r, "checkOwner",
                IF OwnerTaken(register[r].owner) THEN "OwnerAlreadyLinked" ELSE "insert")
  /\ UNCHANGED <<store, enrol, link>>

(* The insert adds its entry to uq_accounts_email, ...                     *)
RegisterInsert(r) ==
  /\ \A q \in AccountReq \ {r} : ~EmailInDoubt(q, r)
  /\ RegisterGo(r, "insert",
                IF EmailTaken(register[r].email) THEN "DuplicateEmail" ELSE "insertOwner")
  /\ UNCHANGED <<store, enrol, link>>

(* ... and then to uq_accounts_owner_id, where NULLs are distinct.         *)
RegisterInsertOwner(r) ==
  LET o == register[r].owner IN
  /\ o = None \/ ~OwnerInDoubt(o)
  /\ RegisterGo(r, "insertOwner",
                IF o # None /\ OwnerTaken(o) THEN "OwnerAlreadyLinked" ELSE "commit")
  /\ UNCHANGED <<store, enrol, link>>

RegisterCommit(r) ==
  /\ RegisterGo(r, "commit", "committed")
  /\ accounts' = [accounts EXCEPT ![r] =
        [email |-> register[r].email, owner |-> register[r].owner, version |-> 1]]
  /\ UNCHANGED <<owners, enrol, link>>

RegisterRespond(r) == /\ RegisterGo(r, "committed", "Created")
                      /\ UNCHANGED <<store, enrol, link>>

RegisterLost(r) == /\ register[r].pc \in RegisterSteps
                   /\ register' = [register EXCEPT ![r].pc = "Lost"]
                   /\ UNCHANGED <<store, enrol, link>>

-----------------------------------------------------------------------------
(* LinkOwnerToAccount *)

LinkGo(r, from, to) == link[r].pc = from /\ link' = [link EXCEPT ![r].pc = to]

LinkArrive(r, a, nif) ==
  /\ link[r].pc = "idle" /\ accounts[a] # None
  /\ link' = [link EXCEPT ![r] = [pc |-> "getAccount", account |-> a, nif |-> nif,
                                  owner |-> None, version |-> 0]]
  /\ UNCHANGED <<store, enrol, register>>

LinkGetAccount(r) ==
  LET row == accounts[link[r].account] IN
  /\ link[r].pc = "getAccount"
  /\ link' = [link EXCEPT
        ![r].pc = IF row.owner = None THEN "getOwner" ELSE "AlreadyHasOwner",
        ![r].version = row.version]
  /\ UNCHANGED <<store, enrol, register>>

LinkGetOwner(r) ==
  /\ \/ ~NifTaken(link[r].nif) /\ LinkGo(r, "getOwner", "OwnerNotFound")
     \/ \E o \in OwnersOf(link[r].nif) :
          /\ link[r].pc = "getOwner"
          /\ link' = [link EXCEPT ![r].pc = "checkOwner", ![r].owner = o]
  /\ UNCHANGED <<store, enrol, register>>

LinkCheckOwner(r) ==
  /\ LinkGo(r, "checkOwner",
            IF OwnerTaken(link[r].owner) THEN "OwnerAlreadyLinked" ELSE "save")
  /\ UNCHANGED <<store, enrol, register>>

AccountLocked(q, a) == link[q].account = a /\ link[q].pc \in {"saveOwner", "commit"}

\* Mutant: the upsert has no WHERE.
AnyVersionMatches(r) == TRUE

(* The upsert's WHERE version = expected.                                  *)
VersionMatches(r) == accounts[link[r].account].version = link[r].version

(* The upsert locks the row of the account and compares its version, ...   *)
LinkSave(r) ==
  /\ \A q \in LinkReq \ {r} : ~AccountLocked(q, link[r].account)
  /\ LinkGo(r, "save", IF VersionMatches(r) THEN "saveOwner" ELSE "ConcurrentModification")
  /\ UNCHANGED <<store, enrol, register>>

(* ... and then adds its entry to uq_accounts_owner_id.                    *)
LinkSaveOwner(r) ==
  /\ ~OwnerInDoubt(link[r].owner)
  /\ LinkGo(r, "saveOwner",
            IF OwnerTaken(link[r].owner) THEN "OwnerAlreadyLinked" ELSE "commit")
  /\ UNCHANGED <<store, enrol, register>>

\* Mutant: the row is written with the version that was read.
LinkCommitSameVersion(r) ==
  /\ LinkGo(r, "commit", "committed")
  /\ accounts' = [accounts EXCEPT ![link[r].account].owner = link[r].owner,
                                  ![link[r].account].version = link[r].version]
  /\ UNCHANGED <<owners, enrol, register>>

LinkCommit(r) ==
  /\ LinkGo(r, "commit", "committed")
  /\ accounts' = [accounts EXCEPT ![link[r].account].owner = link[r].owner,
                                  ![link[r].account].version = link[r].version + 1]
  /\ UNCHANGED <<owners, enrol, register>>

LinkRespond(r) == /\ LinkGo(r, "committed", "Linked")
                  /\ UNCHANGED <<store, enrol, register>>

LinkLost(r) == /\ link[r].pc \in LinkSteps
               /\ link' = [link EXCEPT ![r].pc = "Lost"]
               /\ UNCHANGED <<store, enrol, register>>

-----------------------------------------------------------------------------
(* The system *)

EnrolProgress(r) ==
  EnrolCheckNif(r) \/ EnrolInsert(r) \/ EnrolCommit(r) \/ EnrolRespond(r)

RegisterProgress(r) ==
  \/ RegisterCheckEmail(r) \/ RegisterGetOwner(r) \/ RegisterCheckOwner(r)
  \/ RegisterInsert(r) \/ RegisterInsertOwner(r) \/ RegisterCommit(r)
  \/ RegisterRespond(r)

LinkProgress(r) ==
  \/ LinkGetAccount(r) \/ LinkGetOwner(r) \/ LinkCheckOwner(r) \/ LinkSave(r)
  \/ LinkSaveOwner(r) \/ LinkCommit(r) \/ LinkRespond(r)

Arrivals ==
  \/ \E r \in OwnerReq, nif \in Nif : EnrolArrive(r, nif)
  \/ \E r \in AccountReq, email \in Email, o \in OwnerReq \cup {None} :
       RegisterArrive(r, email, o)
  \/ \E r \in LinkReq, a \in AccountReq, nif \in Nif : LinkArrive(r, a, nif)

Losses == \/ \E r \in OwnerReq : EnrolLost(r)
          \/ \E r \in AccountReq : RegisterLost(r)
          \/ \E r \in LinkReq : LinkLost(r)

Next == \/ Arrivals \/ Losses
        \/ \E r \in OwnerReq : EnrolProgress(r)
        \/ \E r \in AccountReq : RegisterProgress(r)
        \/ \E r \in LinkReq : LinkProgress(r)

(* An event loop runs every task that can run.                             *)
Fairness == /\ \A r \in OwnerReq : WF_vars(EnrolProgress(r))
            /\ \A r \in AccountReq : WF_vars(RegisterProgress(r))
            /\ \A r \in LinkReq : WF_vars(LinkProgress(r))

Spec == Init /\ [][Next]_vars
FairSpec == Spec /\ Fairness

-----------------------------------------------------------------------------
(* Properties *)

(* Every variable keeps its type.                                          *)
TypeOK ==
  /\ owners \in [OwnerReq -> OwnerRow \cup {None}]
  /\ accounts \in [AccountReq -> AccountRow \cup {None}]
  /\ enrol \in [OwnerReq -> EnrolRecord]
  /\ register \in [AccountReq -> RegisterRecord]
  /\ link \in [LinkReq -> LinkRecord]

(* A NIF has one owner, an email one account and an owner one account,     *)
(* whichever of registration and linking write it.                         *)
KeysAreUnique ==
  /\ \A o1, o2 \in OwnerReq :
       owners[o1] # None /\ owners[o2] # None /\ owners[o1].nif = owners[o2].nif
       => o1 = o2
  /\ \A a1, a2 \in AccountReq :
       /\ accounts[a1] # None /\ accounts[a2] # None
       /\ \/ accounts[a1].email = accounts[a2].email
          \/ accounts[a1].owner # None /\ accounts[a1].owner = accounts[a2].owner
       => a1 = a2

(* A success is stored, and a refusal is true: the email, NIF or owner it  *)
(* names is taken, and a link refused with 412 or for a linked account     *)
(* finds its account linked.  Claims never refuse each other in vain.      *)
AnswersAreTrue ==
  /\ \A r \in OwnerReq :
       /\ enrol[r].pc = "Created" => owners[r] # None
       /\ enrol[r].pc = "DuplicateNif" => NifTaken(enrol[r].nif) /\ owners[r] = None
  /\ \A r \in AccountReq :
       /\ register[r].pc = "Created" => accounts[r] # None
       /\ register[r].pc \in RegisterEnds \ {"Created", "Lost"} => accounts[r] = None
       /\ register[r].pc = "DuplicateEmail" => EmailTaken(register[r].email)
       /\ register[r].pc = "OwnerAlreadyLinked" => OwnerTaken(register[r].owner)
  /\ \A r \in LinkReq :
       /\ link[r].pc = "Linked" => accounts[link[r].account].owner = link[r].owner
       /\ link[r].pc = "OwnerAlreadyLinked" => OwnerTaken(link[r].owner)
       /\ link[r].pc \in {"AlreadyHasOwner", "ConcurrentModification"} =>
            accounts[link[r].account].owner # None

(* Every account's link changes as the abstract specification allows.      *)
Links == INSTANCE OwnerLinks WITH
  Account <- AccountReq, Owner <- OwnerReq,
  link <- [a \in AccountReq |-> IF accounts[a] = None THEN None ELSE accounts[a].owner]

(* The component implements OwnerLinks: an account is linked once and for  *)
(* ever, to an owner no other account has.                                 *)
ImplementsOwnerLinks == Links!Spec

(* Claims to one owner end: the waits of registrations and links for each  *)
(* other are never circular.                                               *)
ClaimsAreAnswered ==
  /\ \A r \in AccountReq : register[r].pc \in RegisterSteps ~> register[r].pc \in RegisterEnds
  /\ \A r \in LinkReq : link[r].pc \in LinkSteps ~> link[r].pc \in LinkEnds
=============================================================================
