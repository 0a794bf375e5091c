------------------------ MODULE CommunityGroupProofs ------------------------
(***************************************************************************)
(* Groups of communities, proved for every number of requests, communities *)
(* and names: no racing change of a group is lost or applied twice, and    *)
(* the component implements Membership.  The invariant says that a change  *)
(* which finds the version it has read finds the members it has read too.  *)
(***************************************************************************)
EXTENDS CommunityGroup, FiniteSetTheorems, TLAPS

TwoMembers(s) == \E c, d \in s : c # d

(* A creation that may commit has a slug that no group has, nor any other  *)
(* open transaction; its group is stored when it commits, and not before.  *)
CreateOk(g, q) ==
  /\ q.pc \in CreateSteps => q.name \in Name
  /\ q.pc \in {"insert", "commit"} => TwoMembers(q.members) /\ SlugOf[q.name] \in Slug
  /\ q.pc = "commit" => ~SlugTaken(SlugOf[q.name])
  /\ q.pc \notin {"committed", "Created", "Lost"} => groups[g] = None

SlugsApart(p, q) == p.pc = "commit" /\ q.pc = "commit" => SlugOf[p.name] # SlugOf[q.name]

(* What a change makes of the members it has read, by the time it saves.   *)
AsApplied(q, read) ==
  IF q.pc \in {"save", "commit"}
  THEN \/ q.op = "add" /\ q.community \notin read /\ q.members = read \cup {q.community}
       \/ q.op = "remove" /\ q.community \in read /\ q.members = read \ {q.community}
  ELSE q.members = read

ChangeOk(q) ==
  /\ q.pc \in ChangeSteps => q.group \in CreateReq /\ q.community \in Community
  /\ q.pc \in ChangeSteps \ {"getGroup", "committed"} =>
       /\ q.wrote = "no"
       /\ groups[q.group] # None /\ q.version <= groups[q.group].version
       /\ q.version = groups[q.group].version => AsApplied(q, groups[q.group].members)
  /\ q.pc \in {"idle", "getGroup"} => q.wrote = "no"
  /\ q.pc \in {"save", "commit"} /\ q.op = "remove" => TwoMembers(q.members)
  /\ q.pc = "commit" => q.version = groups[q.group].version
  /\ q.wrote = "yes" => q.group \in CreateReq /\ groups[q.group] # None

ChangesApart(p, q) == p.pc = "commit" /\ q.pc = "commit" => p.group # q.group

Written == {r \in ChangeReq : change[r].wrote = "yes"}

GroupsOk ==
  /\ \A g \in CreateReq : groups[g] # None => TwoMembers(groups[g].members)
  /\ \A g, h \in CreateReq :
       g # h /\ groups[g] # None /\ groups[h] # None => groups[g].slug # groups[h].slug

GroupInv ==
  /\ TypeOK
  /\ GroupsOk
  /\ \A g \in CreateReq : CreateOk(g, create[g])
  /\ \A g, h \in CreateReq : g # h => SlugsApart(create[g], create[h])
  /\ \A r \in ChangeReq : ChangeOk(change[r])
  /\ \A r, s \in ChangeReq : r # s => ChangesApart(change[r], change[s])
  /\ IsFiniteSet(Written)
  /\ MembersAreTheSum

-----------------------------------------------------------------------------
(* Counting members and changes *)

(* _MINIMUM_MEMBERS of any set, of which Cardinality may say nothing when  *)
(* it is infinite, are two members.                                        *)
LEMMA EnoughIsTwo ==
  ASSUME NEW s, EnoughMembers(s)
  PROVE  TwoMembers(s)
<1> SUFFICES ASSUME ~TwoMembers(s) PROVE FALSE
  OBVIOUS
<1>1. CASE s = {}
  BY <1>1, FS_EmptySet DEF EnoughMembers
<1>2. CASE s # {}
  <2>1. PICK c : s = {c}
    BY <1>2 DEF TwoMembers
  <2> QED
    <3>1. Cardinality({c}) = 1
      BY FS_Singleton
    <3> QED
      BY <2>1, <3>1 DEF EnoughMembers
<1> QED
  BY <1>1, <1>2

(* The changes of one kind that were written, of which Count is the number *)
WrittenFor(g, op, c) ==
  {r \in ChangeReq : /\ change[r].wrote = "yes" /\ change[r].op = op
                     /\ change[r].group = g /\ change[r].community = c}

LEMMA CountsAreNumbers ==
  ASSUME IsFiniteSet(Written)
  PROVE  \A g, op, c : /\ IsFiniteSet(WrittenFor(g, op, c))
                       /\ Count(g, op, c) = Cardinality(WrittenFor(g, op, c))
                       /\ Count(g, op, c) \in Nat
<1> SUFFICES ASSUME NEW g, NEW op, NEW c
             PROVE  /\ IsFiniteSet(WrittenFor(g, op, c))
                    /\ Count(g, op, c) = Cardinality(WrittenFor(g, op, c))
                    /\ Count(g, op, c) \in Nat
  OBVIOUS
<1>1. WrittenFor(g, op, c) \subseteq Written
  BY DEF WrittenFor, Written
<1>2. IsFiniteSet(WrittenFor(g, op, c))
  BY <1>1, FS_Subset
<1> QED
  BY <1>2, FS_CardinalityType DEF Count, WrittenFor

-----------------------------------------------------------------------------
(* Steps that store nothing *)

LEMMA InitGroupInv == Init => GroupInv
<1> SUFFICES ASSUME Init PROVE GroupInv
  OBVIOUS
<1>1. TypeOK
  BY DEF Init, TypeOK, CreateRecord, NoCreate, ChangeRecord, NoChange
<1>2. GroupsOk
  BY DEF Init, GroupsOk
<1>3. /\ \A g \in CreateReq : CreateOk(g, create[g])
      /\ \A g, h \in CreateReq : SlugsApart(create[g], create[h])
  BY DEF Init, NoCreate, CreateOk, CreateSteps, SlugsApart
<1>4. /\ \A r \in ChangeReq : ChangeOk(change[r])
      /\ \A r, s \in ChangeReq : ChangesApart(change[r], change[s])
  BY DEF Init, NoChange, ChangeOk, ChangeSteps, ChangesApart
<1>5. IsFiniteSet(Written)
  <2>1. Written = {}
    BY DEF Init, NoChange, Written
  <2> QED
    BY <2>1, FS_EmptySet
<1>6. MembersAreTheSum
  BY DEF Init, MembersAreTheSum
<1> QED
  BY <1>1, <1>2, <1>3, <1>4, <1>5, <1>6 DEF GroupInv

(* A step of one creation that stores nothing.                             *)
LEMMA CreateFrame ==
  ASSUME GroupInv, NEW g \in CreateReq, NEW q \in CreateRecord,
         create' = [create EXCEPT ![g] = q], UNCHANGED <<stored, groups, change>>,
         CreateOk(g, q), \A h \in CreateReq \ {g} : SlugsApart(q, create[h]),
         groups[g] # None => q.members = create[g].members
  PROVE  GroupInv'
<1>1. /\ \A h \in CreateReq : create'[h] = IF h = g THEN q ELSE create[h]
      /\ create' \in [CreateReq -> CreateRecord]
  BY DEF GroupInv, TypeOK
<1>2. TypeOK' /\ GroupsOk'
  BY <1>1 DEF GroupInv, TypeOK, GroupsOk
<1>3. \A h \in CreateReq : CreateOk(h, create[h])'
  <2>1. \A h \in CreateReq : CreateOk(h, create'[h])
    BY <1>1 DEF GroupInv
  <2> QED
    BY <2>1 DEF CreateOk, SlugTaken
<1>4. \A h, k \in CreateReq : h # k => SlugsApart(create[h], create[k])'
  <2>1. \A h \in CreateReq \ {g} : SlugsApart(create[h], q)
    BY DEF SlugsApart
  <2>2. \A h, k \in CreateReq : h # k => SlugsApart(create'[h], create'[k])
    BY <1>1, <2>1 DEF GroupInv
  <2> QED
    BY <2>2 DEF SlugsApart
<1>5. /\ \A r \in ChangeReq : ChangeOk(change[r])'
      /\ \A r, s \in ChangeReq : r # s => ChangesApart(change[r], change[s])'
      /\ IsFiniteSet(Written)'
  BY DEF GroupInv, ChangeOk, AsApplied, ChangesApart, Written
<1>6. MembersAreTheSum'
  <2>1. \A h, op, c : Count(h, op, c)' = Count(h, op, c)
    BY DEF Count
  <2>2. \A h \in CreateReq : groups[h] # None => create'[h].members = create[h].members
    BY <1>1
  <2> QED
    BY <2>1, <2>2 DEF GroupInv, MembersAreTheSum
<1> QED
  BY <1>2, <1>3, <1>4, <1>5, <1>6 DEF GroupInv

(* A step of one change that stores nothing.                               *)
LEMMA ChangeFrame ==
  ASSUME GroupInv, NEW r \in ChangeReq, NEW q \in ChangeRecord,
         change' = [change EXCEPT ![r] = q], UNCHANGED <<stored, groups, create>>,
         ChangeOk(q), \A s \in ChangeReq \ {r} : ChangesApart(q, change[s]),
         q.wrote = change[r].wrote,
         q.wrote = "yes" => /\ q.op = change[r].op /\ q.group = change[r].group
                            /\ q.community = change[r].community
  PROVE  GroupInv'
<1>1. /\ \A s \in ChangeReq : change'[s] = IF s = r THEN q ELSE change[s]
      /\ change' \in [ChangeReq -> ChangeRecord]
  BY DEF GroupInv, TypeOK
<1>2. TypeOK' /\ GroupsOk'
  BY <1>1 DEF GroupInv, TypeOK, GroupsOk
<1>3. /\ \A h \in CreateReq : CreateOk(h, create[h])'
      /\ \A h, k \in CreateReq : h # k => SlugsApart(create[h], create[k])'
  BY DEF GroupInv, CreateOk, SlugTaken, SlugsApart
<1>4. \A s \in ChangeReq : ChangeOk(change[s])'
  <2>1. \A s \in ChangeReq : ChangeOk(change'[s])
    BY <1>1 DEF GroupInv
  <2> QED
    BY <2>1 DEF ChangeOk, AsApplied
<1>5. \A s, t \in ChangeReq : s # t => ChangesApart(change[s], change[t])'
  <2>1. \A s \in ChangeReq \ {r} : ChangesApart(change[s], q)
    BY DEF ChangesApart
  <2>2. \A s, t \in ChangeReq : s # t => ChangesApart(change'[s], change'[t])
    BY <1>1, <2>1 DEF GroupInv
  <2> QED
    BY <2>2 DEF ChangesApart
<1>6. Written' = Written
  BY <1>1 DEF Written
<1>7. IsFiniteSet(Written)'
  BY <1>6 DEF GroupInv
<1>8. MembersAreTheSum'
  <2>1. \A h, op, c : WrittenFor(h, op, c)' = WrittenFor(h, op, c)
    BY <1>1 DEF WrittenFor
  <2>2. \A h, op, c : Count(h, op, c)' = Count(h, op, c)
    BY <2>1 DEF Count, WrittenFor
  <2> QED
    BY <2>2 DEF GroupInv, MembersAreTheSum
<1> QED
  BY <1>2, <1>3, <1>4, <1>5, <1>7, <1>8 DEF GroupInv

(* A creation moves; its slug is taken from no other.                      *)
LEMMA CreateStep ==
  ASSUME GroupInv, NEW g \in CreateReq,
         CreateProgress(g) \/ CreateLost(g), ~CreateCommit(g)
  PROVE  GroupInv'
<1>0. /\ create[g] \in CreateRecord /\ CreateOk(g, create[g])
      /\ \A h \in CreateReq \ {g} : SlugsApart(create[g], create[h])
  BY DEF GroupInv, TypeOK
<1>m. ASSUME NEW to \in CreateSteps \cup CreateEnds, create' = [create EXCEPT ![g].pc = to],
             UNCHANGED <<stored, groups, change>>,
             to \in CreateSteps => create[g].pc \in CreateSteps,
             to = "insert" => TwoMembers(create[g].members) /\ SlugOf[create[g].name] \in Slug,
             to = "commit" => /\ create[g].pc = "insert" /\ ~SlugTaken(SlugOf[create[g].name])
                              /\ \A h \in CreateReq \ {g} : ~SlugInDoubt(h, g),
             to \notin {"committed", "Created", "Lost"} =>
               create[g].pc \notin {"committed", "Created", "Lost"},
             to # "committed"
      PROVE  GroupInv'
  <2> DEFINE q == [create[g] EXCEPT !.pc = to]
  <2>1. create' = [create EXCEPT ![g] = q]
    BY <1>m
  <2>2. /\ q \in CreateRecord /\ q.pc = to /\ q.name = create[g].name
        /\ q.members = create[g].members
    BY <1>0 DEF CreateRecord
  <2> HIDE DEF q
  <2>3. CreateOk(g, q)
    BY <1>0, <1>m, <2>2 DEF CreateOk
  <2>4. \A h \in CreateReq \ {g} : SlugsApart(q, create[h])
    BY <1>m, <2>2 DEF SlugsApart, SlugInDoubt
  <2> QED
    BY <1>m, <2>1, <2>2, <2>3, <2>4, CreateFrame
<1>r. ASSUME NEW answer \in {"CommunityNotFound", "Invalid", "DuplicateSlug"},
             CreateRefuse(g, answer), UNCHANGED <<stored, groups, change>>,
             create[g].pc \in {"checkCommunities", "insert"}
      PROVE  GroupInv'
  <2> DEFINE q == [NoCreate EXCEPT !.pc = answer]
  <2>1. create' = [create EXCEPT ![g] = q]
    BY <1>r DEF CreateRefuse
  <2>2. q \in CreateRecord /\ q.pc = answer
    BY <1>r DEF NoCreate, CreateRecord, CreateEnds
  <2> HIDE DEF q
  <2>3. groups[g] = None
    BY <1>0, <1>r DEF CreateOk
  <2>4. CreateOk(g, q) /\ \A h \in CreateReq \ {g} : SlugsApart(q, create[h])
    BY <1>r, <2>2, <2>3 DEF CreateOk, CreateSteps, SlugsApart
  <2> QED
    BY <1>r, <2>1, <2>2, <2>3, <2>4, CreateFrame
<1>1. CASE CreateCheck(g)
  <2>1. create[g].pc = "checkCommunities" /\ UNCHANGED <<stored, groups, change>>
    BY <1>1 DEF CreateCheck
  <2>2. CASE \E answer \in {"CommunityNotFound", "Invalid"} : CreateRefuse(g, answer)
    BY <1>r, <2>1, <2>2
  <2>3. CASE IsGroup(create[g]) /\ CreateGo(g, "checkCommunities", "insert")
    <3>1. TwoMembers(create[g].members) /\ SlugOf[create[g].name] \in Slug
      BY <1>0, <2>1, <2>3, EnoughIsTwo, SlugAssumption DEF IsGroup, CreateOk, CreateSteps
    <3>2. create' = [create EXCEPT ![g].pc = "insert"]
      BY <2>3 DEF CreateGo
    <3> QED
      BY <1>m, <2>1, <3>1, <3>2 DEF CreateSteps, CreateEnds
  <2> QED
    BY <1>1, <2>2, <2>3 DEF CreateCheck
<1>2. CASE CreateInsert(g)
  <2>1. /\ create[g].pc = "insert" /\ UNCHANGED <<stored, groups, change>>
        /\ \A h \in CreateReq \ {g} : ~SlugInDoubt(h, g)
    BY <1>2 DEF CreateInsert
  <2>2. CASE CreateRefuse(g, "DuplicateSlug")
    BY <1>r, <2>1, <2>2
  <2>3. CASE ~SlugTaken(SlugOf[create[g].name]) /\ CreateGo(g, "insert", "commit")
    <3>1. create' = [create EXCEPT ![g].pc = "commit"]
      BY <2>3 DEF CreateGo
    <3> QED
      BY <1>m, <2>1, <2>3, <3>1 DEF CreateSteps, CreateEnds
  <2> QED
    BY <1>2, <2>2, <2>3 DEF CreateInsert
<1>3. CASE CreateRespond(g)
  <2>1. create' = [create EXCEPT ![g].pc = "Created"] /\ UNCHANGED <<stored, groups, change>>
    BY <1>3 DEF CreateRespond, CreateGo
  <2> QED
    BY <1>m, <2>1 DEF CreateSteps, CreateEnds
<1>4. CASE CreateLost(g)
  <2>1. create' = [create EXCEPT ![g].pc = "Lost"] /\ UNCHANGED <<stored, groups, change>>
    BY <1>4 DEF CreateLost
  <2> QED
    BY <1>m, <2>1 DEF CreateSteps, CreateEnds
<1> QED
  BY <1>1, <1>2, <1>3, <1>4 DEF CreateProgress

(* A change moves: it reads, applies and locks the version it has read.    *)
LEMMA ChangeStep ==
  ASSUME GroupInv, NEW r \in ChangeReq,
         ChangeProgress(r) \/ ChangeLost(r), ~ChangeCommit(r)
  PROVE  GroupInv'
<1>0. /\ change[r] \in ChangeRecord /\ ChangeOk(change[r])
      /\ \A s \in ChangeReq \ {r} : ChangesApart(change[r], change[s])
      /\ groups \in [CreateReq -> GroupRow \cup {None}]
      /\ change \in [ChangeReq -> ChangeRecord]
  BY DEF GroupInv, TypeOK
<1>u. UNCHANGED <<stored, groups, create>>
  BY DEF ChangeProgress, ChangeGetGroup, ChangeGetCommunity, ChangeApply, ChangeSave,
         ChangeRespond, ChangeLost
<1>m. ASSUME NEW q \in ChangeRecord, change' = [change EXCEPT ![r] = q], ChangeOk(q),
             q.pc # "commit", q.wrote = change[r].wrote, q.op = change[r].op,
             q.group = change[r].group, q.community = change[r].community
      PROVE  GroupInv'
  <2>1. \A s \in ChangeReq \ {r} : ChangesApart(q, change[s])
    BY <1>m DEF ChangesApart
  <2> QED
    BY <1>m, <1>u, <2>1, ChangeFrame
<1>g. ASSUME NEW to \in ChangeEnds, change' = [change EXCEPT ![r].pc = to] PROVE GroupInv'
  <2> DEFINE q == [change[r] EXCEPT !.pc = to]
  <2>1. change' = [change EXCEPT ![r] = q]
    BY <1>g
  <2>2. /\ q \in ChangeRecord /\ q.pc = to /\ q.op = change[r].op /\ q.group = change[r].group
        /\ q.community = change[r].community /\ q.wrote = change[r].wrote
    BY <1>0 DEF ChangeRecord
  <2> HIDE DEF q
  <2>3. ChangeOk(q)
    BY <1>0, <2>2 DEF ChangeOk, ChangeSteps, ChangeEnds
  <2>4. q.pc # "commit"
    BY <2>2 DEF ChangeEnds
  <2> QED
    BY <1>m, <2>1, <2>2, <2>3, <2>4
<1>1. CASE ChangeGetGroup(r)
  <2> DEFINE row == groups[change[r].group]
             to == IF change[r].op = "add" THEN "getCommunity" ELSE "apply"
             q == [change[r] EXCEPT !.pc = to, !.members = row.members, !.version = row.version]
  <2>1. /\ change[r].pc = "getGroup"
        /\ \/ change' = [change EXCEPT ![r].pc = "GroupNotFound"]
           \/ row # None /\ change' = [change EXCEPT ![r] = q]
    BY <1>0, <1>1 DEF ChangeGetGroup, ChangeGo
  <2>2. CASE change' = [change EXCEPT ![r].pc = "GroupNotFound"]
    BY <1>g, <2>2 DEF ChangeEnds
  <2>3. CASE row # None /\ change' = [change EXCEPT ![r] = q]
    <3>1. /\ change[r].group \in CreateReq /\ row \in GroupRow /\ row # None
          /\ change[r].community \in Community
          /\ change[r].wrote = "no" /\ row.version \in Nat /\ row.members \subseteq Community
      BY <1>0, <2>1, <2>3 DEF ChangeOk, ChangeSteps, GroupRow
    <3>2. to \in {"getCommunity", "apply"}
      OBVIOUS
    <3>3. row = groups[change[r].group]
      OBVIOUS
    <3> HIDE DEF row, to
    <3>4. /\ q \in ChangeRecord /\ q.pc = to /\ q.op = change[r].op
          /\ q.group = change[r].group /\ q.community = change[r].community
          /\ q.wrote = change[r].wrote /\ q.members = row.members /\ q.version = row.version
      BY <1>0, <3>1, <3>2 DEF ChangeRecord, ChangeSteps
    <3> HIDE DEF q
    <3>5. ChangeOk(q) /\ q.pc # "commit"
      BY <3>1, <3>2, <3>3, <3>4 DEF ChangeOk, ChangeSteps, AsApplied
    <3> QED
      BY <1>m, <2>3, <3>4, <3>5
  <2> QED
    BY <2>1, <2>2, <2>3
<1>2. CASE ChangeGetCommunity(r)
  <2> DEFINE to == IF change[r].community \in stored THEN "apply" ELSE "CommunityNotFound"
             q == [change[r] EXCEPT !.pc = "apply"]
  <2>1. change[r].pc = "getCommunity" /\ change' = [change EXCEPT ![r].pc = to]
    BY <1>2 DEF ChangeGetCommunity, ChangeGo
  <2>2. CASE to = "CommunityNotFound"
    BY <1>g, <2>1, <2>2 DEF ChangeEnds
  <2>3. CASE to = "apply"
    <3>1. change' = [change EXCEPT ![r] = q]
      BY <2>1, <2>3
    <3>2. /\ q \in ChangeRecord /\ q.pc = "apply" /\ q.op = change[r].op
          /\ q.group = change[r].group /\ q.community = change[r].community
          /\ q.wrote = change[r].wrote /\ q.members = change[r].members
          /\ q.version = change[r].version
      BY <1>0 DEF ChangeRecord, ChangeSteps
    <3> HIDE DEF q
    <3>3. ChangeOk(q)
      BY <1>0, <2>1, <3>2 DEF ChangeOk, ChangeSteps, AsApplied
    <3> QED
      BY <1>m, <3>1, <3>2, <3>3
  <2> QED
    BY <2>2, <2>3
<1>3. CASE ChangeApply(r)
  <2>1. change[r].pc = "apply"
    BY <1>3 DEF ChangeApply, AddMember, RemoveMember, ChangeGo
  <2>2. /\ change[r].group \in CreateReq /\ change[r].community \in Community
        /\ change[r].members \subseteq Community /\ change[r].op \in {"add", "remove"}
    BY <1>0, <2>1 DEF ChangeOk, ChangeSteps, ChangeRecord
  <2>3. ASSUME NEW ms \in SUBSET Community,
               change' = [change EXCEPT ![r].pc = "save", ![r].members = ms],
               \/ /\ change[r].op = "add" /\ change[r].community \notin change[r].members
                  /\ ms = change[r].members \cup {change[r].community}
               \/ /\ change[r].op = "remove" /\ change[r].community \in change[r].members
                  /\ ms = change[r].members \ {change[r].community} /\ TwoMembers(ms)
        PROVE  GroupInv'
    <3> DEFINE q == [change[r] EXCEPT !.pc = "save", !.members = ms]
    <3>1. change' = [change EXCEPT ![r] = q]
      BY <1>0, <2>3
    <3>2. /\ q \in ChangeRecord /\ q.pc = "save" /\ q.op = change[r].op
          /\ q.group = change[r].group /\ q.community = change[r].community
          /\ q.wrote = change[r].wrote /\ q.members = ms /\ q.version = change[r].version
      BY <1>0 DEF ChangeRecord, ChangeSteps
    <3> HIDE DEF q
    <3>3. /\ change[r].wrote = "no" /\ groups[change[r].group] # None
          /\ change[r].version <= groups[change[r].group].version
          /\ change[r].version = groups[change[r].group].version =>
               change[r].members = groups[change[r].group].members
      BY <1>0, <2>1 DEF ChangeOk, ChangeSteps, AsApplied
    <3>4. q.version = groups[q.group].version => AsApplied(q, groups[q.group].members)
      BY <2>3, <3>2, <3>3 DEF AsApplied
    <3>5. ChangeOk(q)
      BY <2>2, <2>3, <3>2, <3>3, <3>4 DEF ChangeOk, ChangeSteps
    <3> QED
      BY <1>m, <3>1, <3>2, <3>5
  <2>4. CASE change[r].op = "add"
    <3>1. AddMember(r)
      BY <1>3, <2>4 DEF ChangeApply
    <3>2. CASE change' = [change EXCEPT ![r].pc = "AlreadyMember"]
      BY <1>g, <3>2 DEF ChangeEnds
    <3>3. ASSUME change[r].community \notin change[r].members,
                 change' = [change EXCEPT ![r].pc = "save",
                              ![r].members = @ \cup {change[r].community}]
          PROVE  GroupInv'
      <4> DEFINE ms == change[r].members \cup {change[r].community}
      <4>1. change' = [change EXCEPT ![r].pc = "save", ![r].members = ms]
        BY <1>0, <3>3
      <4>2. ms \in SUBSET Community
        BY <2>2
      <4> QED
        BY <2>3, <2>4, <3>3, <4>1, <4>2
    <3> QED
      BY <3>1, <3>2, <3>3 DEF AddMember, ChangeGo
  <2>5. CASE change[r].op = "remove"
    <3>1. RemoveMember(r)
      BY <1>3, <2>5 DEF ChangeApply
    <3>2. CASE change' = [change EXCEPT ![r].pc = "NotMember"]
      BY <1>g, <3>2 DEF ChangeEnds
    <3>3. CASE change' = [change EXCEPT ![r].pc = "BelowMinimum"]
      BY <1>g, <3>3 DEF ChangeEnds
    <3>4. ASSUME change[r].community \in change[r].members,
                 EnoughMembers(change[r].members \ {change[r].community}),
                 change' = [change EXCEPT ![r].pc = "save",
                              ![r].members = @ \ {change[r].community}]
          PROVE  GroupInv'
      <4> DEFINE ms == change[r].members \ {change[r].community}
      <4>1. change' = [change EXCEPT ![r].pc = "save", ![r].members = ms]
        BY <1>0, <3>4
      <4>2. ms \in SUBSET Community /\ TwoMembers(ms)
        BY <2>2, <3>4, EnoughIsTwo
      <4> QED
        BY <2>3, <2>5, <3>4, <4>1, <4>2
    <3> QED
      BY <3>1, <3>2, <3>3, <3>4 DEF RemoveMember, ChangeGo
  <2> QED
    BY <2>2, <2>4, <2>5
<1>4. CASE ChangeSave(r)
  <2>1. /\ change[r].pc = "save"
        /\ \A s \in ChangeReq \ {r} : ~RowLocked(s, change[r].group)
        /\ change' = [change EXCEPT ![r].pc = IF VersionMatches(r) THEN "commit"
                                              ELSE "ConcurrentModification"]
    BY <1>4 DEF ChangeSave, ChangeGo
  <2>2. CASE ~VersionMatches(r)
    BY <1>g, <2>1, <2>2 DEF ChangeEnds
  <2>3. CASE VersionMatches(r)
    <3> DEFINE q == [change[r] EXCEPT !.pc = "commit"]
    <3>1. change' = [change EXCEPT ![r] = q]
      BY <2>1, <2>3
    <3>2. /\ q \in ChangeRecord /\ q.pc = "commit" /\ q.op = change[r].op
          /\ q.group = change[r].group /\ q.community = change[r].community
          /\ q.wrote = change[r].wrote /\ q.members = change[r].members
          /\ q.version = change[r].version
      BY <1>0 DEF ChangeRecord, ChangeSteps
    <3> HIDE DEF q
    <3>3. ChangeOk(q)
      BY <1>0, <2>1, <2>3, <3>2 DEF ChangeOk, ChangeSteps, AsApplied, VersionMatches
    <3>4. \A s \in ChangeReq \ {r} : ChangesApart(q, change[s])
      BY <2>1, <3>2 DEF ChangesApart, RowLocked
    <3> QED
      BY <1>u, <3>1, <3>2, <3>3, <3>4, ChangeFrame
  <2> QED
    BY <2>2, <2>3
<1>5. CASE ChangeRespond(r)
  BY <1>5, <1>g DEF ChangeRespond, ChangeGo, ChangeEnds
<1>6. CASE ChangeLost(r)
  BY <1>6, <1>g DEF ChangeLost, ChangeEnds
<1> QED
  BY <1>1, <1>2, <1>3, <1>4, <1>5, <1>6 DEF ChangeProgress

-----------------------------------------------------------------------------
(* Commits *)

(* A creation commits: its group appears, which no change has read yet.    *)
LEMMA CreateCommitStep ==
  ASSUME GroupInv, NEW g \in CreateReq, CreateCommit(g)
  PROVE  GroupInv'
<1> DEFINE slug == SlugOf[create[g].name]
           row == [slug |-> slug, members |-> create[g].members, version |-> 1]
<1>0. /\ create[g] \in CreateRecord /\ create[g].pc = "commit" /\ groups[g] = None
      /\ create \in [CreateReq -> CreateRecord] /\ groups \in [CreateReq -> GroupRow \cup {None}]
      /\ TwoMembers(create[g].members) /\ slug \in Slug /\ ~SlugTaken(slug)
      /\ UNCHANGED <<stored, change>>
  BY DEF GroupInv, TypeOK, CreateCommit, CreateGo, CreateOk, CreateSteps
<1>1. /\ row \in GroupRow /\ row # None /\ row.slug = slug /\ row.members = create[g].members
      /\ row.version = 1
  <2>1. create[g].members \subseteq Community
    BY <1>0 DEF CreateRecord
  <2>2. row \in GroupRow
    BY <1>0, <2>1 DEF GroupRow
  <2> QED
    BY <2>2, NoneAssumption
<1>2. PICK p \in CreateRecord : /\ create' = [create EXCEPT ![g] = p] /\ p.pc = "committed"
                                /\ p.name = create[g].name /\ p.members = create[g].members
  <2> DEFINE p == [create[g] EXCEPT !.pc = "committed"]
  <2>1. create' = [create EXCEPT ![g] = p]
    BY DEF CreateCommit, CreateGo
  <2>2. /\ p \in CreateRecord /\ p.pc = "committed" /\ p.name = create[g].name
        /\ p.members = create[g].members
    BY <1>0 DEF CreateRecord, CreateSteps
  <2> QED
    BY <2>1, <2>2
<1>3. groups' = [groups EXCEPT ![g] = row]
  BY DEF CreateCommit
<1>4. \A h \in CreateReq : h # g /\ create[h].pc = "commit" => SlugOf[create[h].name] # slug
  BY <1>0 DEF GroupInv, SlugsApart
<1> HIDE DEF slug, row
<1>5. /\ \A h \in CreateReq : groups'[h] = IF h = g THEN row ELSE groups[h]
      /\ \A h \in CreateReq : create'[h] = IF h = g THEN p ELSE create[h]
      /\ groups' \in [CreateReq -> GroupRow \cup {None}]
      /\ create' \in [CreateReq -> CreateRecord]
  BY <1>0, <1>1, <1>2, <1>3
<1>6. TypeOK'
  BY <1>0, <1>5 DEF GroupInv, TypeOK
<1>7. GroupsOk'
  <2>1. \A h \in CreateReq : h # g /\ groups[h] # None => groups[h].slug # slug
    BY <1>0 DEF SlugTaken
  <2> QED
    BY <1>0, <1>1, <1>5, <2>1 DEF GroupInv, GroupsOk
<1>8. \A h \in CreateReq : CreateOk(h, create[h])'
  <2> SUFFICES ASSUME NEW h \in CreateReq PROVE CreateOk(h, create[h])'
    OBVIOUS
  <2>1. CASE h = g
    <3>1. p.name \in Name
      BY <1>0, <1>2 DEF GroupInv, CreateOk, CreateSteps
    <3> QED
      BY <1>2, <1>5, <2>1, <3>1 DEF CreateOk
  <2>2. CASE h # g
    <3>1. create'[h] = create[h] /\ groups'[h] = groups[h] /\ CreateOk(h, create[h])
      BY <1>5, <2>2 DEF GroupInv
    <3>2. create[h].pc = "commit" => ~SlugTaken(SlugOf[create[h].name])'
      <4>1. create[h].pc = "commit" => SlugOf[create[h].name] # slug
        BY <1>4, <2>2 DEF GroupInv
      <4>2. create[h].pc = "commit" =>
              \A k \in CreateReq : groups[k] # None => groups[k].slug # SlugOf[create[h].name]
        BY <3>1 DEF CreateOk, SlugTaken
      <4> QED
        BY <1>1, <1>5, <3>1, <4>1, <4>2 DEF SlugTaken
    <3> QED
      BY <3>1, <3>2 DEF CreateOk
  <2> QED
    BY <2>1, <2>2
<1>9. \A h, k \in CreateReq : h # k => SlugsApart(create[h], create[k])'
  BY <1>2, <1>5 DEF GroupInv, SlugsApart
<1>10. \A r \in ChangeReq : ChangeOk(change[r])'
  <2> SUFFICES ASSUME NEW r \in ChangeReq PROVE ChangeOk(change[r])'
    OBVIOUS
  <2>1. ChangeOk(change[r]) /\ change'[r] = change[r]
    BY <1>0 DEF GroupInv
  <2>2. \/ change[r].group \in CreateReq /\ groups'[change[r].group] = groups[change[r].group]
        \/ change[r].pc \notin ChangeSteps \ {"getGroup", "committed"} /\ change[r].wrote # "yes"
    BY <1>0, <1>5, <2>1 DEF ChangeOk
  <2> QED
    BY <2>1, <2>2 DEF ChangeOk, AsApplied, ChangeSteps
<1>11. /\ \A r, s \in ChangeReq : r # s => ChangesApart(change[r], change[s])'
       /\ IsFiniteSet(Written)'
  BY <1>0 DEF GroupInv, ChangesApart, Written
<1>12. MembersAreTheSum'
  <2>1. \A h, op, c : Count(h, op, c)' = Count(h, op, c)
    BY <1>0 DEF Count
  <2>2. \A op, c : Count(g, op, c) = 0
    <3>1. \A op, c : WrittenFor(g, op, c) = {}
      BY <1>0 DEF GroupInv, ChangeOk, WrittenFor
    <3>2. \A op, c : Count(g, op, c) = Cardinality(WrittenFor(g, op, c))
      BY CountsAreNumbers DEF GroupInv
    <3> QED
      BY <3>1, <3>2, FS_EmptySet
  <2>3. \A h \in CreateReq : create'[h].members = create[h].members
    BY <1>2, <1>5
  <2>4. ASSUME NEW h \in CreateReq, NEW c \in Community, groups'[h] # None
        PROVE  (IF c \in groups'[h].members THEN 1 ELSE 0) =
                 (IF c \in create'[h].members THEN 1 ELSE 0)
                   + Count(h, "add", c) - Count(h, "remove", c)
    <3>1. CASE h = g
      BY <1>1, <1>5, <2>2, <2>3, <3>1
    <3>2. CASE h # g
      BY <1>5, <2>3, <2>4, <3>2 DEF GroupInv, MembersAreTheSum
    <3> QED
      BY <3>1, <3>2
  <2> QED
    BY <2>1, <2>4 DEF MembersAreTheSum
<1> QED
  BY <1>6, <1>7, <1>8, <1>9, <1>10, <1>11, <1>12 DEF GroupInv

(* A change that commits has applied itself to the members of the row.     *)
LEMMA ChangeCommitRows ==
  ASSUME GroupInv, NEW r \in ChangeReq, change[r].pc = "commit"
  PROVE  LET q == change[r]
             row == groups[q.group]
         IN  /\ q \in ChangeRecord /\ q.group \in CreateReq /\ q.community \in Community
             /\ row \in GroupRow /\ row # None /\ q.version = row.version /\ q.wrote = "no"
             /\ q.members \subseteq Community /\ TwoMembers(q.members)
             /\ \/ q.op = "add" /\ q.community \notin row.members
                   /\ q.members = row.members \cup {q.community}
                \/ q.op = "remove" /\ q.community \in row.members
                   /\ q.members = row.members \ {q.community}
<1> DEFINE q == change[r]
           row == groups[q.group]
<1>1. /\ q \in ChangeRecord /\ ChangeOk(q) /\ q.pc = "commit"
      /\ groups \in [CreateReq -> GroupRow \cup {None}]
  BY DEF GroupInv, TypeOK
<1>2. q.group \in CreateReq /\ q.community \in Community
  BY <1>1 DEF ChangeOk, ChangeSteps
<1>3. /\ row # None /\ q.version = row.version /\ q.wrote = "no"
      /\ AsApplied(q, row.members)
  BY <1>1 DEF ChangeOk, ChangeSteps
<1>4. row \in GroupRow /\ q.members \subseteq Community
  BY <1>1, <1>2, <1>3 DEF ChangeRecord
<1>5. /\ \/ q.op = "add" /\ q.community \notin row.members
            /\ q.members = row.members \cup {q.community}
         \/ q.op = "remove" /\ q.community \in row.members
            /\ q.members = row.members \ {q.community}
  BY <1>1, <1>3 DEF AsApplied
<1>6. TwoMembers(q.members)
  <2>1. q.op = "remove" => TwoMembers(q.members)
    BY <1>1 DEF ChangeOk
  <2>2. TwoMembers(row.members)
    BY <1>2, <1>3 DEF GroupInv, GroupsOk
  <2> QED
    BY <1>5, <2>1, <2>2 DEF TwoMembers
<1> QED
  BY <1>1, <1>2, <1>3, <1>4, <1>5, <1>6

(* A change commits: the others that have read its group find that its     *)
(* version has moved.                                                      *)
LEMMA ChangeCommitStep ==
  ASSUME GroupInv, NEW r \in ChangeReq, ChangeCommit(r)
  PROVE  GroupInv'
<1> DEFINE q == change[r]
           g == q.group
           old == groups[g]
<1>0. /\ q \in ChangeRecord /\ g \in CreateReq /\ q.community \in Community
      /\ old \in GroupRow /\ old # None /\ q.version = old.version /\ q.wrote = "no"
      /\ q.members \subseteq Community /\ TwoMembers(q.members)
      /\ \/ q.op = "add" /\ q.community \notin old.members
            /\ q.members = old.members \cup {q.community}
         \/ q.op = "remove" /\ q.community \in old.members
            /\ q.members = old.members \ {q.community}
  BY ChangeCommitRows DEF ChangeCommit
<1>1. /\ change \in [ChangeReq -> ChangeRecord]
      /\ create \in [CreateReq -> CreateRecord]
      /\ groups \in [CreateReq -> GroupRow \cup {None}]
      /\ q.pc = "commit" /\ UNCHANGED <<stored, create>>
  BY DEF GroupInv, TypeOK, ChangeCommit
<1>2. PICK row \in GroupRow :
        /\ groups' = [groups EXCEPT ![g] = row] /\ row # None
        /\ row.slug = old.slug /\ row.members = q.members
        /\ row.version = old.version + 1 /\ old.version \in Nat
  <2>1. PICK o \in GroupRow, ms \in SUBSET Community, v \in Nat :
          o = old /\ ms = q.members /\ v = q.version + 1
    BY <1>0 DEF ChangeRecord
  <2> DEFINE row == [o EXCEPT !.members = ms, !.version = v]
  <2>2. row \in GroupRow /\ row.slug = o.slug /\ row.members = ms /\ row.version = v
    BY DEF GroupRow
  <2>3. groups' = [groups EXCEPT ![g] = row]
    BY <1>0, <1>1, <2>1 DEF ChangeCommit
  <2>4. q.version = old.version /\ old.version \in Nat
    BY <1>0 DEF GroupRow
  <2> HIDE DEF row, q, g, old
  <2> QED
    BY <2>1, <2>2, <2>3, <2>4, NoneAssumption
<1>3. PICK p \in ChangeRecord :
        /\ change' = [change EXCEPT ![r] = p] /\ p.pc = "committed" /\ p.wrote = "yes"
        /\ p.op = q.op /\ p.group = g /\ p.community = q.community /\ p.members = q.members
  <2> DEFINE p == [q EXCEPT !.pc = "committed", !.wrote = "yes"]
  <2>1. change' = [change EXCEPT ![r] = p]
    BY <1>1 DEF ChangeCommit
  <2>2. /\ p \in ChangeRecord /\ p.pc = "committed" /\ p.wrote = "yes"
        /\ p.op = q.op /\ p.group = g /\ p.community = q.community /\ p.members = q.members
    BY <1>0 DEF ChangeRecord, ChangeSteps
  <2> HIDE DEF p
  <2> QED
    BY <2>1, <2>2
<1>5. q = change[r] /\ g = q.group /\ old = groups[g]
  OBVIOUS
<1>r. \A s \in ChangeReq : s # r /\ change[s].pc = "commit" => change[s].group # g
  BY <1>1 DEF GroupInv, ChangesApart
<1> HIDE DEF q, g, old
<1>6. /\ \A h \in CreateReq : groups'[h] = IF h = g THEN row ELSE groups[h]
      /\ \A s \in ChangeReq : change'[s] = IF s = r THEN p ELSE change[s]
      /\ groups' \in [CreateReq -> GroupRow \cup {None}]
      /\ change' \in [ChangeReq -> ChangeRecord]
  BY <1>0, <1>1, <1>2, <1>3
<1>7. TypeOK'
  BY <1>1, <1>6 DEF GroupInv, TypeOK
<1>8. /\ \A h \in CreateReq : groups'[h] = None <=> groups[h] = None
      /\ \A h \in CreateReq : groups[h] # None => groups'[h].slug = groups[h].slug
  BY <1>0, <1>2, <1>5, <1>6
<1>9. GroupsOk'
  <2>1. \A h \in CreateReq : groups'[h] # None => TwoMembers(groups'[h].members)
    BY <1>0, <1>2, <1>6 DEF GroupInv, GroupsOk
  <2>2. \A h, k \in CreateReq : h # k /\ groups'[h] # None /\ groups'[k] # None =>
                                  groups'[h].slug # groups'[k].slug
    BY <1>8 DEF GroupInv, GroupsOk
  <2> QED
    BY <2>1, <2>2 DEF GroupsOk
<1>10. /\ \A h \in CreateReq : CreateOk(h, create[h])'
       /\ \A h, k \in CreateReq : h # k => SlugsApart(create[h], create[k])'
  BY <1>1, <1>8 DEF GroupInv, CreateOk, SlugTaken, SlugsApart
<1>11. \A s \in ChangeReq : ChangeOk(change[s])'
  <2> SUFFICES ASSUME NEW s \in ChangeReq PROVE ChangeOk(change[s])'
    OBVIOUS
  <2>1. CASE s = r
    <3>1. change'[s] = p /\ groups'[g] # None
      BY <1>0, <1>2, <1>6, <2>1
    <3> QED
      BY <1>0, <1>3, <3>1 DEF ChangeOk, ChangeSteps
  <2>2. CASE s # r
    <3>1. change'[s] = change[s] /\ ChangeOk(change[s]) /\ change[s] \in ChangeRecord
      BY <1>1, <1>6, <2>2 DEF GroupInv
    <3>2. CASE change[s].group = g
      <4>1. change[s].version \in Nat /\ change[s].pc # "commit"
        BY <1>r, <2>2, <3>1, <3>2 DEF ChangeRecord
      <4>2. change[s].pc \in ChangeSteps \ {"getGroup", "committed"} =>
              change[s].version < row.version
        BY <1>2, <1>5, <3>1, <3>2, <4>1 DEF ChangeOk
      <4>3. groups'[change[s].group] = row
        BY <1>0, <1>6, <3>2
      <4> QED
        BY <1>0, <1>2, <3>1, <3>2, <4>1, <4>2, <4>3 DEF ChangeOk
    <3>3. CASE change[s].group # g
      <4>1. change[s].group \in CreateReq => groups'[change[s].group] = groups[change[s].group]
        BY <1>6, <3>3
      <4>2. change[s].pc \in ChangeSteps => change[s].group \in CreateReq
        BY <3>1 DEF ChangeOk
      <4> QED
        BY <3>1, <4>1, <4>2 DEF ChangeOk, AsApplied, ChangeSteps
    <3> QED
      BY <3>2, <3>3
  <2> QED
    BY <2>1, <2>2
<1>12. \A s, t \in ChangeReq : s # t => ChangesApart(change[s], change[t])'
  BY <1>3, <1>6 DEF GroupInv, ChangesApart
<1>13. IsFiniteSet(Written)'
  <2>1. Written' = Written \cup {r}
    BY <1>3, <1>6 DEF Written
  <2> QED
    BY <2>1, FS_AddElement DEF GroupInv
<1>14. MembersAreTheSum'
  <2> DEFINE one(op) == IF q.op = op THEN 1 ELSE 0
  <2>1. \A h, op, c : WrittenFor(h, op, c)' =
          WrittenFor(h, op, c) \cup
            (IF h = g /\ op = q.op /\ c = q.community THEN {r} ELSE {})
    BY <1>0, <1>3, <1>5, <1>6 DEF WrittenFor
  <2>2. \A h, op, c : r \notin WrittenFor(h, op, c)
    BY <1>0, <1>5 DEF WrittenFor
  <2>3. \A h, op, c : /\ IsFiniteSet(WrittenFor(h, op, c)) /\ Count(h, op, c) \in Nat
                      /\ Count(h, op, c) = Cardinality(WrittenFor(h, op, c))
                      /\ Count(h, op, c)' = Cardinality(WrittenFor(h, op, c)')
    <3>1. \A h, op, c : Count(h, op, c)' = Cardinality(WrittenFor(h, op, c)')
      BY DEF Count, WrittenFor
    <3> QED
      BY <3>1, CountsAreNumbers DEF GroupInv
  <2>4. \A h, op, c : ~(h = g /\ c = q.community) => Count(h, op, c)' = Count(h, op, c)
    <3>1. \A S : S \cup {} = S
      OBVIOUS
    <3> QED
      BY <2>1, <2>3, <3>1
  <2>5. \A h, op, c : h = g /\ c = q.community => Count(h, op, c)' = Count(h, op, c) + one(op)
    <3> SUFFICES ASSUME NEW h, NEW op, NEW c, h = g, c = q.community
                 PROVE  Count(h, op, c)' = Count(h, op, c) + one(op)
      OBVIOUS
    <3>1. CASE op = q.op
      <4>1. WrittenFor(h, op, c)' = WrittenFor(h, op, c) \cup {r}
        BY <2>1, <3>1
      <4>2. Cardinality(WrittenFor(h, op, c) \cup {r}) = Cardinality(WrittenFor(h, op, c)) + 1
        BY <2>2, <2>3, FS_AddElement
      <4> QED
        BY <2>3, <3>1, <4>1, <4>2
    <3>2. CASE op # q.op
      <4>1. \A S : S \cup {} = S
        OBVIOUS
      <4>2. WrittenFor(h, op, c)' = WrittenFor(h, op, c)
        BY <2>1, <3>2, <4>1
      <4> QED
        BY <2>3, <3>2, <4>2
    <3> QED
      BY <3>1, <3>2
  <2>6. ASSUME NEW h \in CreateReq, NEW c \in Community, groups'[h] # None
        PROVE  (IF c \in groups'[h].members THEN 1 ELSE 0) =
                 (IF c \in create'[h].members THEN 1 ELSE 0)
                   + Count(h, "add", c)' - Count(h, "remove", c)'
    <3>1. (IF c \in groups[h].members THEN 1 ELSE 0) =
            (IF c \in create[h].members THEN 1 ELSE 0)
              + Count(h, "add", c) - Count(h, "remove", c)
      BY <1>8, <2>6 DEF GroupInv, MembersAreTheSum
    <3>2. CASE h = g /\ c = q.community
      <4>1. /\ Count(h, "add", c)' = Count(h, "add", c) + one("add")
            /\ Count(h, "remove", c)' = Count(h, "remove", c) + one("remove")
        BY <2>5, <3>2
      <4>2. /\ q.op = "add" => /\ c \notin groups[h].members /\ c \in groups'[h].members
                               /\ one("add") = 1 /\ one("remove") = 0
            /\ q.op = "remove" => /\ c \in groups[h].members /\ c \notin groups'[h].members
                                  /\ one("add") = 0 /\ one("remove") = 1
        BY <1>0, <1>2, <1>5, <1>6, <3>2
      <4>3. q.op \in {"add", "remove"} /\ create' = create
        BY <1>0, <1>1
      <4> HIDE DEF one
      <4> QED
        BY <2>3, <3>1, <4>1, <4>2, <4>3
    <3>3. CASE h = g /\ c # q.community
      <4>1. c \in groups'[h].members <=> c \in groups[h].members
        BY <1>0, <1>2, <1>5, <1>6, <3>3
      <4> QED
        BY <1>1, <2>4, <3>1, <3>3, <4>1
    <3>4. CASE h # g
      BY <1>1, <1>6, <2>4, <3>1, <3>4
    <3> QED
      BY <3>2, <3>3, <3>4
  <2> QED
    BY <2>6 DEF MembersAreTheSum
<1> QED
  BY <1>7, <1>9, <1>10, <1>11, <1>12, <1>13, <1>14 DEF GroupInv

-----------------------------------------------------------------------------
(* Every step *)

LEMMA ArrivalsStep == GroupInv /\ Arrivals => GroupInv'
<1> SUFFICES ASSUME GroupInv, Arrivals PROVE GroupInv'
  OBVIOUS
<1>1. ASSUME NEW c \in Community, StoreCommunity(c) PROVE GroupInv'
  <2>1. TypeOK' /\ GroupsOk'
    BY <1>1 DEF StoreCommunity, GroupInv, TypeOK, GroupsOk
  <2>2. /\ \A g \in CreateReq : CreateOk(g, create[g])'
        /\ \A g, h \in CreateReq : g # h => SlugsApart(create[g], create[h])'
        /\ \A r \in ChangeReq : ChangeOk(change[r])'
        /\ \A r, s \in ChangeReq : r # s => ChangesApart(change[r], change[s])'
        /\ IsFiniteSet(Written)'
    BY <1>1 DEF StoreCommunity, GroupInv, CreateOk, SlugTaken, SlugsApart, ChangeOk,
                AsApplied, ChangesApart, Written
  <2>3. MembersAreTheSum'
    BY <1>1 DEF StoreCommunity, GroupInv, MembersAreTheSum, Count
  <2> QED
    BY <2>1, <2>2, <2>3 DEF GroupInv
<1>2. ASSUME NEW g \in CreateReq, NEW name \in Name, NEW members \in SUBSET Community,
             NEW listed \in {"once", "twice"}, CreateArrive(g, name, members, listed)
      PROVE  GroupInv'
  <2> DEFINE q == [pc |-> "checkCommunities", name |-> name, members |-> members,
                   listed |-> listed]
  <2>1. /\ create[g].pc = "idle" /\ create' = [create EXCEPT ![g] = q]
        /\ UNCHANGED <<stored, groups, change>> /\ CreateOk(g, create[g])
    BY <1>2 DEF CreateArrive, GroupInv
  <2>2. q \in CreateRecord /\ q.pc = "checkCommunities" /\ q.name = name
    BY DEF CreateRecord, CreateSteps
  <2> HIDE DEF q
  <2>3. CreateOk(g, q) /\ groups[g] = None
    BY <2>1, <2>2 DEF CreateOk
  <2>4. \A h \in CreateReq \ {g} : SlugsApart(q, create[h])
    BY <2>2 DEF SlugsApart
  <2> QED
    BY <2>1, <2>2, <2>3, <2>4, CreateFrame
<1>3. ASSUME NEW r \in ChangeReq, NEW op \in {"add", "remove"}, NEW g \in CreateReq,
             NEW c \in Community, ChangeArrive(r, op, g, c)
      PROVE  GroupInv'
  <2> DEFINE q == [NoChange EXCEPT !.pc = "getGroup", !.op = op, !.group = g,
                                   !.community = c]
  <2>1. /\ change[r].pc = "idle" /\ change' = [change EXCEPT ![r] = q]
        /\ UNCHANGED <<stored, groups, create>> /\ ChangeOk(change[r])
    BY <1>3 DEF ChangeArrive, GroupInv
  <2>2. /\ q \in ChangeRecord /\ q.pc = "getGroup" /\ q.group = g /\ q.community = c
        /\ q.wrote = "no"
    BY DEF ChangeRecord, NoChange, ChangeSteps
  <2> HIDE DEF q
  <2>3. ChangeOk(q) /\ change[r].wrote = "no"
    BY <2>1, <2>2 DEF ChangeOk
  <2>4. \A s \in ChangeReq \ {r} : ChangesApart(q, change[s])
    BY <2>2 DEF ChangesApart
  <2> QED
    BY <2>1, <2>2, <2>3, <2>4, ChangeFrame
<1> QED
  BY <1>1, <1>2, <1>3 DEF Arrivals

LEMMA NextGroupInv == GroupInv /\ [Next]_vars => GroupInv'
<1> SUFFICES ASSUME GroupInv, [Next]_vars PROVE GroupInv'
  OBVIOUS
<1>1. CASE Arrivals
  BY <1>1, ArrivalsStep
<1>2. ASSUME NEW g \in CreateReq, CreateProgress(g) \/ CreateLost(g) PROVE GroupInv'
  BY <1>2, CreateStep, CreateCommitStep
<1>3. ASSUME NEW r \in ChangeReq, ChangeProgress(r) \/ ChangeLost(r) PROVE GroupInv'
  BY <1>3, ChangeStep, ChangeCommitStep
<1>4. CASE UNCHANGED vars
  <2>1. TypeOK' /\ GroupsOk'
    BY <1>4 DEF vars, GroupInv, TypeOK, GroupsOk
  <2>2. /\ \A g \in CreateReq : CreateOk(g, create[g])'
        /\ \A g, h \in CreateReq : g # h => SlugsApart(create[g], create[h])'
        /\ \A r \in ChangeReq : ChangeOk(change[r])'
        /\ \A r, s \in ChangeReq : r # s => ChangesApart(change[r], change[s])'
        /\ IsFiniteSet(Written)'
    BY <1>4 DEF vars, GroupInv, CreateOk, SlugTaken, SlugsApart, ChangeOk, AsApplied,
                ChangesApart, Written
  <2>3. MembersAreTheSum'
    BY <1>4 DEF vars, GroupInv, MembersAreTheSum, Count
  <2> QED
    BY <2>1, <2>2, <2>3 DEF GroupInv
<1> QED
  BY <1>1, <1>2, <1>3, <1>4 DEF Next, Losses

LEMMA Reachable == Spec => []GroupInv
BY InitGroupInv, NextGroupInv, PTL DEF Spec

(* Every variable keeps its type.                                          *)
THEOREM Typing == Spec => []TypeOK
<1>1. GroupInv => TypeOK
  BY DEF GroupInv
<1> QED
  BY Reachable, <1>1, PTL

(* However additions and removals race, the members of a group are those   *)
(* it was created with, and the changes committed since.                   *)
THEOREM MembersSum == Spec => []MembersAreTheSum
<1>1. GroupInv => MembersAreTheSum
  BY DEF GroupInv
<1> QED
  BY Reachable, <1>1, PTL

-----------------------------------------------------------------------------
(* The refinement *)

LEMMA MembershipStep == GroupInv /\ [Next]_vars => [Groups!Next]_(Groups!vars)
<1> SUFFICES ASSUME GroupInv, [Next]_vars PROVE [Groups!Next]_(Groups!vars)
  OBVIOUS
<1> DEFINE ms == [g \in CreateReq |-> IF groups[g] = None THEN {} ELSE groups[g].members]
           slugs == [g \in CreateReq |-> IF groups[g] = None THEN None ELSE groups[g].slug]
<1>0. /\ groups \in [CreateReq -> GroupRow \cup {None}]
      /\ \A g \in CreateReq : groups[g] # None => TwoMembers(groups[g].members)
      /\ \A s : Groups!AtLeastTwo(s) <=> TwoMembers(s)
  BY DEF GroupInv, TypeOK, GroupsOk, TwoMembers, Groups!AtLeastTwo
<1>1. CASE UNCHANGED groups
  BY <1>1 DEF Groups!vars
<1>2. ASSUME NEW g \in CreateReq, CreateCommit(g) PROVE [Groups!Next]_(Groups!vars)
  <2>1. PICK s \in SUBSET Community, slug \in Slug :
          s = create[g].members /\ slug = SlugOf[create[g].name]
    BY <1>2 DEF CreateCommit, CreateGo, GroupInv, TypeOK, CreateRecord, CreateOk
  <2>2. /\ create[g].pc = "commit" /\ CreateOk(g, create[g])
        /\ groups' = [groups EXCEPT ![g] = [slug |-> slug, members |-> s, version |-> 1]]
    BY <1>2, <2>1 DEF CreateCommit, CreateGo, GroupInv
  <2>3. groups[g] = None /\ TwoMembers(s) /\ ~SlugTaken(slug)
    BY <2>1, <2>2 DEF CreateOk
  <2>4. [slug |-> slug, members |-> s, version |-> 1] # None
    BY NoneAssumption DEF GroupRow
  <2>5. ms[g] = {} /\ \A h \in CreateReq : slugs[h] # slug
    BY <2>3, NoneAssumption DEF SlugTaken
  <2>6. ms' = [ms EXCEPT ![g] = s] /\ slugs' = [slugs EXCEPT ![g] = slug]
    BY <1>0, <2>2, <2>4
  <2>7. Groups!Form(g, s, slug)
    BY <1>0, <2>3, <2>5, <2>6 DEF Groups!Form
  <2> QED
    BY <2>7 DEF Groups!Next
<1>3. ASSUME NEW r \in ChangeReq, ChangeCommit(r) PROVE [Groups!Next]_(Groups!vars)
  <2>1. PICK g \in CreateReq, c \in Community, s \in SUBSET Community,
                v \in Nat, o \in GroupRow :
          /\ groups[g] = o /\ o # None /\ s = change[r].members /\ v = change[r].version + 1
          /\ g = change[r].group
          /\ \/ c \notin o.members /\ s = o.members \cup {c}
             \/ c \in o.members /\ s = o.members \ {c} /\ TwoMembers(s)
    <3>1. change[r].pc = "commit"
      BY <1>3 DEF ChangeCommit
    <3> DEFINE q == change[r]
               row == groups[q.group]
    <3>2. /\ q.group \in CreateReq /\ q.community \in Community
          /\ row \in GroupRow /\ row # None /\ q.members \subseteq Community
          /\ TwoMembers(q.members)
          /\ \/ q.op = "add" /\ q.community \notin row.members
                /\ q.members = row.members \cup {q.community}
             \/ q.op = "remove" /\ q.community \in row.members
                /\ q.members = row.members \ {q.community}
      BY <3>1, ChangeCommitRows
    <3>3. q.version + 1 \in Nat
      BY DEF GroupInv, TypeOK, ChangeRecord
    <3>4. q.members \in SUBSET Community
      BY <3>2
    <3> USE <3>2, <3>3, <3>4
    <3> WITNESS q.group \in CreateReq, q.community \in Community,
                q.members \in SUBSET Community, q.version + 1 \in Nat, row \in GroupRow
    <3> QED
      OBVIOUS
  <2>2. groups' = [groups EXCEPT ![g] = [o EXCEPT !.members = s, !.version = v]]
    BY <1>0, <1>3, <2>1 DEF ChangeCommit
  <2> DEFINE row == [o EXCEPT !.members = s, !.version = v]
  <2>3. row.members = s /\ row.slug = o.slug
    BY DEF GroupRow
  <2>4. row # None
    <3>1. row \in GroupRow
      BY DEF GroupRow
    <3> QED
      BY <3>1, NoneAssumption
  <2> HIDE DEF row
  <2>5. groups' = [groups EXCEPT ![g] = row]
    BY <2>2 DEF row
  <2>6. ms' = [ms EXCEPT ![g] = s] /\ slugs' = slugs
    BY <1>0, <2>1, <2>3, <2>4, <2>5
  <2>7. ms[g] = o.members /\ TwoMembers(o.members)
    BY <1>0, <2>1
  <2>8. Groups!Add(g, c) \/ Groups!Remove(g, c)
    <3>1. CASE c \notin o.members /\ s = o.members \cup {c}
      <4>1. ms[g] # {}
        BY <2>7 DEF TwoMembers
      <4> QED
        BY <2>6, <2>7, <3>1, <4>1 DEF Groups!Add
    <3>2. CASE c \in o.members /\ s = o.members \ {c} /\ TwoMembers(s)
      BY <1>0, <2>6, <2>7, <3>2 DEF Groups!Remove
    <3> QED
      BY <2>1, <3>1, <3>2
  <2> QED
    BY <2>8 DEF Groups!Next
<1>4. \/ UNCHANGED groups
      \/ \E g \in CreateReq : CreateCommit(g)
      \/ \E r \in ChangeReq : ChangeCommit(r)
  BY DEF Next, Arrivals, Losses, StoreCommunity, CreateArrive, ChangeArrive, CreateLost,
         ChangeLost, CreateProgress, CreateCheck, CreateInsert, CreateRespond,
         ChangeProgress, ChangeGetGroup, ChangeGetCommunity, ChangeApply, ChangeSave,
         ChangeRespond, vars
<1> QED
  BY <1>1, <1>2, <1>3, <1>4

(* Racing removals never leave a group fewer than two members, and racing  *)
(* creations never give two groups one slug: groups change as Membership   *)
(* says.                                                                   *)
THEOREM Refinement == Spec => ImplementsMembership
<1>1. Init => Groups!Init
  BY NoneAssumption DEF Init, Groups!Init
<1>2. GroupInv /\ [Next]_vars => [Groups!Next]_(Groups!vars)
  BY MembershipStep
<1> QED
  BY Reachable, <1>1, <1>2, PTL DEF Spec, ImplementsMembership, Groups!Spec
=============================================================================
