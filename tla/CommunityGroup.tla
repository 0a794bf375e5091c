--------------------------- MODULE CommunityGroup ---------------------------
(***************************************************************************)
(* Groups of communities: the requests that create a group, add a member   *)
(* and remove one, as transactions whose statements interleave.  A change  *)
(* reads the whole group, rewrites it and is guarded by its version alone. *)
(*                                                                         *)
(* groups are the committed rows, named by the request that creates them;  *)
(* a creation at "commit" has inserted its slug, a change at "commit" has  *)
(* written and locked the row of its group.                                *)
(***************************************************************************)
EXTENDS Integers, FiniteSets

CONSTANTS CreateReq, ChangeReq, Community, Name, Slug,
          SlugOf,      \* the slug of each name, None when it has none
          None

ASSUME SlugAssumption == SlugOf \in [Name -> Slug \cup {None}]

VARIABLES stored,      \* the communities that have a row
          groups, create, change

vars == <<stored, groups, create, change>>

-----------------------------------------------------------------------------
(* Rows and requests *)

GroupRow == [slug: Slug, members: SUBSET Community, version: Nat]

ASSUME NoneAssumption == /\ None \notin Slug \cup Community \cup CreateReq \cup Name
                         /\ None \notin GroupRow

CreateSteps == {"checkCommunities", "insert", "commit", "committed"}
CreateEnds  == {"Created", "CommunityNotFound", "Invalid", "DuplicateSlug", "Lost"}
ChangeSteps == {"getGroup", "getCommunity", "apply", "save", "commit", "committed"}
ChangeEnds  == {"Changed", "GroupNotFound", "CommunityNotFound", "AlreadyMember",
                "NotMember", "BelowMinimum", "ConcurrentModification", "Lost"}

(* listed: whether some member is listed twice in the request.             *)
CreateRecord == [pc: CreateSteps \cup CreateEnds \cup {"idle"},
                 name: Name \cup {None}, members: SUBSET Community,
                 listed: {"once", "twice"}]

(* wrote is a history variable: "yes" once the change has been committed.  *)
ChangeRecord == [pc: ChangeSteps \cup ChangeEnds \cup {"idle"},
                 op: {"add", "remove"}, group: CreateReq \cup {None},
                 community: Community \cup {None}, members: SUBSET Community,
                 version: Nat, wrote: {"no", "yes"}]

NoCreate == [pc |-> "idle", name |-> None, members |-> {}, listed |-> "once"]
NoChange == [pc |-> "idle", op |-> "add", group |-> None, community |-> None,
             members |-> {}, version |-> 0, wrote |-> "no"]

Init == /\ stored = {}
        /\ groups = [g \in CreateReq |-> None]
        /\ create = [g \in CreateReq |-> NoCreate]
        /\ change = [r \in ChangeReq |-> NoChange]

(* What the community component commits.                                   *)
StoreCommunity(c) == /\ c \notin stored
                     /\ stored' = stored \cup {c}
                     /\ UNCHANGED <<groups, create, change>>

(* _MINIMUM_MEMBERS                                                        *)
EnoughMembers(s) == Cardinality(s) >= 2

-----------------------------------------------------------------------------
(* CreateCommunityGroup *)

CreateGo(g, from, to) == create[g].pc = from /\ create' = [create EXCEPT ![g].pc = to]

(* A refused creation keeps nothing but its answer.                        *)
CreateRefuse(g, answer) == create' = [create EXCEPT ![g] = [NoCreate EXCEPT !.pc = answer]]

CreateArrive(g, name, members, listed) ==
  /\ create[g].pc = "idle"
  /\ members = {} => listed = "once"
  /\ create' = [create EXCEPT ![g] =
        [pc |-> "checkCommunities", name |-> name, members |-> members, listed |-> listed]]
  /\ UNCHANGED <<stored, groups, change>>

\* Mutant: a name without a slug makes a group.
HasMembers(q) == q.listed = "once" /\ EnoughMembers(q.members)

(* The aggregate's invariants: two members, none of them listed twice, and *)
(* a name that has a slug.                                                 *)
IsGroup(q) == q.listed = "once" /\ EnoughMembers(q.members) /\ SlugOf[q.name] # None

(* Communities are looked up one by one; as none is ever removed, that is  *)
(* looking them all up at the last one.                                    *)
CreateCheck(g) ==
  LET q == create[g] IN
  /\ q.pc = "checkCommunities"
  /\ \/ ~ q.members \subseteq stored /\ CreateRefuse(g, "CommunityNotFound")
     \/ /\ q.members \subseteq stored
        /\ IF IsGroup(q) THEN CreateGo(g, "checkCommunities", "insert")
           ELSE CreateRefuse(g, "Invalid")
  /\ UNCHANGED <<stored, groups, change>>

SlugTaken(slug) == \E g \in CreateReq : groups[g] # None /\ groups[g].slug = slug

\* Mutant: names are unique, and slugs are not.
NameInDoubt(h, g) == create[h].pc = "commit" /\ create[h].name = create[g].name

(* uq_community_groups_slug: an open transaction h has inserted the slug.  *)
SlugInDoubt(h, g) == /\ create[h].pc = "commit"
                     /\ SlugOf[create[h].name] = SlugOf[create[g].name]

CreateInsert(g) ==
  /\ create[g].pc = "insert"
  /\ \A h \in CreateReq \ {g} : ~SlugInDoubt(h, g)
  /\ IF SlugTaken(SlugOf[create[g].name]) THEN CreateRefuse(g, "DuplicateSlug")
     ELSE CreateGo(g, "insert", "commit")
  /\ UNCHANGED <<stored, groups, change>>

CreateCommit(g) ==
  /\ CreateGo(g, "commit", "committed")
  /\ groups' = [groups EXCEPT ![g] = [slug |-> SlugOf[create[g].name],
                                      members |-> create[g].members, version |-> 1]]
  /\ UNCHANGED <<stored, change>>

CreateRespond(g) == /\ CreateGo(g, "committed", "Created")
                    /\ UNCHANGED <<stored, groups, change>>

CreateLost(g) == /\ create[g].pc \in CreateSteps
                 /\ create' = [create EXCEPT ![g].pc = "Lost"]
                 /\ UNCHANGED <<stored, groups, change>>

-----------------------------------------------------------------------------
(* AddCommunityToGroup and RemoveCommunityFromGroup *)

ChangeGo(r, from, to) == change[r].pc = from /\ change' = [change EXCEPT ![r].pc = to]

ChangeArrive(r, op, g, c) ==
  /\ change[r].pc = "idle"
  /\ change' = [change EXCEPT ![r] = [NoChange EXCEPT
        !.pc = "getGroup", !.op = op, !.group = g, !.community = c]]
  /\ UNCHANGED <<stored, groups, create>>

(* Only an addition looks the community up.                                *)
ChangeGetGroup(r) ==
  LET row == groups[change[r].group] IN
  /\ change[r].pc = "getGroup"
  /\ \/ row = None /\ ChangeGo(r, "getGroup", "GroupNotFound")
     \/ /\ row # None
        /\ change' = [change EXCEPT
             ![r].pc = IF change[r].op = "add" THEN "getCommunity" ELSE "apply",
             ![r].members = row.members, ![r].version = row.version]
  /\ UNCHANGED <<stored, groups, create>>

ChangeGetCommunity(r) ==
  /\ ChangeGo(r, "getCommunity",
              IF change[r].community \in stored THEN "apply" ELSE "CommunityNotFound")
  /\ UNCHANGED <<stored, groups, create>>

AddMember(r) ==
  LET q == change[r] IN
  \/ q.community \in q.members /\ ChangeGo(r, "apply", "AlreadyMember")
  \/ /\ q.community \notin q.members /\ q.pc = "apply"
     /\ change' = [change EXCEPT ![r].pc = "save", ![r].members = @ \cup {q.community}]

RemoveMember(r) ==
  LET q == change[r] IN
  \/ q.community \notin q.members /\ ChangeGo(r, "apply", "NotMember")
  \/ /\ q.community \in q.members
     /\ ~EnoughMembers(q.members \ {q.community})
     /\ ChangeGo(r, "apply", "BelowMinimum")
  \/ /\ q.community \in q.members /\ q.pc = "apply"
     /\ EnoughMembers(q.members \ {q.community})
     /\ change' = [change EXCEPT ![r].pc = "save", ![r].members = @ \ {q.community}]

ChangeApply(r) ==
  /\ IF change[r].op = "add" THEN AddMember(r) ELSE RemoveMember(r)
  /\ UNCHANGED <<stored, groups, create>>

RowLocked(q, g) == change[q].group = g /\ change[q].pc = "commit"

\* Mutant: the upsert has no WHERE.
AnyVersionMatches(r) == TRUE
\* Mutant: any later version will do.
VersionNotOlder(r) == groups[change[r].group].version >= change[r].version

(* The upsert's WHERE version = expected.                                  *)
VersionMatches(r) == groups[change[r].group].version = change[r].version

ChangeSave(r) ==
  /\ \A q \in ChangeReq \ {r} : ~RowLocked(q, change[r].group)
  /\ ChangeGo(r, "save", IF VersionMatches(r) THEN "commit" ELSE "ConcurrentModification")
  /\ UNCHANGED <<stored, groups, create>>

ChangeCommit(r) ==
  /\ change[r].pc = "commit"
  /\ change' = [change EXCEPT ![r].pc = "committed", ![r].wrote = "yes"]
  /\ groups' = [groups EXCEPT ![change[r].group].members = change[r].members,
                              ![change[r].group].version = change[r].version + 1]
  /\ UNCHANGED <<stored, create>>

ChangeRespond(r) == /\ ChangeGo(r, "committed", "Changed")
                    /\ UNCHANGED <<stored, groups, create>>

ChangeLost(r) == /\ change[r].pc \in ChangeSteps
                 /\ change' = [change EXCEPT ![r].pc = "Lost"]
                 /\ UNCHANGED <<stored, groups, create>>

-----------------------------------------------------------------------------
(* The system *)

CreateProgress(g) == CreateCheck(g) \/ CreateInsert(g) \/ CreateCommit(g) \/ CreateRespond(g)

ChangeProgress(r) ==
  \/ ChangeGetGroup(r) \/ ChangeGetCommunity(r) \/ ChangeApply(r) \/ ChangeSave(r)
  \/ ChangeCommit(r) \/ ChangeRespond(r)

Arrivals ==
  \/ \E c \in Community : StoreCommunity(c)
  \/ \E g \in CreateReq, name \in Name, members \in SUBSET Community,
        listed \in {"once", "twice"} : CreateArrive(g, name, members, listed)
  \/ \E r \in ChangeReq, op \in {"add", "remove"}, g \in CreateReq, c \in Community :
       ChangeArrive(r, op, g, c)

Losses == (\E g \in CreateReq : CreateLost(g)) \/ (\E r \in ChangeReq : ChangeLost(r))

Next == \/ Arrivals \/ Losses
        \/ \E g \in CreateReq : CreateProgress(g)
        \/ \E r \in ChangeReq : ChangeProgress(r)

Spec == Init /\ [][Next]_vars

-----------------------------------------------------------------------------
(* Properties *)

(* Every variable keeps its type.                                          *)
TypeOK == /\ stored \subseteq Community
          /\ groups \in [CreateReq -> GroupRow \cup {None}]
          /\ create \in [CreateReq -> CreateRecord]
          /\ change \in [ChangeReq -> ChangeRecord]

(* The members of a group are those it was created with, plus the          *)
(* additions and minus the removals committed since: no racing change is   *)
(* lost, applied twice or undone.                                          *)
Count(g, op, c) ==
  Cardinality({r \in ChangeReq : /\ change[r].wrote = "yes" /\ change[r].op = op
                                 /\ change[r].group = g /\ change[r].community = c})

MembersAreTheSum ==
  \A g \in CreateReq, c \in Community :
    groups[g] # None =>
      (IF c \in groups[g].members THEN 1 ELSE 0) =
        (IF c \in create[g].members THEN 1 ELSE 0) + Count(g, "add", c) - Count(g, "remove", c)

(* Groups change as the abstract specification allows.                     *)
Groups == INSTANCE Membership WITH
  Group <- CreateReq,
  members <- [g \in CreateReq |-> IF groups[g] = None THEN {} ELSE groups[g].members],
  slugOf <- [g \in CreateReq |-> IF groups[g] = None THEN None ELSE groups[g].slug]

(* The component implements Membership: racing removals never leave fewer  *)
(* than two members, each commit changes one member only, and racing       *)
(* creations whose names differ never share a slug.                        *)
ImplementsMembership == Groups!Spec
=============================================================================
