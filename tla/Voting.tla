------------------------------- MODULE Voting -------------------------------
(***************************************************************************)
(* Votes and ballots of a community of co-owners: the three requests that  *)
(* change them (create a vote, cast or correct a ballot, close a vote),    *)
(* each a transaction whose statements interleave with those of the other  *)
(* requests at every await (PostgreSQL, READ COMMITTED).                   *)
(*                                                                         *)
(* votes and ballots are the committed rows.  A request's own record holds *)
(* its input, what it has read, and, through its pc, the writes it has     *)
(* executed and not yet committed: a cast at "saveNew" or "commit" holds   *)
(* the lock of the row it supersedes, and at "commit" has inserted its     *)
(* ballot; a close at "commit" holds the lock of the row of its vote.      *)
(* Identifiers are generated fresh by the request that inserts a row, so a *)
(* vote is named by its create request and a ballot by its cast request.   *)
(***************************************************************************)
EXTENDS Integers

CONSTANTS CreateReq, CastReq, CloseReq,  \* the requests, by kind
          Account, Owner, Community, Unit, Option,
          CommunityOf,                   \* the community of each unit
          Links0, Owns0,                 \* account links and ownerships at start
          MaxTime,                       \* bound of the clock
          None                           \* no owner, no option, no row

ASSUME UnitsAssumption == CommunityOf \in [Unit -> Community]
ASSUME StartAssumption == /\ Links0 \in [Account -> Owner \cup {None}]
                          /\ Owns0 \subseteq Owner \X Unit
ASSUME TimeAssumption == MaxTime \in Nat

VARIABLES clock, link, owns, votes, ballots, create, cast, close

env   == <<clock, link, owns>>
store == <<votes, ballots>>
vars  == <<clock, link, owns, votes, ballots, create, cast, close>>

-----------------------------------------------------------------------------
(* Rows and requests *)

(* A VoteResult is abstracted to the ballots that its tallies count.       *)
Result == [counted: SUBSET CastReq, closedAt: Nat]

VoteRow == [community: Community, endDate: Nat,
            result: Result \cup {None}, version: Nat]

BallotRow == [vote: CreateReq, unit: Unit, option: Option, owner: Owner,
              castAt: Nat, supersededBy: CastReq \cup {None}]

ASSUME NoneAssumption ==
  /\ None \notin Owner \cup Option \cup CastReq \cup CreateReq \cup Community
  /\ None \notin Result /\ None \notin VoteRow /\ None \notin BallotRow

CreateSteps == {"getAccount", "getCommunity", "save", "commit", "committed"}
CreateEnds  == {"Created", "NotAuthorized", "CommunityNotFound",
                "EndDateNotInFuture", "InvalidVote", "InternalError", "Lost"}

(* What is wrong with the content of a new vote, the first that the code   *)
(* meets: an option with a blank label, an end date without a time zone,   *)
(* or a blank title, fewer than two options or two with one label.         *)
Contents == {"valid", "blankOption", "naiveEnd", "invalid"}

CastSteps == {"getVote", "getAccount", "getCommunity", "getActive",
              "saveExisting", "saveNew", "commit", "committed"}
CastEnds  == {"Created", "VoteNotFound", "VoteHasEnded", "NotAuthorized",
              "OptionNotInVote", "UnitNotFound", "VotedByAnotherOwner",
              "ConcurrentBallot", "Lost"}

CloseSteps == {"getVote", "getAccount", "getCommunity", "getBallots",
               "save", "commit", "committed"}
CloseEnds  == {"Closed", "VoteNotFound", "AlreadyClosed", "NotEndedYet",
               "NotAuthorized", "ConcurrentModification", "InternalError",
               "Lost"}

CreateRecord == [pc: CreateSteps \cup CreateEnds \cup {"idle"},
                 account: Account \cup {None}, community: Community \cup {None},
                 endDate: Nat, content: Contents, now: Nat,
                 owner: Owner \cup {None}]

CastRecord == [pc: CastSteps \cup CastEnds \cup {"idle"},
               account: Account \cup {None}, vote: CreateReq \cup {None},
               unit: Unit \cup {None}, option: Option \cup {None}, now: Nat,
               owner: Owner \cup {None}, existing: CastReq \cup {None}]

(* seen is a history variable: the ballots committed when the request was  *)
(* dispatched.  No action reads it.                                        *)
CloseRecord == [pc: CloseSteps \cup CloseEnds \cup {"idle"},
                account: Account \cup {None}, vote: CreateReq \cup {None},
                now: Nat, owner: Owner \cup {None}, version: Nat,
                counted: SUBSET CastReq, seen: SUBSET CastReq]

(* A request that has not arrived; one that has ended keeps only its pc.   *)
NoCreate == [pc |-> "idle", account |-> None, community |-> None,
             endDate |-> 0, content |-> "valid", now |-> 0, owner |-> None]
NoCast == [pc |-> "idle", account |-> None, vote |-> None, unit |-> None,
           option |-> None, now |-> 0, owner |-> None, existing |-> None]
NoClose == [pc |-> "idle", account |-> None, vote |-> None, now |-> 0,
            owner |-> None, version |-> 0, counted |-> {}, seen |-> {}]

Stored == {b \in CastReq : ballots[b] # None}

(* The rows get_active_ballot and get_all_active_for_vote select.          *)
Active == {b \in Stored : ballots[b].supersededBy = None}

SamePair(b, v, u) == ballots[b].vote = v /\ ballots[b].unit = u

-----------------------------------------------------------------------------
Init ==
  /\ clock = 0
  /\ link = Links0
  /\ owns = Owns0
  /\ votes = [v \in CreateReq |-> None]
  /\ ballots = [b \in CastReq |-> None]
  /\ create = [r \in CreateReq |-> NoCreate]
  /\ cast = [r \in CastReq |-> NoCast]
  /\ close = [r \in CloseReq |-> NoClose]

-----------------------------------------------------------------------------
(* The surroundings *)

Tick == /\ clock < MaxTime
        /\ clock' = clock + 1
        /\ UNCHANGED <<link, owns, store, create, cast, close>>

(* What the identity component commits: an account is linked once, to an   *)
(* owner that no other account is linked to.                               *)
LinkOwner(a, o) ==
  /\ link[a] = None
  /\ \A x \in Account : link[x] # o
  /\ link' = [link EXCEPT ![a] = o]
  /\ UNCHANGED <<clock, owns, store, create, cast, close>>

(* What the community component commits: units only gain owners.           *)
AssignOwner(o, u) ==
  /\ <<o, u>> \notin owns
  /\ owns' = owns \cup {<<o, u>>}
  /\ UNCHANGED <<clock, link, store, create, cast, close>>

OwnsUnitIn(o, c) == \E u \in Unit : CommunityOf[u] = c /\ <<o, u>> \in owns

-----------------------------------------------------------------------------
(* CreateVote *)

CreateGo(r, from, to) == /\ create[r].pc = from
                         /\ create' = [create EXCEPT ![r].pc = to]

(* Rolled back if it was not committed, and answered.                      *)
CreateEnd(r, answer) ==
  create' = [create EXCEPT ![r] = [NoCreate EXCEPT !.pc = answer]]

CreateArrive(r, a, c, end, content) ==
  /\ create[r].pc = "idle"
  /\ create' = [create EXCEPT ![r] =
        [pc |-> "getAccount", account |-> a, community |-> c,
         endDate |-> end, content |-> content, now |-> clock,
         owner |-> None]]
  /\ UNCHANGED <<env, store, cast, close>>

CreateGetAccount(r) ==
  LET o == link[create[r].account] IN
  /\ create[r].pc = "getAccount"
  /\ \/ o = None /\ CreateEnd(r, "NotAuthorized")
     \/ o # None /\ create' = [create EXCEPT ![r].pc = "getCommunity",
                                             ![r].owner = o]
  /\ UNCHANGED <<env, store, cast, close>>

(* Vote.create                                                             *)
MakesVote(q) == q.content = "valid" /\ q.endDate > q.now

(* Options are made before the end date is compared with the time of       *)
(* dispatch, and the rest is checked after: an end date without a time     *)
(* zone cannot be compared, and the TypeError has no handler.              *)
VoteRefusal(q) ==
  CASE q.content = "naiveEnd" -> "InternalError"
    [] q.content \in {"valid", "invalid"} /\ q.endDate <= q.now -> "EndDateNotInFuture"
    [] OTHER -> "InvalidVote"

CreateGetCommunity(r) ==
  LET q == create[r] IN
  /\ q.pc = "getCommunity"
  /\ \/ /\ q.community = None
        /\ CreateEnd(r, "CommunityNotFound")
     \/ /\ q.community # None
        /\ ~OwnsUnitIn(q.owner, q.community)
        /\ CreateEnd(r, "NotAuthorized")
     \/ /\ q.community # None
        /\ OwnsUnitIn(q.owner, q.community)
        /\ IF MakesVote(q) THEN CreateGo(r, "getCommunity", "save")
           ELSE CreateEnd(r, VoteRefusal(q))
  /\ UNCHANGED <<env, store, cast, close>>

CreateSave(r) == /\ CreateGo(r, "save", "commit")
                 /\ UNCHANGED <<env, store, cast, close>>

CreateCommit(r) ==
  /\ CreateGo(r, "commit", "committed")
  /\ votes' = [votes EXCEPT ![r] =
        [community |-> create[r].community, endDate |-> create[r].endDate,
         result |-> None, version |-> 1]]
  /\ UNCHANGED <<env, ballots, cast, close>>

CreateRespond(r) == /\ create[r].pc = "committed"
                    /\ CreateEnd(r, "Created")
                    /\ UNCHANGED <<env, store, cast, close>>

(* The process dies or the connection breaks: what was not committed is    *)
(* rolled back, what was committed stands, and no answer arrives.          *)
CreateLost(r) == /\ create[r].pc \in CreateSteps
                 /\ CreateEnd(r, "Lost")
                 /\ UNCHANGED <<env, store, cast, close>>

-----------------------------------------------------------------------------
(* CastBallot *)

CastGo(r, from, to) == /\ cast[r].pc = from
                       /\ cast' = [cast EXCEPT ![r].pc = to]

(* Rolled back if it was not committed, and answered.                      *)
CastEnd(r, answer) ==
  cast' = [cast EXCEPT ![r] = [NoCast EXCEPT !.pc = answer]]

CastArrive(r, a, v, u, op) ==
  /\ cast[r].pc = "idle"
  /\ cast' = [cast EXCEPT ![r] =
        [pc |-> "getVote", account |-> a, vote |-> v, unit |-> u,
         option |-> op, now |-> clock, owner |-> None, existing |-> None]]
  /\ UNCHANGED <<env, store, create, close>>

\* Mutant: the end date is not compared.
CastAtAnyTime(r) == FALSE

CastAfterTheEnd(r) == cast[r].now > votes[cast[r].vote].endDate

CastGetVote(r) ==
  LET row == votes[cast[r].vote] IN
  /\ cast[r].pc = "getVote"
  /\ \/ row = None /\ CastEnd(r, "VoteNotFound")
     \/ row # None /\ CastAfterTheEnd(r) /\ CastEnd(r, "VoteHasEnded")
     \/ row # None /\ ~CastAfterTheEnd(r) /\ CastGo(r, "getVote", "getAccount")
  /\ UNCHANGED <<env, store, create, close>>

\* Mutant: any option is taken.
AnyOptionBelongs(r) == TRUE

OptionBelongs(r) == cast[r].option # None

CastGetAccount(r) ==
  LET o == link[cast[r].account] IN
  /\ cast[r].pc = "getAccount"
  /\ \/ o = None /\ CastEnd(r, "NotAuthorized")
     \/ /\ o # None /\ ~OptionBelongs(r)
        /\ CastEnd(r, "OptionNotInVote")
     \/ /\ o # None /\ OptionBelongs(r)
        /\ cast' = [cast EXCEPT ![r].pc = "getCommunity", ![r].owner = o]
  /\ UNCHANGED <<env, store, create, close>>

\* Mutant: the unit is not looked up among those of the community.
AnyUnitInCommunity(r) == TRUE

UnitInCommunity(r) ==
  CommunityOf[cast[r].unit] = votes[cast[r].vote].community

OwnsTheUnit(r) == <<cast[r].owner, cast[r].unit>> \in owns

CastGetCommunity(r) ==
  /\ cast[r].pc = "getCommunity"
  /\ \/ ~UnitInCommunity(r) /\ CastEnd(r, "UnitNotFound")
     \/ /\ UnitInCommunity(r) /\ ~OwnsTheUnit(r)
        /\ CastEnd(r, "NotAuthorized")
     \/ /\ UnitInCommunity(r) /\ OwnsTheUnit(r)
        /\ CastGo(r, "getCommunity", "getActive")
  /\ UNCHANGED <<env, store, create, close>>

\* Mutant: a co-owner may correct the ballot of another.
AnyOwnersBallot(r, b) == FALSE

AnotherOwnersBallot(r, b) == ballots[b].owner # cast[r].owner

CastGetActive(r) ==
  LET pair == {b \in Active : SamePair(b, cast[r].vote, cast[r].unit)} IN
  /\ cast[r].pc = "getActive"
  /\ \/ pair = {} /\ CastGo(r, "getActive", "saveNew")
     \/ \E b \in pair :
          IF AnotherOwnersBallot(r, b)
          THEN CastEnd(r, "VotedByAnotherOwner")
          ELSE cast' = [cast EXCEPT ![r].pc = "saveExisting",
                                    ![r].existing = b]
  /\ UNCHANGED <<env, store, create, close>>

(* The upsert that supersedes row b has run in a transaction still open.   *)
HoldsRow(r, b) == /\ cast[r].existing = b
                  /\ cast[r].pc \in {"saveNew", "commit"}

\* Mutant: save(existing) commits on its own.
CastSaveExistingAlone(r) ==
  /\ cast[r].pc = "saveExisting"
  /\ cast' = [cast EXCEPT ![r].pc = "saveNew"]
  /\ ballots' = [ballots EXCEPT ![cast[r].existing].supersededBy = r]
  /\ UNCHANGED <<env, votes, create, close>>

(* save(existing): ON CONFLICT (id) DO UPDATE waits for the row's lock and *)
(* then overwrites superseded_by_ballot_id, whatever it has become.        *)
CastSaveExisting(r) ==
  /\ \A q \in CastReq \ {r} : ~HoldsRow(q, cast[r].existing)
  /\ CastGo(r, "saveExisting", "saveNew")
  /\ UNCHANGED <<env, store, create, close>>

\* Mutant: the index looks at committed rows only.
IndexNeverInDoubt(q, r) == FALSE
\* Mutant: an insert waits for every other cast about to insert.
IndexInDoubtEarly(q, r) ==
  /\ cast[q].vote = cast[r].vote /\ cast[q].unit = cast[r].unit
  /\ cast[q].pc \in {"saveNew", "commit"}

(* Another open transaction q has changed the entry of r's pair in the     *)
(* partial unique index: inserted an active ballot, or superseded the      *)
(* committed one.  An insert waits until q ends.                           *)
IndexInDoubt(q, r) ==
  /\ cast[q].vote = cast[r].vote /\ cast[q].unit = cast[r].unit
  /\ \/ cast[q].pc = "commit"
     \/ \E b \in Active : HoldsRow(q, b)

\* Mutant: a correction is not checked against the index.
IndexConflictOfFirst(r) ==
  /\ cast[r].existing = None
  /\ \E b \in Active : SamePair(b, cast[r].vote, cast[r].unit)

(* ix_ballots_active_per_vote_unit, as r's transaction sees it.            *)
IndexConflict(r) ==
  \E b \in Active : /\ SamePair(b, cast[r].vote, cast[r].unit)
                    /\ ~HoldsRow(r, b)

CastSaveNew(r) ==
  /\ cast[r].pc = "saveNew"
  /\ \A q \in CastReq \ {r} : ~IndexInDoubt(q, r)
  /\ IF IndexConflict(r) THEN CastEnd(r, "ConcurrentBallot")
     ELSE CastGo(r, "saveNew", "commit")
  /\ UNCHANGED <<env, store, create, close>>

NewBallot(r) == [vote |-> cast[r].vote, unit |-> cast[r].unit,
                 option |-> cast[r].option, owner |-> cast[r].owner,
                 castAt |-> cast[r].now, supersededBy |-> None]

CastCommit(r) ==
  /\ CastGo(r, "commit", "committed")
  /\ ballots' = [b \in CastReq |->
        IF b = r THEN NewBallot(r)
        ELSE IF b = cast[r].existing
        THEN [ballots[b] EXCEPT !.supersededBy = r]
        ELSE ballots[b]]
  /\ UNCHANGED <<env, votes, create, close>>

\* Mutant: the response is sent before the session is committed.
CastRespondEarly(r) == /\ cast[r].pc = "commit"
                       /\ CastEnd(r, "Created")
                       /\ UNCHANGED <<env, store, create, close>>

CastRespond(r) == /\ cast[r].pc = "committed"
                  /\ CastEnd(r, "Created")
                  /\ UNCHANGED <<env, store, create, close>>

CastLost(r) == /\ cast[r].pc \in CastSteps
               /\ CastEnd(r, "Lost")
               /\ UNCHANGED <<env, store, create, close>>

-----------------------------------------------------------------------------
(* CloseVote *)

CloseGo(r, from, to) == /\ close[r].pc = from
                        /\ close' = [close EXCEPT ![r].pc = to]

(* Rolled back if it was not committed, and answered.                      *)
CloseEnd(r, answer) ==
  close' = [close EXCEPT ![r] = [NoClose EXCEPT !.pc = answer]]

CloseArrive(r, a, v) ==
  /\ close[r].pc = "idle"
  /\ close' = [close EXCEPT ![r] =
        [pc |-> "getVote", account |-> a, vote |-> v, now |-> clock,
         owner |-> None, version |-> 0, counted |-> {}, seen |-> Stored]]
  /\ UNCHANGED <<env, store, create, cast>>

CloseGetVote(r) ==
  LET row == votes[close[r].vote] IN
  /\ close[r].pc = "getVote"
  /\ \/ row = None /\ CloseEnd(r, "VoteNotFound")
     \/ /\ row # None /\ row.result # None
        /\ CloseEnd(r, "AlreadyClosed")
     \/ /\ row # None /\ row.result = None /\ close[r].now <= row.endDate
        /\ CloseEnd(r, "NotEndedYet")
     \/ /\ row # None /\ row.result = None /\ close[r].now > row.endDate
        /\ close' = [close EXCEPT ![r].pc = "getAccount",
                                  ![r].version = row.version]
  /\ UNCHANGED <<env, store, create, cast>>

CloseGetAccount(r) ==
  LET o == link[close[r].account] IN
  /\ close[r].pc = "getAccount"
  /\ \/ o = None /\ CloseEnd(r, "NotAuthorized")
     \/ o # None /\ close' = [close EXCEPT ![r].pc = "getCommunity",
                                           ![r].owner = o]
  /\ UNCHANGED <<env, store, create, cast>>

CloseGetCommunity(r) ==
  /\ close[r].pc = "getCommunity"
  /\ LET mine == OwnsUnitIn(close[r].owner, votes[close[r].vote].community) IN
     IF mine THEN CloseGo(r, "getCommunity", "getBallots")
     ELSE CloseEnd(r, "NotAuthorized")
  /\ UNCHANGED <<env, store, create, cast>>

(* calculate_vote_result raises on two active ballots of a unit, and on a  *)
(* unit that is not one of the community.                                  *)
Calculable(counted, c) ==
  /\ \A b1, b2 \in counted : ballots[b1].unit = ballots[b2].unit => b1 = b2
  /\ \A b \in counted : CommunityOf[ballots[b].unit] = c

\* Mutant: ballots dispatched at the very end of the vote are left out.
BallotsBeforeTheEnd(v) ==
  {b \in Active : ballots[b].vote = v /\ ballots[b].castAt < votes[v].endDate}

AllActiveFor(v) == {b \in Active : ballots[b].vote = v}

CloseGetBallots(r) ==
  LET counted == AllActiveFor(close[r].vote) IN
  /\ close[r].pc = "getBallots"
  /\ IF Calculable(counted, votes[close[r].vote].community)
     THEN close' = [close EXCEPT ![r].pc = "save", ![r].counted = counted]
     ELSE CloseEnd(r, "InternalError")
  /\ UNCHANGED <<env, store, create, cast>>

\* Mutant: the upsert has no WHERE.
AnyVersionMatches(r) == TRUE

(* The upsert's WHERE version = expected.                                  *)
VersionMatches(r) == votes[close[r].vote].version = close[r].version

\* Mutant: the row of the vote is not locked.
VoteRowNeverLocked(q, v) == FALSE

VoteRowLocked(q, v) == close[q].pc = "commit" /\ close[q].vote = v

(* save(vote): waits for the lock of the vote's row, then compares.        *)
CloseSave(r) ==
  /\ close[r].pc = "save"
  /\ \A q \in CloseReq \ {r} : ~VoteRowLocked(q, close[r].vote)
  /\ IF VersionMatches(r) THEN CloseGo(r, "save", "commit")
     ELSE CloseEnd(r, "ConcurrentModification")
  /\ UNCHANGED <<env, store, create, cast>>

ResultOf(r) == [counted |-> close[r].counted, closedAt |-> close[r].now]

CloseCommit(r) ==
  /\ CloseGo(r, "commit", "committed")
  /\ votes' = [votes EXCEPT ![close[r].vote].result = ResultOf(r),
                            ![close[r].vote].version = close[r].version + 1]
  /\ UNCHANGED <<env, ballots, create, cast>>

CloseRespond(r) == /\ CloseGo(r, "committed", "Closed")
                   /\ UNCHANGED <<env, store, create, cast>>

CloseLost(r) == /\ close[r].pc \in CloseSteps
                /\ CloseEnd(r, "Lost")
                /\ UNCHANGED <<env, store, create, cast>>

-----------------------------------------------------------------------------
(* The system *)

CreateProgress(r) ==
  \/ CreateGetAccount(r) \/ CreateGetCommunity(r) \/ CreateSave(r)
  \/ CreateCommit(r) \/ CreateRespond(r)

CastProgress(r) ==
  \/ CastGetVote(r) \/ CastGetAccount(r) \/ CastGetCommunity(r)
  \/ CastGetActive(r) \/ CastSaveExisting(r) \/ CastSaveNew(r)
  \/ CastCommit(r) \/ CastRespond(r)

CloseProgress(r) ==
  \/ CloseGetVote(r) \/ CloseGetAccount(r) \/ CloseGetCommunity(r)
  \/ CloseGetBallots(r) \/ CloseSave(r) \/ CloseCommit(r) \/ CloseRespond(r)

Surroundings ==
  \/ Tick
  \/ \E a \in Account, o \in Owner : LinkOwner(a, o)
  \/ \E o \in Owner, u \in Unit : AssignOwner(o, u)

Arrivals ==
  \/ \E r \in CreateReq, a \in Account, c \in Community \cup {None},
        end \in 0..MaxTime, content \in Contents :
        CreateArrive(r, a, c, end, content)
  \/ \E r \in CastReq, a \in Account, v \in CreateReq, u \in Unit,
        op \in Option \cup {None} : CastArrive(r, a, v, u, op)
  \/ \E r \in CloseReq, a \in Account, v \in CreateReq : CloseArrive(r, a, v)

Losses ==
  \/ \E r \in CreateReq : CreateLost(r)
  \/ \E r \in CastReq : CastLost(r)
  \/ \E r \in CloseReq : CloseLost(r)

Progress ==
  \/ \E r \in CreateReq : CreateProgress(r)
  \/ \E r \in CastReq : CastProgress(r)
  \/ \E r \in CloseReq : CloseProgress(r)

Next == Surroundings \/ Arrivals \/ Losses \/ Progress

(* An event loop runs every task that can run; nothing makes a client send *)
(* a request, a connection break or an owner be linked.                    *)
Fairness ==
  /\ \A r \in CreateReq : WF_vars(CreateProgress(r))
  /\ \A r \in CastReq : WF_vars(CastProgress(r))
  /\ \A r \in CloseReq : WF_vars(CloseProgress(r))

Spec == Init /\ [][Next]_vars
FairSpec == Spec /\ Fairness

-----------------------------------------------------------------------------
(* Properties *)

(* Every variable keeps its type: rows are whole or absent, requests are   *)
(* at a step of their use case or ended with one of its answers.           *)
TypeOK ==
  /\ clock \in Nat
  /\ link \in [Account -> Owner \cup {None}]
  /\ owns \subseteq Owner \X Unit
  /\ votes \in [CreateReq -> VoteRow \cup {None}]
  /\ ballots \in [CastReq -> BallotRow \cup {None}]
  /\ create \in [CreateReq -> CreateRecord]
  /\ cast \in [CastReq -> CastRecord]
  /\ close \in [CloseReq -> CloseRecord]

(* Two active ballots never stand for the same unit of a vote, however     *)
(* first casts and corrections of co-owners race (the window the TODO of   *)
(* CastBallot describes is closed by the partial unique index).            *)
AtMostOneActive ==
  \A b1, b2 \in Active :
     SamePair(b1, ballots[b2].vote, ballots[b2].unit) => b1 = b2

(* A unit that has voted keeps a vote: a correction that fails or is lost  *)
(* half-way never leaves its unit with superseded ballots only.            *)
VotedUnitsKeepABallot ==
  \A b \in Stored : \E a \in Active : SamePair(a, ballots[b].vote, ballots[b].unit)

(* A ballot is superseded only by a stored ballot of the same vote, unit   *)
(* and owner, and a ballot supersedes at most one: the history of a unit   *)
(* is one line of corrections made by the owner who cast first.            *)
HistoryIsOneLine ==
  /\ \A b \in Stored \ Active :
       LET s == ballots[b].supersededBy IN
       /\ s \in Stored /\ s # b
       /\ SamePair(s, ballots[b].vote, ballots[b].unit)
       /\ ballots[s].owner = ballots[b].owner
  /\ \A b1, b2 \in Stored \ Active :
       ballots[b1].supersededBy = ballots[b2].supersededBy => b1 = b2

(* A stored ballot belongs to a stored vote, was dispatched no later than  *)
(* its end, and was cast for a unit of its community by an owner of it.    *)
BallotsAreEntitled ==
  \A b \in Stored :
    LET row == ballots[b] IN
    /\ votes[row.vote] # None
    /\ row.castAt <= votes[row.vote].endDate
    /\ CommunityOf[row.unit] = votes[row.vote].community
    /\ <<row.owner, row.unit>> \in owns

(* No close request ends with the unhandled errors of the calculation.     *)
ClosingIsCalculable == \A r \in CloseReq : close[r].pc # "InternalError"

(* The tallies a closer is answered are the ones the vote keeps, with any  *)
(* number of closers racing.                                               *)
ClosedAnswerIsTheRecord ==
  \A r \in CloseReq :
    close[r].pc \in {"committed", "Closed"} =>
      /\ votes[close[r].vote] # None
      /\ votes[close[r].vote].result = ResultOf(r)

(* A 201 for a ballot means that it is stored; any error means it is not.  *)
CastAnswersAreTrue ==
  \A r \in CastReq :
    /\ cast[r].pc = "Created" => r \in Stored
    /\ cast[r].pc \in CastEnds \ {"Created", "Lost"} => r \notin Stored

(* A result counts ballots of its vote, one per unit, and every unit whose *)
(* ballot was stored when the successful close request was dispatched.     *)
ResultsCountTheUnitsThatVoted ==
  \A r \in CloseReq :
    close[r].pc \in {"committed", "Closed"} =>
      /\ \A b \in close[r].counted : b \in Stored /\ ballots[b].vote = close[r].vote
      /\ \A b1, b2 \in close[r].counted : ballots[b1].unit = ballots[b2].unit => b1 = b2
      /\ \A b \in close[r].seen :
           ballots[b].vote = close[r].vote =>
             \E c \in close[r].counted : ballots[c].unit = ballots[b].unit

(* A stored ballot is never deleted or rewritten: the one change it may    *)
(* undergo is to be superseded, once (save has no version to guard it).    *)
BallotsAreOnlySuperseded ==
  [][\A b \in Stored :
       \/ ballots'[b] = ballots[b]
       \/ /\ b \in Active
          /\ \E s \in CastReq : ballots'[b] = [ballots[b] EXCEPT !.supersededBy = s]]_vars

(* A vote that has a result keeps that row as it is.                       *)
ResultsAreFinal ==
  [][\A v \in CreateReq :
       (votes[v] # None /\ votes[v].result # None) => votes'[v] = votes[v]]_vars

(* The API promises that a ballot is cast "in an open vote": none is       *)
(* stored for a vote that has its result.                                  *)
BallotsOnlyInOpenVotes ==
  [][\A b \in CastReq :
       ballots[b] = None /\ ballots'[b] # None =>
         votes[ballots'[b].vote].result = None]_vars

(* Every cast and every close is answered or lost: waits for the lock of   *)
(* the ballot that another correction supersedes, for index entries in     *)
(* doubt and for the row of the vote end.                                  *)
RequestsAreAnswered ==
  /\ \A r \in CastReq : cast[r].pc \in CastSteps ~> cast[r].pc \in CastEnds
  /\ \A r \in CloseReq : close[r].pc \in CloseSteps ~> close[r].pc \in CloseEnds

-----------------------------------------------------------------------------
(* Refinement *)

ChoiceOf(b) == [owner |-> ballots[b].owner, option |-> ballots[b].option]
ChoiceIn(bs, u) == ChoiceOf(CHOOSE b \in bs : ballots[b].unit = u)
UnitsOf(bs) == {ballots[b].unit : b \in bs}

OpenedVotes == {v \in CreateReq : votes[v] # None}

StandingChoices ==
  [v \in CreateReq |->
    [u \in Unit |-> IF u \in UnitsOf(AllActiveFor(v)) THEN ChoiceIn(AllActiveFor(v), u)
                    ELSE None]]

CountedChoices ==
  [v \in CreateReq |->
    IF votes[v] = None THEN None
    ELSE IF votes[v].result = None THEN None
    ELSE [u \in UnitsOf(votes[v].result.counted) |-> ChoiceIn(votes[v].result.counted, u)]]

Register == INSTANCE VoteRegister WITH
  Vote <- CreateReq,
  opened <- OpenedVotes, standing <- StandingChoices, result <- CountedChoices

ASSUME ChoiceAssumption == None \notin [owner: Owner, option: Option]

(* The component implements VoteRegister: whatever casts, corrections and  *)
(* closers race, each commit opens a vote, lets the owner who stands for a *)
(* unit (or the first one) choose, or closes a vote once over choices of   *)
(* the owners who stand.                                                   *)
ImplementsVoteRegister == Register!Spec
=============================================================================
