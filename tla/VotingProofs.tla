---------------------------- MODULE VotingProofs ----------------------------
(***************************************************************************)
(* The theorems of Voting, proved for any sets of requests, accounts,      *)
(* owners, units and communities.  The proof has three stages, each with   *)
(* an invariant that the next one rests on:                                *)
(*   - TypeInv: the types, and what a request has read at its step;        *)
(*   - HistoryInv: the ballots of a unit; it has to follow the locks, that *)
(*     is, what row an open transaction has superseded and which entry of  *)
(*     the partial index it has taken;                                     *)
(*   - ResultsInv: who may have cast a stored ballot, what a result counts *)
(*     and the version of the row that a close is about to write.          *)
(* With them, every step maps to one of VoteRegister.                      *)
(***************************************************************************)
EXTENDS Voting, TLAPS

-----------------------------------------------------------------------------
(* Types *)

(* What a request at its step knows.                                       *)
CreateKnows(q) ==
  /\ q.pc \in CreateSteps => q.account \in Account
  /\ q.pc \in {"save", "commit"} => q.community \in Community

CastKnows(q) ==
  /\ q.pc \in CastSteps =>
       q.account \in Account /\ q.vote \in CreateReq /\ q.unit \in Unit
  /\ q.pc \in CastSteps \ {"getVote", "getAccount"} =>
       q.owner \in Owner /\ q.option \in Option
  /\ q.existing # None => ballots[q.existing] # None

CloseKnows(q) ==
  /\ q.pc \in CloseSteps => q.account \in Account /\ q.vote \in CreateReq
  /\ q.pc \in CloseSteps \ {"getVote"} => votes[q.vote] # None

TypeInv ==
  /\ TypeOK
  /\ \A r \in CreateReq : CreateKnows(create[r])
  /\ \A r \in CastReq : CastKnows(cast[r])
  /\ \A r \in CloseReq : CloseKnows(close[r])

(* The initial state is well typed, with no request arrived.               *)
LEMMA InitTypeInv == Init => TypeInv
<1> SUFFICES ASSUME Init PROVE TypeInv
  OBVIOUS
<1>1. NoCreate \in CreateRecord /\ NoCast \in CastRecord /\ NoClose \in CloseRecord
  BY DEF NoCreate, NoCast, NoClose, CreateRecord, Contents, CastRecord, CloseRecord
<1>2. TypeOK
  BY <1>1, StartAssumption DEF Init, TypeOK
<1> QED
  BY <1>2 DEF Init, TypeInv, CreateKnows, CastKnows, CloseKnows, NoCreate, NoCast,
              NoClose, CreateSteps, CastSteps, CloseSteps

(* A step of one create request keeps the types if the request's new       *)
(* record does.                                                            *)
LEMMA CreateFrame ==
  ASSUME TypeInv, NEW r \in CreateReq, NEW q \in CreateRecord, CreateKnows(q),
         create' = [create EXCEPT ![r] = q],
         UNCHANGED <<env, store, cast, close>>
  PROVE  TypeInv'
<1>1. TypeOK'
  BY DEF TypeInv, TypeOK, env, store
<1>2. \A x \in CreateReq : CreateKnows(create'[x])
  BY DEF TypeInv, TypeOK
<1> QED
  BY <1>1, <1>2 DEF TypeInv, CreateKnows, CastKnows, CloseKnows, env, store

(* The same for a cast.                                                    *)
LEMMA CastFrame ==
  ASSUME TypeInv, NEW r \in CastReq, NEW q \in CastRecord, CastKnows(q),
         cast' = [cast EXCEPT ![r] = q],
         ballots' \in [CastReq -> BallotRow \cup {None}],
         \A b \in CastReq : ballots[b] # None => ballots'[b] # None,
         UNCHANGED <<env, votes, create, close>>
  PROVE  TypeInv'
<1>1. TypeOK'
  BY DEF TypeInv, TypeOK, env
<1>2. \A x \in CastReq : CastKnows(cast'[x]) /\ cast'[x] \in CastRecord
  BY DEF TypeInv, TypeOK
<1>3. \A x \in CastReq : CastKnows(cast[x])'
  BY <1>2 DEF CastKnows, CastRecord
<1> QED
  BY <1>1, <1>3 DEF TypeInv, CloseKnows, env

(* The same for a close.                                                   *)
LEMMA CloseFrame ==
  ASSUME TypeInv, NEW r \in CloseReq, NEW q \in CloseRecord, CloseKnows(q),
         close' = [close EXCEPT ![r] = q],
         UNCHANGED <<env, store, create, cast>>
  PROVE  TypeInv'
<1>1. TypeOK'
  BY DEF TypeInv, TypeOK, env, store
<1>2. \A x \in CloseReq : CloseKnows(close'[x])
  BY DEF TypeInv, TypeOK
<1> QED
  BY <1>1, <1>2 DEF TypeInv, CastKnows, CloseKnows, env, store

(* A request that ends forgets everything but its answer.                  *)
LEMMA EndRecords ==
  /\ \A e \in CreateEnds : /\ [NoCreate EXCEPT !.pc = e] \in CreateRecord
                           /\ CreateKnows([NoCreate EXCEPT !.pc = e])
  /\ \A e \in CastEnds : /\ [NoCast EXCEPT !.pc = e] \in CastRecord
                         /\ CastKnows([NoCast EXCEPT !.pc = e])
  /\ \A e \in CloseEnds : /\ [NoClose EXCEPT !.pc = e] \in CloseRecord
                          /\ CloseKnows([NoClose EXCEPT !.pc = e])
<1>1. \A e \in CreateEnds : /\ [NoCreate EXCEPT !.pc = e] \in CreateRecord
                            /\ CreateKnows([NoCreate EXCEPT !.pc = e])
  BY DEF CreateEnds, Contents, NoCreate, CreateRecord, CreateKnows, CreateSteps
<1>2. \A e \in CastEnds : /\ [NoCast EXCEPT !.pc = e] \in CastRecord
                          /\ CastKnows([NoCast EXCEPT !.pc = e])
  BY DEF CastEnds, NoCast, CastRecord, CastKnows, CastSteps
<1>3. \A e \in CloseEnds : /\ [NoClose EXCEPT !.pc = e] \in CloseRecord
                           /\ CloseKnows([NoClose EXCEPT !.pc = e])
  BY DEF CloseEnds, NoClose, CloseRecord, CloseKnows, CloseSteps
<1> QED
  BY <1>1, <1>2, <1>3

(* What refuses a vote is an answer, and not that it was created or lost.  *)
LEMMA RefusalsAreAnswers ==
  \A q : VoteRefusal(q) \in CreateEnds \ {"Created", "Lost"}
BY DEF VoteRefusal, CreateEnds

(* Ending a request keeps the types.                                       *)
LEMMA EndTypeInv ==
  ASSUME TypeInv
  PROVE
    /\ \A r \in CreateReq, e \in CreateEnds :
         CreateEnd(r, e) /\ UNCHANGED <<env, store, cast, close>> => TypeInv'
    /\ \A r \in CastReq, e \in CastEnds :
         CastEnd(r, e) /\ UNCHANGED <<env, store, create, close>> => TypeInv'
    /\ \A r \in CloseReq, e \in CloseEnds :
         CloseEnd(r, e) /\ UNCHANGED <<env, store, create, cast>> => TypeInv'
<1>1. ASSUME NEW r \in CreateReq, NEW e \in CreateEnds, CreateEnd(r, e),
             UNCHANGED <<env, store, cast, close>>
      PROVE  TypeInv'
  BY <1>1, EndRecords, CreateFrame DEF CreateEnd
<1>2. ASSUME NEW r \in CastReq, NEW e \in CastEnds, CastEnd(r, e),
             UNCHANGED <<env, store, create, close>>
      PROVE  TypeInv'
  BY <1>2, EndRecords, CastFrame DEF CastEnd, TypeInv, TypeOK, store
<1>3. ASSUME NEW r \in CloseReq, NEW e \in CloseEnds, CloseEnd(r, e),
             UNCHANGED <<env, store, create, cast>>
      PROVE  TypeInv'
  BY <1>3, EndRecords, CloseFrame DEF CloseEnd
<1> QED
  BY <1>1, <1>2, <1>3

(* Create requests keep the types.                                         *)
LEMMA CreateTypeInv ==
  ASSUME TypeInv, NEW r \in CreateReq, CreateProgress(r) \/ CreateLost(r)
  PROVE  TypeInv'
<1>q. create[r] \in CreateRecord /\ CreateKnows(create[r])
  BY DEF TypeInv, TypeOK
<1>e. \A e \in CreateEnds :
        CreateEnd(r, e) /\ UNCHANGED <<env, store, cast, close>> => TypeInv'
  BY EndTypeInv
<1>1. CASE CreateGetAccount(r)
  <2> DEFINE o == link[create[r].account]
  <2>1. CASE o = None
    BY <1>1, <1>e, <2>1 DEF CreateGetAccount, CreateEnds
  <2>2. CASE o # None
    <3> DEFINE q == [create[r] EXCEPT !.pc = "getCommunity", !.owner = o]
    <3>1. create' = [create EXCEPT ![r] = q] /\ UNCHANGED <<env, store, cast, close>>
      BY <1>1, <2>2 DEF CreateGetAccount
    <3>2. o \in Owner \cup {None}
      BY <1>1, <1>q DEF CreateGetAccount, CreateKnows, CreateSteps, TypeInv, TypeOK
    <3>3. q \in CreateRecord /\ CreateKnows(q)
      BY <1>1, <1>q, <3>2 DEF CreateGetAccount, CreateRecord, CreateKnows, CreateSteps
    <3> QED
      BY <3>1, <3>3, CreateFrame
  <2> QED
    BY <2>1, <2>2
<1>2. CASE CreateGetCommunity(r)
  <2>1. CASE CreateGo(r, "getCommunity", "save") /\ create[r].community # None
    <3> DEFINE q == [create[r] EXCEPT !.pc = "save"]
    <3>1. create' = [create EXCEPT ![r] = q] /\ UNCHANGED <<env, store, cast, close>>
      BY <1>2, <2>1 DEF CreateGetCommunity, CreateGo
    <3>2. q \in CreateRecord /\ CreateKnows(q)
      BY <1>2, <1>q, <2>1 DEF CreateGetCommunity, CreateRecord, CreateKnows, CreateSteps
    <3> QED
      BY <3>1, <3>2, CreateFrame
  <2>2. CASE \E e \in CreateEnds : CreateEnd(r, e)
    BY <1>2, <1>e, <2>2 DEF CreateGetCommunity
  <2> QED
    BY <1>2, <2>1, <2>2, RefusalsAreAnswers DEF CreateGetCommunity, CreateEnds
<1>3. CASE CreateSave(r)
  <2> DEFINE q == [create[r] EXCEPT !.pc = "commit"]
  <2>1. create' = [create EXCEPT ![r] = q] /\ UNCHANGED <<env, store, cast, close>>
    BY <1>3 DEF CreateSave, CreateGo
  <2>2. q \in CreateRecord /\ CreateKnows(q)
    BY <1>3, <1>q DEF CreateSave, CreateGo, CreateRecord, CreateKnows, CreateSteps
  <2> QED
    BY <2>1, <2>2, CreateFrame
<1>4. CASE CreateCommit(r)
  <2> DEFINE q == [create[r] EXCEPT !.pc = "committed"]
             row == [community |-> create[r].community, endDate |-> create[r].endDate,
                     result |-> None, version |-> 1]
  <2>1. /\ create' = [create EXCEPT ![r] = q]
        /\ votes' = [votes EXCEPT ![r] = row]
        /\ UNCHANGED <<clock, link, owns, ballots, cast, close>>
    BY <1>4 DEF CreateCommit, CreateGo, env
  <2>2. q \in CreateRecord /\ CreateKnows(q)
    BY <1>4, <1>q DEF CreateCommit, CreateGo, CreateRecord, CreateKnows, CreateSteps
  <2>3. row \in VoteRow /\ row # None
    BY <1>4, <1>q, NoneAssumption
       DEF CreateCommit, CreateGo, CreateRecord, CreateKnows, VoteRow
  <2>4. TypeOK'
    BY <2>1, <2>2, <2>3 DEF TypeInv, TypeOK
  <2>5. \A x \in CreateReq : CreateKnows(create'[x])
    BY <2>1, <2>2 DEF TypeInv, TypeOK
  <2>6. \A v \in CreateReq : votes[v] # None => votes'[v] # None
    BY <2>1, <2>3 DEF TypeInv, TypeOK
  <2>7. \A x \in CloseReq : CloseKnows(close[x])'
    BY <2>1, <2>6 DEF TypeInv, CloseKnows, CloseSteps
  <2> QED
    BY <2>1, <2>4, <2>5, <2>7 DEF TypeInv, CreateKnows, CastKnows, env
<1>5. CASE CreateRespond(r)
  BY <1>5, <1>e DEF CreateRespond, CreateEnds
<1>6. CASE CreateLost(r)
  BY <1>6, <1>e DEF CreateLost, CreateEnds
<1> QED
  BY <1>1, <1>2, <1>3, <1>4, <1>5, <1>6 DEF CreateProgress

(* Casts keep the types.                                                   *)
LEMMA CastTypeInv ==
  ASSUME TypeInv, NEW r \in CastReq, CastProgress(r) \/ CastLost(r)
  PROVE  TypeInv'
<1>q. cast[r] \in CastRecord /\ CastKnows(cast[r])
  BY DEF TypeInv, TypeOK
<1>e. \A e \in CastEnds :
        CastEnd(r, e) /\ UNCHANGED <<env, store, create, close>> => TypeInv'
  BY EndTypeInv
<1>s. ASSUME NEW q \in CastRecord, CastKnows(q), cast' = [cast EXCEPT ![r] = q],
             UNCHANGED <<env, store, create, close>>
      PROVE  TypeInv'
  BY <1>s, CastFrame DEF TypeInv, TypeOK, store
<1>1. CASE CastGetVote(r)
  <2>1. CASE CastGo(r, "getVote", "getAccount")
    <3> DEFINE q == [cast[r] EXCEPT !.pc = "getAccount"]
    <3>1. cast' = [cast EXCEPT ![r] = q] /\ UNCHANGED <<env, store, create, close>>
      BY <1>1, <2>1 DEF CastGetVote, CastGo
    <3>2. q \in CastRecord /\ CastKnows(q)
      BY <1>q, <2>1 DEF CastGo, CastRecord, CastKnows, CastSteps
    <3> QED
      BY <3>1, <3>2, <1>s
  <2>2. CASE \E e \in CastEnds : CastEnd(r, e)
    BY <1>1, <1>e, <2>2 DEF CastGetVote
  <2> QED
    BY <1>1, <2>1, <2>2 DEF CastGetVote, CastEnds
<1>2. CASE CastGetAccount(r)
  <2> DEFINE o == link[cast[r].account]
  <2>1. CASE o # None /\ OptionBelongs(r)
    <3> DEFINE q == [cast[r] EXCEPT !.pc = "getCommunity", !.owner = o]
    <3>0. cast[r].pc = "getAccount" /\ UNCHANGED <<env, store, create, close>>
      BY <1>2 DEF CastGetAccount
    <3>1. cast' = [cast EXCEPT ![r] = q] \/ \E e \in CastEnds : CastEnd(r, e)
      BY <1>2, <2>1 DEF CastGetAccount, CastEnds
    <3>2. o \in Owner \cup {None}
      BY <1>q, <3>0 DEF CastKnows, CastSteps, TypeInv, TypeOK
    <3>3. q \in CastRecord /\ CastKnows(q)
      BY <1>q, <2>1, <3>0, <3>2 DEF OptionBelongs, CastRecord, CastKnows, CastSteps
    <3> QED
      BY <3>0, <3>1, <3>3, <1>s, <1>e
  <2>2. CASE ~(o # None /\ OptionBelongs(r))
    BY <1>2, <1>e, <2>2 DEF CastGetAccount, CastEnds
  <2> QED
    BY <2>1, <2>2
<1>3. CASE CastGetCommunity(r)
  <2>1. CASE CastGo(r, "getCommunity", "getActive")
    <3> DEFINE q == [cast[r] EXCEPT !.pc = "getActive"]
    <3>1. cast' = [cast EXCEPT ![r] = q] /\ UNCHANGED <<env, store, create, close>>
      BY <1>3, <2>1 DEF CastGetCommunity, CastGo
    <3>2. q \in CastRecord /\ CastKnows(q)
      BY <1>q, <2>1 DEF CastGo, CastRecord, CastKnows, CastSteps
    <3> QED
      BY <3>1, <3>2, <1>s
  <2>2. CASE \E e \in CastEnds : CastEnd(r, e)
    BY <1>3, <1>e, <2>2 DEF CastGetCommunity
  <2> QED
    BY <1>3, <2>1, <2>2 DEF CastGetCommunity, CastEnds
<1>4. CASE CastGetActive(r)
  <2>0. cast[r].pc = "getActive" /\ UNCHANGED <<env, store, create, close>>
    BY <1>4 DEF CastGetActive
  <2>1. CASE CastGo(r, "getActive", "saveNew")
    <3> DEFINE q == [cast[r] EXCEPT !.pc = "saveNew"]
    <3>1. cast' = [cast EXCEPT ![r] = q]
      BY <2>1 DEF CastGo
    <3>2. q \in CastRecord /\ CastKnows(q)
      BY <1>q, <2>0 DEF CastRecord, CastKnows, CastSteps
    <3> QED
      BY <2>0, <3>1, <3>2, <1>s
  <2>2. CASE CastEnd(r, "VotedByAnotherOwner")
    BY <2>0, <1>e, <2>2 DEF CastEnds
  <2>3. CASE \E b \in Stored :
               cast' = [cast EXCEPT ![r].pc = "saveExisting", ![r].existing = b]
    <3>1. PICK b \in Stored :
            cast' = [cast EXCEPT ![r].pc = "saveExisting", ![r].existing = b]
      BY <2>3
    <3> DEFINE q == [cast[r] EXCEPT !.pc = "saveExisting", !.existing = b]
    <3>2. cast' = [cast EXCEPT ![r] = q]
      BY <3>1
    <3>3. q \in CastRecord /\ CastKnows(q)
      BY <1>q, <2>0 DEF CastRecord, CastKnows, CastSteps, Stored
    <3> QED
      BY <2>0, <3>2, <3>3, <1>s
  <2> QED
    BY <1>4, <2>1, <2>2, <2>3 DEF CastGetActive, Active
<1>5. CASE CastSaveExisting(r)
  <2> DEFINE q == [cast[r] EXCEPT !.pc = "saveNew"]
  <2>1. cast' = [cast EXCEPT ![r] = q] /\ UNCHANGED <<env, store, create, close>>
    BY <1>5 DEF CastSaveExisting, CastGo
  <2>2. q \in CastRecord /\ CastKnows(q)
    BY <1>q, <1>5 DEF CastSaveExisting, CastGo, CastRecord, CastKnows, CastSteps
  <2> QED
    BY <2>1, <2>2, <1>s
<1>6. CASE CastSaveNew(r)
  <2> DEFINE q == [cast[r] EXCEPT !.pc = "commit"]
  <2>1. /\ cast' = [cast EXCEPT ![r] = q] \/ CastEnd(r, "ConcurrentBallot")
        /\ UNCHANGED <<env, store, create, close>>
    BY <1>6 DEF CastSaveNew, CastGo
  <2>2. q \in CastRecord /\ CastKnows(q)
    BY <1>q, <1>6 DEF CastSaveNew, CastRecord, CastKnows, CastSteps
  <2> QED
    BY <2>1, <2>2, <1>s, <1>e DEF CastEnds
<1>7. CASE CastCommit(r)
  <2> DEFINE q == [cast[r] EXCEPT !.pc = "committed"]
  <2>1. /\ cast[r].pc = "commit"
        /\ cast' = [cast EXCEPT ![r] = q]
        /\ UNCHANGED <<env, votes, create, close>>
    BY <1>7 DEF CastCommit, CastGo
  <2>2. q \in CastRecord /\ CastKnows(q)
    BY <1>q, <2>1 DEF CastRecord, CastKnows, CastSteps
  <2>3. NewBallot(r) \in BallotRow
    BY <1>q, <2>1 DEF NewBallot, BallotRow, CastRecord, CastKnows, CastSteps
  <2>4. ASSUME NEW b \in CastReq, ballots[b] \in BallotRow
        PROVE  [ballots[b] EXCEPT !.supersededBy = r] \in BallotRow
    BY <2>4 DEF BallotRow
  <2>5. ballots' \in [CastReq -> BallotRow \cup {None}]
    <3>1. ASSUME NEW b \in CastReq, b = cast[r].existing
          PROVE  [ballots[b] EXCEPT !.supersededBy = r] \in BallotRow
      <4>1. ballots[b] # None
        BY <1>q, <3>1, NoneAssumption DEF CastKnows
      <4> QED
        BY <2>4, <4>1 DEF TypeInv, TypeOK
    <3>2. ASSUME NEW b \in CastReq
          PROVE  (IF b = r THEN NewBallot(r)
                  ELSE IF b = cast[r].existing
                  THEN [ballots[b] EXCEPT !.supersededBy = r]
                  ELSE ballots[b]) \in BallotRow \cup {None}
      BY <2>3, <3>1, <3>2 DEF TypeInv, TypeOK
    <3> QED
      BY <1>7, <3>2 DEF CastCommit
  <2>6. \A b \in CastReq : ballots[b] # None => ballots'[b] # None
    BY <1>7, <2>3, <2>4, NoneAssumption DEF CastCommit, TypeInv, TypeOK
  <2> QED
    BY <2>1, <2>2, <2>5, <2>6, CastFrame
<1>8. CASE CastRespond(r)
  BY <1>8, <1>e DEF CastRespond, CastEnds
<1>9. CASE CastLost(r)
  BY <1>9, <1>e DEF CastLost, CastEnds
<1> QED
  BY <1>1, <1>2, <1>3, <1>4, <1>5, <1>6, <1>7, <1>8, <1>9 DEF CastProgress

(* Closes keep the types.                                                  *)
LEMMA CloseTypeInv ==
  ASSUME TypeInv, NEW r \in CloseReq, CloseProgress(r) \/ CloseLost(r)
  PROVE  TypeInv'
<1>q. close[r] \in CloseRecord /\ CloseKnows(close[r])
  BY DEF TypeInv, TypeOK
<1>e. \A e \in CloseEnds :
        CloseEnd(r, e) /\ UNCHANGED <<env, store, create, cast>> => TypeInv'
  BY EndTypeInv
<1>1. CASE CloseGetVote(r)
  <2> DEFINE row == votes[close[r].vote]
             q == [close[r] EXCEPT !.pc = "getAccount", !.version = row.version]
  <2>1. close[r].pc = "getVote" /\ UNCHANGED <<env, store, create, cast>>
    BY <1>1 DEF CloseGetVote
  <2>2. \/ row # None /\ close' = [close EXCEPT ![r] = q]
        \/ \E e \in CloseEnds : CloseEnd(r, e)
    BY <1>1 DEF CloseGetVote, CloseEnds
  <2>3. row # None => row.version \in Nat
    BY <1>q, <2>1 DEF CloseKnows, CloseSteps, TypeInv, TypeOK, VoteRow
  <2>4. row # None => q \in CloseRecord /\ CloseKnows(q)
    BY <1>q, <2>1, <2>3 DEF CloseRecord, CloseKnows, CloseSteps
  <2> QED
    BY <2>1, <2>2, <2>4, <1>e, CloseFrame
<1>2. CASE CloseGetAccount(r)
  <2> DEFINE o == link[close[r].account]
             q == [close[r] EXCEPT !.pc = "getCommunity", !.owner = o]
  <2>1. close[r].pc = "getAccount" /\ UNCHANGED <<env, store, create, cast>>
    BY <1>2 DEF CloseGetAccount
  <2>2. close' = [close EXCEPT ![r] = q] \/ \E e \in CloseEnds : CloseEnd(r, e)
    BY <1>2 DEF CloseGetAccount, CloseEnds
  <2>3. o \in Owner \cup {None}
    BY <1>q, <2>1 DEF CloseKnows, CloseSteps, TypeInv, TypeOK
  <2>4. q \in CloseRecord /\ CloseKnows(q)
    BY <1>q, <2>1, <2>3 DEF CloseRecord, CloseKnows, CloseSteps
  <2> QED
    BY <2>1, <2>2, <2>4, <1>e, CloseFrame
<1>3. CASE CloseGetCommunity(r)
  <2> DEFINE q == [close[r] EXCEPT !.pc = "getBallots"]
  <2>1. close[r].pc = "getCommunity" /\ UNCHANGED <<env, store, create, cast>>
    BY <1>3 DEF CloseGetCommunity
  <2>2. close' = [close EXCEPT ![r] = q] \/ CloseEnd(r, "NotAuthorized")
    BY <1>3 DEF CloseGetCommunity, CloseGo
  <2>3. q \in CloseRecord /\ CloseKnows(q)
    BY <1>q, <2>1 DEF CloseRecord, CloseKnows, CloseSteps
  <2> QED
    BY <2>1, <2>2, <2>3, <1>e, CloseFrame DEF CloseEnds
<1>4. CASE CloseGetBallots(r)
  <2> DEFINE q == [close[r] EXCEPT !.pc = "save", !.counted = AllActiveFor(close[r].vote)]
  <2>1. close[r].pc = "getBallots" /\ UNCHANGED <<env, store, create, cast>>
    BY <1>4 DEF CloseGetBallots
  <2>2. close' = [close EXCEPT ![r] = q] \/ CloseEnd(r, "InternalError")
    BY <1>4 DEF CloseGetBallots
  <2>3. q \in CloseRecord /\ CloseKnows(q)
    BY <1>q, <2>1
       DEF CloseRecord, CloseKnows, CloseSteps, AllActiveFor, Active, Stored
  <2> QED
    BY <2>1, <2>2, <2>3, <1>e, CloseFrame DEF CloseEnds
<1>5. CASE CloseSave(r)
  <2> DEFINE q == [close[r] EXCEPT !.pc = "commit"]
  <2>1. close[r].pc = "save" /\ UNCHANGED <<env, store, create, cast>>
    BY <1>5 DEF CloseSave
  <2>2. close' = [close EXCEPT ![r] = q] \/ CloseEnd(r, "ConcurrentModification")
    BY <1>5 DEF CloseSave, CloseGo
  <2>3. q \in CloseRecord /\ CloseKnows(q)
    BY <1>q, <2>1 DEF CloseRecord, CloseKnows, CloseSteps
  <2> QED
    BY <2>1, <2>2, <2>3, <1>e, CloseFrame DEF CloseEnds
<1>6. CASE CloseCommit(r)
  <2> DEFINE v == close[r].vote
             q == [close[r] EXCEPT !.pc = "committed"]
             row == [votes[v] EXCEPT !.result = ResultOf(r), !.version = close[r].version + 1]
  <2>1. close[r].pc = "commit" /\ UNCHANGED <<env, ballots, create, cast>>
    BY <1>6 DEF CloseCommit, CloseGo
  <2>2. close' = [close EXCEPT ![r] = q] /\ votes' = [votes EXCEPT ![v] = row]
    BY <1>6 DEF CloseCommit, CloseGo
  <2>3. q \in CloseRecord /\ CloseKnows(q)
    BY <1>q, <2>1 DEF CloseRecord, CloseKnows, CloseSteps
  <2>4. v \in CreateReq /\ votes[v] \in VoteRow
    BY <1>q, <2>1 DEF CloseKnows, CloseSteps, TypeInv, TypeOK
  <2>5. ResultOf(r) \in Result /\ close[r].version + 1 \in Nat
    BY <1>q DEF ResultOf, Result, CloseRecord
  <2>6. row \in VoteRow
    BY <2>4, <2>5 DEF VoteRow
  <2>7. TypeOK'
    BY <2>1, <2>2, <2>3, <2>4, <2>6 DEF TypeInv, TypeOK, env
  <2>8. \A x \in CreateReq : votes[x] # None => votes'[x] # None
    BY <2>2, <2>4, <2>6, NoneAssumption DEF TypeInv, TypeOK
  <2>9. \A x \in CloseReq : CloseKnows(close'[x])
    BY <2>2, <2>3 DEF TypeInv, TypeOK
  <2>10. \A x \in CloseReq : CloseKnows(close[x])'
    BY <2>8, <2>9 DEF CloseKnows, CloseSteps
  <2> QED
    BY <2>1, <2>7, <2>10 DEF TypeInv, CastKnows, env
<1>7. CASE CloseRespond(r)
  <2> DEFINE q == [close[r] EXCEPT !.pc = "Closed"]
  <2>1. close[r].pc = "committed" /\ UNCHANGED <<env, store, create, cast>>
    BY <1>7 DEF CloseRespond, CloseGo
  <2>2. close' = [close EXCEPT ![r] = q]
    BY <1>7 DEF CloseRespond, CloseGo
  <2>3. q \in CloseRecord /\ CloseKnows(q)
    BY <1>q, <2>1 DEF CloseRecord, CloseKnows, CloseSteps, CloseEnds
  <2> QED
    BY <2>1, <2>2, <2>3, CloseFrame
<1>8. CASE CloseLost(r)
  BY <1>8, <1>e DEF CloseLost, CloseEnds
<1> QED
  BY <1>1, <1>2, <1>3, <1>4, <1>5, <1>6, <1>7, <1>8 DEF CloseProgress

(* Arrivals and the surroundings keep the types.                           *)
LEMMA OutsideTypeInv ==
  ASSUME TypeInv, Surroundings \/ Arrivals
  PROVE  TypeInv'
<1>1. CASE Tick
  BY <1>1, TimeAssumption
     DEF Tick, TypeInv, TypeOK, CreateKnows, CastKnows, CloseKnows, store
<1>2. ASSUME NEW a \in Account, NEW o \in Owner, LinkOwner(a, o) PROVE TypeInv'
  BY <1>2 DEF LinkOwner, TypeInv, TypeOK, CreateKnows, CastKnows, CloseKnows, store
<1>3. ASSUME NEW o \in Owner, NEW u \in Unit, AssignOwner(o, u) PROVE TypeInv'
  BY <1>3 DEF AssignOwner, TypeInv, TypeOK, CreateKnows, CastKnows, CloseKnows, store
<1>4. ASSUME NEW r \in CreateReq, NEW a \in Account, NEW c \in Community \cup {None},
             NEW end \in 0..MaxTime, NEW content \in Contents,
             CreateArrive(r, a, c, end, content)
      PROVE  TypeInv'
  <2> DEFINE q == [pc |-> "getAccount", account |-> a, community |-> c, endDate |-> end,
                   content |-> content, now |-> clock, owner |-> None]
  <2>1. create' = [create EXCEPT ![r] = q] /\ UNCHANGED <<env, store, cast, close>>
    BY <1>4 DEF CreateArrive
  <2>2. q \in CreateRecord /\ CreateKnows(q)
    BY <1>4, TimeAssumption DEF TypeInv, TypeOK, CreateRecord, CreateKnows, CreateSteps
  <2> QED
    BY <2>1, <2>2, CreateFrame
<1>5. ASSUME NEW r \in CastReq, NEW a \in Account, NEW v \in CreateReq, NEW u \in Unit,
             NEW op \in Option \cup {None}, CastArrive(r, a, v, u, op)
      PROVE  TypeInv'
  <2> DEFINE q == [pc |-> "getVote", account |-> a, vote |-> v, unit |-> u, option |-> op,
                   now |-> clock, owner |-> None, existing |-> None]
  <2>1. cast' = [cast EXCEPT ![r] = q] /\ UNCHANGED <<env, store, create, close>>
    BY <1>5 DEF CastArrive
  <2>2. q \in CastRecord /\ CastKnows(q)
    BY DEF TypeInv, TypeOK, CastRecord, CastKnows, CastSteps
  <2> QED
    BY <2>1, <2>2, CastFrame DEF TypeInv, TypeOK, store
<1>6. ASSUME NEW r \in CloseReq, NEW a \in Account, NEW v \in CreateReq, CloseArrive(r, a, v)
      PROVE  TypeInv'
  <2> DEFINE q == [pc |-> "getVote", account |-> a, vote |-> v, now |-> clock,
                   owner |-> None, version |-> 0, counted |-> {}, seen |-> Stored]
  <2>1. close' = [close EXCEPT ![r] = q] /\ UNCHANGED <<env, store, create, cast>>
    BY <1>6 DEF CloseArrive
  <2>2. q \in CloseRecord /\ CloseKnows(q)
    BY DEF TypeInv, TypeOK, CloseRecord, CloseKnows, CloseSteps, Stored
  <2> QED
    BY <2>1, <2>2, CloseFrame
<1> QED
  BY <1>1, <1>2, <1>3, <1>4, <1>5, <1>6 DEF Surroundings, Arrivals

(* Typing: rows and requests always have their types, and a request past a *)
(* step knows what that step read, so that no handler fails on a missing   *)
(* row, account, unit or option.                                           *)
THEOREM Typing == Spec => [](TypeOK /\ TypeInv)
<1>1. ASSUME TypeInv, [Next]_vars PROVE TypeInv'
  <2>1. CASE Next
    BY <1>1, <2>1, OutsideTypeInv, CreateTypeInv, CastTypeInv, CloseTypeInv
       DEF Next, Losses, Progress
  <2>2. CASE UNCHANGED vars
    BY <1>1, <2>2
       DEF vars, TypeInv, TypeOK, CreateKnows, CastKnows, CloseKnows
  <2> QED
    BY <1>1, <2>1, <2>2
<1>2. TypeInv => TypeOK
  BY DEF TypeInv
<1> QED
  BY InitTypeInv, <1>1, <1>2, PTL DEF Spec

-----------------------------------------------------------------------------
(* The ballots of a unit *)

(* The ballot of a request is stored exactly when it has committed; a lost *)
(* request may have stored it or not.                                      *)
Phase(r, q) ==
  /\ q.pc \notin {"committed", "Created", "Lost"} => ballots[r] = None
  /\ q.pc \in {"committed", "Created"} => ballots[r] # None

(* The ballot to supersede is one of the same vote, unit and owner.        *)
Fits(q) ==
  /\ q.pc \in {"getVote", "getAccount", "getCommunity", "getActive"} => q.existing = None
  /\ q.pc = "saveExisting" => q.existing # None
  /\ q.existing # None =>
       SamePair(q.existing, q.vote, q.unit) /\ ballots[q.existing].owner = q.owner

(* A cast about to commit supersedes the only active ballot of its unit.   *)
Pending(q) ==
  q.pc = "commit" =>
    /\ q.existing # None => q.existing \in Active
    /\ \A b \in Active : SamePair(b, q.vote, q.unit) => b = q.existing

(* Two casts hold neither the same row nor the same index entry.           *)
Apart(p, q) ==
  /\ p.pc \in {"saveNew", "commit"} /\ q.pc \in {"saveNew", "commit"}
       => p.existing = None \/ p.existing # q.existing
  /\ p.pc = "commit" /\ q.pc = "commit" => p.vote # q.vote \/ p.unit # q.unit

RequestsInv ==
  /\ \A r \in CastReq : Phase(r, cast[r]) /\ Fits(cast[r]) /\ Pending(cast[r])
  /\ \A r, s \in CastReq : r # s => Apart(cast[r], cast[s])

HistoryInv ==
  RequestsInv /\ AtMostOneActive /\ VotedUnitsKeepABallot /\ HistoryIsOneLine

(* Nothing is stored at the start.                                         *)
LEMMA InitHistoryInv == Init => HistoryInv
BY NoneAssumption
   DEF Init, HistoryInv, RequestsInv, AtMostOneActive, VotedUnitsKeepABallot,
       HistoryIsOneLine, Phase, Fits, Pending, Apart, Active, Stored, NoCast

(* Steps that change neither casts nor ballots.                            *)
LEMMA HistoryFrame ==
  ASSUME HistoryInv, UNCHANGED <<cast, ballots>>
  PROVE  HistoryInv'
BY DEF HistoryInv, RequestsInv, AtMostOneActive, VotedUnitsKeepABallot,
       HistoryIsOneLine, Phase, Fits, Pending, Apart, Active, Stored, SamePair

(* A step of one cast that writes no ballot.                               *)
LEMMA RequestFrame ==
  ASSUME TypeInv, HistoryInv, NEW r \in CastReq, NEW q,
         cast' = [cast EXCEPT ![r] = q], UNCHANGED ballots,
         Phase(r, q), Fits(q), Pending(q),
         \A s \in CastReq \ {r} : Apart(q, cast[s]) /\ Apart(cast[s], q)
  PROVE  HistoryInv'
<1>1. \A s \in CastReq : cast'[s] = IF s = r THEN q ELSE cast[s]
  BY DEF TypeInv, TypeOK
<1>2. \A s \in CastReq : Phase(s, cast'[s]) /\ Fits(cast'[s]) /\ Pending(cast'[s])
  BY <1>1 DEF HistoryInv, RequestsInv
<1>3. \A s \in CastReq : Phase(s, cast[s])' /\ Fits(cast[s])' /\ Pending(cast[s])'
  BY <1>2 DEF Phase, Fits, Pending, Active, Stored, SamePair
<1>4. \A s, t \in CastReq : s # t => Apart(cast'[s], cast'[t])
  BY <1>1 DEF HistoryInv, RequestsInv
<1>5. \A s, t \in CastReq : s # t => Apart(cast[s], cast[t])'
  BY <1>4 DEF Apart
<1>6. AtMostOneActive' /\ VotedUnitsKeepABallot' /\ HistoryIsOneLine'
  BY DEF HistoryInv, AtMostOneActive, VotedUnitsKeepABallot, HistoryIsOneLine,
         Active, Stored, SamePair
<1> QED
  BY <1>3, <1>5, <1>6 DEF HistoryInv, RequestsInv

(* Ending a cast releases what it holds.                                   *)
LEMMA EndHistoryInv ==
  ASSUME TypeInv, HistoryInv, NEW r \in CastReq, NEW e \in CastEnds,
         CastEnd(r, e), UNCHANGED ballots,
         e = "Created" => cast[r].pc = "committed",
         e \notin {"Created", "Lost"} => cast[r].pc \notin {"committed", "Created", "Lost"}
  PROVE  HistoryInv'
<1> DEFINE q == [NoCast EXCEPT !.pc = e]
<1>1. cast' = [cast EXCEPT ![r] = q]
  BY DEF CastEnd
<1>2. q.pc = e /\ q.existing = None
  BY DEF NoCast
<1>3. Phase(r, q)
  <2>1. Phase(r, cast[r])
    BY DEF HistoryInv, RequestsInv
  <2> HIDE DEF q
  <2> QED
    BY <1>2, <2>1 DEF Phase, CastEnds
<1>4. e \notin {"saveExisting", "saveNew", "commit"}
  BY DEF CastEnds
<1>5. Fits(q) /\ Pending(q) /\ \A s \in CastReq : Apart(q, cast[s]) /\ Apart(cast[s], q)
  BY <1>2, <1>4 DEF Fits, Pending, Apart
<1> HIDE DEF q
<1> QED
  BY <1>1, <1>3, <1>5, RequestFrame

(* A cast moves on without holding anything yet.                           *)
LEMMA MoveHistoryInv ==
  ASSUME TypeInv, HistoryInv, NEW r \in CastReq, NEW q,
         cast' = [cast EXCEPT ![r] = q], UNCHANGED ballots, Fits(q),
         cast[r].pc \notin {"committed", "Created", "Lost"},
         q.pc \notin {"commit", "committed", "Created"},
         q.pc = "saveNew" => q.existing = None
  PROVE  HistoryInv'
<1>1. Phase(r, q)
  BY DEF Phase, HistoryInv, RequestsInv
<1>2. Pending(q) /\ \A s \in CastReq : Apart(q, cast[s]) /\ Apart(cast[s], q)
  BY DEF Pending, Apart
<1> QED
  BY <1>1, <1>2, RequestFrame

(* The reads of a cast keep the invariant; the one that matters is that of *)
(* the active ballot.                                                      *)
LEMMA ReadsHistoryInv ==
  ASSUME TypeInv, HistoryInv, NEW r \in CastReq,
         CastGetVote(r) \/ CastGetAccount(r) \/ CastGetCommunity(r) \/ CastGetActive(r)
  PROVE  HistoryInv'
<1>q. cast[r] \in CastRecord /\ Fits(cast[r])
  BY DEF TypeInv, TypeOK, HistoryInv, RequestsInv
<1>0. /\ UNCHANGED ballots
      /\ cast[r].pc \in {"getVote", "getAccount", "getCommunity", "getActive"}
  BY DEF CastGetVote, CastGetAccount, CastGetCommunity, CastGetActive, store
<1>1. cast[r].existing = None
  BY <1>q, <1>0 DEF Fits
<1>e. ASSUME NEW e \in CastEnds \ {"Created"}, CastEnd(r, e) PROVE HistoryInv'
  BY <1>e, <1>0, EndHistoryInv
<1>2. ASSUME NEW to \in {"getAccount", "getActive", "saveNew"}, NEW from, CastGo(r, from, to)
      PROVE  HistoryInv'
  <2> DEFINE q == [cast[r] EXCEPT !.pc = to]
  <2>1. cast' = [cast EXCEPT ![r] = q]
    BY <1>2 DEF CastGo
  <2>2. q.pc = to /\ q.existing = None
    BY <1>q, <1>1 DEF CastRecord
  <2>3. Fits(q)
    BY <2>2 DEF Fits
  <2> HIDE DEF q
  <2> QED
    BY <1>0, <2>1, <2>2, <2>3, MoveHistoryInv
<1>3. CASE CastGetVote(r)
  BY <1>3, <1>e, <1>2 DEF CastGetVote, CastEnds
<1>4. CASE CastGetAccount(r)
  <2> DEFINE q == [cast[r] EXCEPT !.pc = "getCommunity", !.owner = link[cast[r].account]]
  <2>1. cast' = [cast EXCEPT ![r] = q] \/ \E e \in CastEnds \ {"Created"} : CastEnd(r, e)
    BY <1>4 DEF CastGetAccount, CastEnds
  <2>2. q.pc = "getCommunity" /\ q.existing = None
    BY <1>q, <1>1 DEF CastRecord
  <2>3. Fits(q)
    BY <2>2 DEF Fits
  <2> HIDE DEF q
  <2> QED
    BY <1>0, <1>e, <2>1, <2>2, <2>3, MoveHistoryInv
<1>5. CASE CastGetCommunity(r)
  BY <1>5, <1>e, <1>2 DEF CastGetCommunity, CastEnds
<1>6. CASE CastGetActive(r)
  <2>1. CASE CastGo(r, "getActive", "saveNew") \/ CastEnd(r, "VotedByAnotherOwner")
    BY <1>e, <1>2, <2>1 DEF CastEnds
  <2>2. ASSUME NEW b \in Active, SamePair(b, cast[r].vote, cast[r].unit),
               ballots[b].owner = cast[r].owner,
               cast' = [cast EXCEPT ![r].pc = "saveExisting", ![r].existing = b]
        PROVE  HistoryInv'
    <3> DEFINE q == [cast[r] EXCEPT !.pc = "saveExisting", !.existing = b]
    <3>1. cast' = [cast EXCEPT ![r] = q]
      BY <2>2
    <3>2. /\ q.pc = "saveExisting" /\ q.existing = b
          /\ q.vote = cast[r].vote /\ q.unit = cast[r].unit /\ q.owner = cast[r].owner
      BY <1>q DEF CastRecord
    <3>3. b # None
      BY NoneAssumption DEF Active, Stored
    <3>4. Fits(q)
      BY <2>2, <3>2, <3>3 DEF Fits
    <3>5. q.pc \notin {"commit", "committed", "Created", "saveNew"}
      BY <3>2
    <3> HIDE DEF q
    <3> QED
      BY <1>0, <3>1, <3>4, <3>5, MoveHistoryInv
  <2> QED
    BY <1>6, <2>1, <2>2 DEF CastGetActive, AnotherOwnersBallot
<1> QED
  BY <1>3, <1>4, <1>5, <1>6

(* Taking the lock of the row to supersede.                                *)
LEMMA SaveExistingHistoryInv ==
  ASSUME TypeInv, HistoryInv, NEW r \in CastReq, CastSaveExisting(r)
  PROVE  HistoryInv'
<1> DEFINE q == [cast[r] EXCEPT !.pc = "saveNew"]
<1>1. cast[r] \in CastRecord /\ Fits(cast[r]) /\ Phase(r, cast[r])
  BY DEF TypeInv, TypeOK, HistoryInv, RequestsInv
<1>2. /\ cast[r].pc = "saveExisting" /\ cast' = [cast EXCEPT ![r] = q] /\ UNCHANGED ballots
      /\ \A s \in CastReq \ {r} : ~HoldsRow(s, cast[r].existing)
  BY DEF CastSaveExisting, CastGo, store
<1>3. /\ q.pc = "saveNew" /\ q.existing = cast[r].existing
      /\ q.vote = cast[r].vote /\ q.unit = cast[r].unit /\ q.owner = cast[r].owner
  BY <1>1 DEF CastRecord
<1> HIDE DEF q
<1>4. Phase(r, q) /\ Fits(q) /\ Pending(q)
  BY <1>1, <1>2, <1>3 DEF Phase, Fits, Pending
<1>5. \A s \in CastReq \ {r} : Apart(q, cast[s]) /\ Apart(cast[s], q)
  BY <1>2, <1>3 DEF Apart, HoldsRow
<1> QED
  BY <1>2, <1>4, <1>5, RequestFrame

(* Inserting the new ballot, once no other transaction holds an entry of   *)
(* its unit in doubt: the partial index leaves only the ballot that this   *)
(* transaction supersedes, and a ballot superseded meanwhile by another    *)
(* leaves an active one behind, on which the insert fails.                 *)
LEMMA SaveNewHistoryInv ==
  ASSUME TypeInv, HistoryInv, NEW r \in CastReq, CastSaveNew(r)
  PROVE  HistoryInv'
<1> DEFINE q == [cast[r] EXCEPT !.pc = "commit"]
<1>1. /\ cast[r] \in CastRecord /\ CastKnows(cast[r])
      /\ Fits(cast[r]) /\ Phase(r, cast[r])
  BY DEF TypeInv, TypeOK, HistoryInv, RequestsInv
<1>2. /\ cast[r].pc = "saveNew" /\ UNCHANGED ballots
      /\ \A s \in CastReq \ {r} : ~IndexInDoubt(s, r)
  BY DEF CastSaveNew, store
<1>3. CASE IndexConflict(r)
  BY <1>2, <1>3, EndHistoryInv DEF CastSaveNew, CastEnds
<1>4. CASE ~IndexConflict(r)
  <2>1. cast' = [cast EXCEPT ![r] = q]
    BY <1>4 DEF CastSaveNew, CastGo
  <2>2. /\ q.pc = "commit" /\ q.existing = cast[r].existing
        /\ q.vote = cast[r].vote /\ q.unit = cast[r].unit /\ q.owner = cast[r].owner
    BY <1>1 DEF CastRecord
  <2> HIDE DEF q
  <2>3. \A b \in Active : SamePair(b, q.vote, q.unit) => b = q.existing
    BY <1>4, <2>2 DEF IndexConflict, HoldsRow
  <2>4. q.existing # None => q.existing \in Active
    <3> SUFFICES ASSUME q.existing # None PROVE q.existing \in Active
      OBVIOUS
    <3>1. q.existing \in Stored /\ SamePair(q.existing, q.vote, q.unit)
      BY <1>1, <2>2 DEF Fits, CastKnows, CastRecord, Stored
    <3>2. PICK a \in Active : SamePair(a, q.vote, q.unit)
      BY <3>1 DEF HistoryInv, VotedUnitsKeepABallot, SamePair
    <3> QED
      BY <2>3, <3>2
  <2>5. Phase(r, q) /\ Fits(q) /\ Pending(q)
    BY <1>1, <1>2, <2>2, <2>3, <2>4 DEF Phase, Fits, Pending
  <2>6. ASSUME NEW s \in CastReq \ {r} PROVE Apart(q, cast[s]) /\ Apart(cast[s], q)
    <3>1. Apart(cast[r], cast[s]) /\ Apart(cast[s], cast[r])
      BY DEF HistoryInv, RequestsInv
    <3>2. ~IndexInDoubt(s, r)
      BY <1>2
    <3> QED
      BY <1>2, <2>2, <3>1, <3>2 DEF Apart, IndexInDoubt
  <2> QED
    BY <1>2, <2>1, <2>5, <2>6, RequestFrame
<1> QED
  BY <1>3, <1>4

(* The rows after a commit: r's ballot is new and active, the one it       *)
(* supersedes is not any more, and the others are as they were.            *)
LEMMA CommitRows ==
  ASSUME TypeInv, HistoryInv, NEW r \in CastReq, CastCommit(r)
  PROVE  /\ r \notin Stored
         /\ Stored' = Stored \cup {r}
         /\ Active' = (Active \ {cast[r].existing}) \cup {r}
         /\ ballots'[r] = NewBallot(r)
         /\ \A b \in Stored :
              /\ ballots'[b].vote = ballots[b].vote
              /\ ballots'[b].unit = ballots[b].unit
              /\ ballots'[b].owner = ballots[b].owner
              /\ ballots'[b].supersededBy =
                   IF b = cast[r].existing THEN r ELSE ballots[b].supersededBy
         /\ \A b \in CastReq \ {r, cast[r].existing} : ballots'[b] = ballots[b]
         /\ cast[r].existing # None =>
              ballots'[cast[r].existing] = [ballots[cast[r].existing] EXCEPT !.supersededBy = r]
<1> DEFINE e == cast[r].existing
<1>1. /\ cast[r] \in CastRecord /\ CastKnows(cast[r])
      /\ Pending(cast[r]) /\ Phase(r, cast[r]) /\ cast[r].pc = "commit"
  BY DEF TypeInv, TypeOK, HistoryInv, RequestsInv, CastCommit, CastGo
<1>2. ballots[r] = None
  BY <1>1 DEF Phase
<1>3. e \in CastReq \cup {None} /\ (e # None => e \in Stored /\ e \in Active /\ e # r)
  BY <1>1, <1>2 DEF CastRecord, Pending, Active, Stored
<1>4. \A b \in CastReq :
        ballots'[b] = IF b = r THEN NewBallot(r)
                      ELSE IF b = e THEN [ballots[b] EXCEPT !.supersededBy = r]
                      ELSE ballots[b]
  BY DEF CastCommit
<1>5. \A b \in Stored : b \in CastReq /\ ballots[b] \in BallotRow
  BY DEF Stored, TypeInv, TypeOK
<1>6. NewBallot(r) \in BallotRow /\ NewBallot(r).supersededBy = None
  BY <1>1 DEF NewBallot, BallotRow, CastRecord, CastKnows, CastSteps
<1> HIDE DEF e
<1>7. ASSUME NEW b \in Stored
      PROVE  /\ ballots'[b] \in BallotRow
             /\ ballots'[b].vote = ballots[b].vote
             /\ ballots'[b].unit = ballots[b].unit
             /\ ballots'[b].owner = ballots[b].owner
             /\ ballots'[b].supersededBy = IF b = e THEN r ELSE ballots[b].supersededBy
  <2>1. b # r
    BY <1>2 DEF Stored
  <2>2. CASE b = e
    BY <1>4, <1>5, <2>1, <2>2 DEF BallotRow
  <2>3. CASE b # e
    BY <1>4, <1>5, <2>1, <2>3
  <2> QED
    BY <2>2, <2>3
<1>8. r \notin Stored
  BY <1>2 DEF Stored
<1>9. Stored' = Stored \cup {r}
  <2>1. ASSUME NEW b \in CastReq PROVE b \in Stored' <=> b \in Stored \cup {r}
    <3>1. CASE b = r
      BY <1>4, <1>6, <3>1, NoneAssumption DEF Stored
    <3>2. CASE b \in Stored
      BY <1>7, <3>2, NoneAssumption DEF Stored
    <3>3. CASE b # r /\ b \notin Stored
      BY <1>3, <1>4, <3>3, NoneAssumption DEF Stored
    <3> QED
      BY <3>1, <3>2, <3>3
  <2> QED
    BY <2>1 DEF Stored
<1>10. Active' = (Active \ {e}) \cup {r}
  <2>1. ASSUME NEW b \in Stored' PROVE b \in Active' <=> b \in (Active \ {e}) \cup {r}
    <3>1. CASE b = r
      BY <1>4, <1>6, <2>1, <3>1 DEF Active
    <3>2. CASE b # r
      BY <1>7, <1>9, <2>1, <3>2, NoneAssumption DEF Active
    <3> QED
      BY <3>1, <3>2
  <2> QED
    BY <1>9, <2>1 DEF Active
<1> QED
  BY <1>3, <1>4, <1>7, <1>8, <1>9, <1>10 DEF e

(* Committing a cast keeps the invariant.                                  *)
LEMMA CommitHistoryInv ==
  ASSUME TypeInv, HistoryInv, NEW r \in CastReq, CastCommit(r)
  PROVE  HistoryInv'
<1> DEFINE e == cast[r].existing
           q == [cast[r] EXCEPT !.pc = "committed"]
<1>1. /\ cast[r] \in CastRecord /\ CastKnows(cast[r]) /\ Fits(cast[r])
      /\ Pending(cast[r]) /\ cast[r].pc = "commit"
  BY DEF TypeInv, TypeOK, HistoryInv, RequestsInv, CastCommit, CastGo
<1>2. /\ r \notin Stored /\ Stored' = Stored \cup {r}
      /\ Active' = (Active \ {e}) \cup {r}
      /\ ballots'[r] = NewBallot(r)
      /\ \A b \in Stored :
           /\ ballots'[b].vote = ballots[b].vote
           /\ ballots'[b].unit = ballots[b].unit
           /\ ballots'[b].owner = ballots[b].owner
           /\ ballots'[b].supersededBy = IF b = e THEN r ELSE ballots[b].supersededBy
      /\ \A b \in CastReq \ {r, e} : ballots'[b] = ballots[b]
  BY CommitRows
<1>3. /\ NewBallot(r).vote = cast[r].vote /\ NewBallot(r).unit = cast[r].unit
      /\ NewBallot(r).owner = cast[r].owner
  BY DEF NewBallot
<1>4. /\ e # None => /\ e \in Active /\ SamePair(e, cast[r].vote, cast[r].unit)
                     /\ ballots[e].owner = cast[r].owner
      /\ \A b \in Active : SamePair(b, cast[r].vote, cast[r].unit) => b = e
  BY <1>1 DEF Pending, Fits
<1>5. Active \subseteq Stored /\ Stored \subseteq CastReq /\ None \notin Stored
  BY NoneAssumption DEF Active, Stored
<1>6. cast' = [cast EXCEPT ![r] = q]
  BY DEF CastCommit, CastGo
<1>7. q.pc = "committed" /\ q.existing = e
      /\ q.vote = cast[r].vote /\ q.unit = cast[r].unit /\ q.owner = cast[r].owner
  BY <1>1 DEF CastRecord
<1>8. \A s \in CastReq : cast'[s] = IF s = r THEN q ELSE cast[s]
  BY <1>6 DEF TypeInv, TypeOK
<1>9. \A s \in CastReq : cast[s].existing # None => cast[s].existing \in Stored
  BY DEF TypeInv, TypeOK, CastKnows, CastRecord, Stored
<1> HIDE DEF e, q
<1>10. AtMostOneActive'
  <2>1. ASSUME NEW b1 \in Active', NEW b2 \in Active',
               ballots'[b1].vote = ballots'[b2].vote, ballots'[b1].unit = ballots'[b2].unit
        PROVE  b1 = b2
    <3>1. CASE b1 = r \/ b2 = r
      BY <1>2, <1>3, <1>4, <1>5, <2>1, <3>1 DEF SamePair
    <3>2. CASE b1 # r /\ b2 # r
      BY <1>2, <1>5, <2>1, <3>2 DEF HistoryInv, AtMostOneActive, SamePair
    <3> QED
      BY <3>1, <3>2
  <2> QED
    BY <2>1 DEF AtMostOneActive, SamePair
<1>11. VotedUnitsKeepABallot'
  <2>1. ASSUME NEW b \in Stored'
        PROVE  \E a \in Active' : /\ ballots'[a].vote = ballots'[b].vote
                                  /\ ballots'[a].unit = ballots'[b].unit
    <3>1. CASE b = r
      BY <1>2, <3>1
    <3>2. CASE b # r
      <4>1. b \in Stored
        BY <1>2, <3>2
      <4>2. PICK a \in Active : SamePair(a, ballots[b].vote, ballots[b].unit)
        BY <4>1 DEF HistoryInv, VotedUnitsKeepABallot
      <4>3. CASE a = e
        BY <1>2, <1>3, <1>4, <1>5, <4>1, <4>2, <4>3 DEF SamePair
      <4>4. CASE a # e
        BY <1>2, <1>5, <4>1, <4>2, <4>4 DEF SamePair
      <4> QED
        BY <4>3, <4>4
    <3> QED
      BY <3>1, <3>2
  <2> QED
    BY <2>1 DEF VotedUnitsKeepABallot, SamePair
<1>12. HistoryIsOneLine'
  <2>0. Stored' \ Active' = (Stored \ Active) \cup {x \in {e} : e # None}
    BY <1>2, <1>4, <1>5
  <2>1. ASSUME NEW b \in Stored' \ Active'
        PROVE  /\ ballots'[b].supersededBy \in Stored'
               /\ ballots'[b].supersededBy # b
               /\ ballots'[ballots'[b].supersededBy].vote = ballots'[b].vote
               /\ ballots'[ballots'[b].supersededBy].unit = ballots'[b].unit
               /\ ballots'[ballots'[b].supersededBy].owner = ballots'[b].owner
    <3>1. CASE b = e
      BY <1>2, <1>3, <1>4, <1>5, <2>0, <3>1 DEF SamePair
    <3>2. CASE b # e
      <4>1. b \in Stored \ Active /\ ballots'[b].supersededBy = ballots[b].supersededBy
        BY <1>2, <2>0, <3>2
      <4>2. /\ ballots[b].supersededBy \in Stored /\ ballots[b].supersededBy # b
            /\ SamePair(ballots[b].supersededBy, ballots[b].vote, ballots[b].unit)
            /\ ballots[ballots[b].supersededBy].owner = ballots[b].owner
        BY <4>1 DEF HistoryInv, HistoryIsOneLine
      <4> QED
        BY <1>2, <4>1, <4>2 DEF SamePair
    <3> QED
      BY <3>1, <3>2
  <2>2. ASSUME NEW b1 \in Stored' \ Active', NEW b2 \in Stored' \ Active',
               ballots'[b1].supersededBy = ballots'[b2].supersededBy
        PROVE  b1 = b2
    <3>1. \A b \in Stored \ Active : ballots[b].supersededBy \in Stored
      BY DEF HistoryInv, HistoryIsOneLine
    <3>2. \A b \in Stored \ Active : b # e
      BY <1>4, <1>5
    <3>3. \A b, c \in Stored \ Active :
            ballots[b].supersededBy = ballots[c].supersededBy => b = c
      BY DEF HistoryInv, HistoryIsOneLine
    <3>4. CASE b1 = e \/ b2 = e
      BY <1>2, <1>4, <1>5, <2>0, <2>2, <3>1, <3>2, <3>4
    <3>5. CASE b1 # e /\ b2 # e
      BY <1>2, <2>0, <2>2, <3>3, <3>5
    <3> QED
      BY <3>4, <3>5
  <2> QED
    BY <2>1, <2>2 DEF HistoryIsOneLine, SamePair
<1>13. ASSUME NEW s \in CastReq
       PROVE  Phase(s, cast[s])' /\ Fits(cast[s])' /\ Pending(cast[s])'
  <2>0. Phase(s, cast[s]) /\ Fits(cast[s]) /\ Pending(cast[s])
    BY DEF HistoryInv, RequestsInv
  <2>1. CASE s = r
    <3>1. ballots'[r] # None
      BY <1>2 DEF Stored
    <3>2. Phase(s, cast[s])' /\ Pending(cast[s])'
      BY <1>7, <1>8, <2>1, <3>1 DEF Phase, Pending
    <3>3. Fits(cast[s])'
      BY <1>1, <1>2, <1>4, <1>5, <1>7, <1>8, <2>1 DEF Fits, SamePair
    <3> QED
      BY <3>2, <3>3
  <2>2. CASE s # r
    <3>0. cast'[s] = cast[s]
      BY <1>8, <2>2
    <3>1. Phase(s, cast[s])'
      BY <1>2, <1>4, <1>5, <2>0, <2>2, <3>0 DEF Phase, Stored
    <3>2. Fits(cast[s])'
      BY <1>2, <1>9, <2>0, <3>0 DEF Fits, SamePair
    <3>3. Pending(cast[s])'
      <4> SUFFICES ASSUME cast[s].pc = "commit" PROVE Pending(cast[s])'
        BY <3>0 DEF Pending
      <4>1. cast[s].vote # cast[r].vote \/ cast[s].unit # cast[r].unit
        BY <1>1, <2>2 DEF HistoryInv, RequestsInv, Apart
      <4>2. cast[s].existing # None =>
              cast[s].existing \in Active
              /\ SamePair(cast[s].existing, cast[s].vote, cast[s].unit)
        BY <2>0 DEF Pending, Fits
      <4>3. cast[s].existing # None => cast[s].existing \in Active'
        BY <1>2, <1>4, <4>1, <4>2 DEF SamePair
      <4>4. \A b \in Active' : ballots'[b].vote = cast[s].vote /\ ballots'[b].unit = cast[s].unit
                               => b = cast[s].existing
        BY <1>2, <1>3, <1>5, <2>0, <4>1 DEF Pending, SamePair
      <4> QED
        BY <3>0, <4>3, <4>4 DEF Pending, SamePair
    <3> QED
      BY <3>1, <3>2, <3>3
  <2> QED
    BY <2>1, <2>2
<1>14. ASSUME NEW s \in CastReq, NEW t \in CastReq, s # t PROVE Apart(cast[s], cast[t])'
  <2>1. Apart(cast[s], cast[t])
    BY <1>14 DEF HistoryInv, RequestsInv
  <2>2. Apart(cast'[s], cast'[t])
    BY <1>7, <1>8, <2>1 DEF Apart
  <2> QED
    BY <2>2 DEF Apart
<1> QED
  BY <1>10, <1>11, <1>12, <1>13, <1>14 DEF HistoryInv, RequestsInv

(* Every step keeps the invariant.                                         *)
LEMMA NextHistoryInv ==
  ASSUME TypeInv, HistoryInv, [Next]_vars
  PROVE  HistoryInv'
<1>1. CASE UNCHANGED <<cast, ballots>>
  BY <1>1, HistoryFrame
<1>2. ASSUME NEW r \in CastReq, CastProgress(r) PROVE HistoryInv'
  <2>1. CASE CastRespond(r)
    BY <2>1, EndHistoryInv DEF CastRespond, CastEnds, store
  <2> QED
    BY <1>2, <2>1, ReadsHistoryInv, SaveExistingHistoryInv, SaveNewHistoryInv,
       CommitHistoryInv DEF CastProgress
<1>3. ASSUME NEW r \in CastReq, CastLost(r) PROVE HistoryInv'
  BY <1>3, EndHistoryInv DEF CastLost, CastEnds, store
<1>4. ASSUME NEW r \in CastReq, NEW a \in Account, NEW v \in CreateReq, NEW u \in Unit,
             NEW op \in Option \cup {None}, CastArrive(r, a, v, u, op)
      PROVE  HistoryInv'
  <2> DEFINE q == [pc |-> "getVote", account |-> a, vote |-> v, unit |-> u, option |-> op,
                   now |-> clock, owner |-> None, existing |-> None]
  <2>1. cast' = [cast EXCEPT ![r] = q] /\ UNCHANGED ballots /\ cast[r].pc = "idle"
    BY <1>4 DEF CastArrive, store
  <2>2. q.pc = "getVote" /\ q.existing = None
    OBVIOUS
  <2>3. Fits(q)
    BY DEF Fits
  <2> HIDE DEF q
  <2> QED
    BY <2>1, <2>2, <2>3, MoveHistoryInv
<1>5. CASE Next
  <2>1. CASE Surroundings
    BY <1>1, <2>1 DEF Surroundings, Tick, LinkOwner, AssignOwner, store
  <2>2. CASE Arrivals
    BY <1>1, <1>4, <2>2 DEF Arrivals, CreateArrive, CloseArrive, store
  <2>3. CASE Losses
    BY <1>1, <1>3, <2>3 DEF Losses, CreateLost, CloseLost, store
  <2>4. ASSUME NEW r \in CreateReq, CreateProgress(r) PROVE HistoryInv'
    BY <1>1, <2>4 DEF CreateProgress, CreateGetAccount, CreateGetCommunity, CreateSave,
                      CreateCommit, CreateRespond, store
  <2>5. ASSUME NEW r \in CloseReq, CloseProgress(r) PROVE HistoryInv'
    BY <1>1, <2>5 DEF CloseProgress, CloseGetVote, CloseGetAccount, CloseGetCommunity,
                      CloseGetBallots, CloseSave, CloseCommit, CloseRespond, store
  <2> QED
    BY <1>5, <1>2, <2>1, <2>2, <2>3, <2>4, <2>5 DEF Next, Progress
<1>6. CASE UNCHANGED vars
  BY <1>1, <1>6 DEF vars
<1> QED
  BY <1>5, <1>6

(* In every reachable state.                                               *)
LEMMA HistoryReachable == Spec => [](TypeInv /\ HistoryInv)
<1>1. TypeInv /\ HistoryInv /\ [Next]_vars => HistoryInv'
  BY NextHistoryInv
<1> QED
  BY InitHistoryInv, Typing, <1>1, PTL DEF Spec

(* However casts and corrections race, a unit has one active ballot at     *)
(* most.                                                                   *)
THEOREM OneBallot == Spec => []AtMostOneActive
<1>1. HistoryInv => AtMostOneActive
  BY DEF HistoryInv
<1> QED
  BY HistoryReachable, <1>1, PTL

(* A unit that has voted has an active ballot: no correction leaves it     *)
(* with superseded ones only.                                              *)
THEOREM KeptBallots == Spec => []VotedUnitsKeepABallot
<1>1. HistoryInv => VotedUnitsKeepABallot
  BY DEF HistoryInv
<1> QED
  BY HistoryReachable, <1>1, PTL

(* The superseded ballots of a unit are one line of corrections made by    *)
(* the owner who cast first.                                               *)
THEOREM OneLine == Spec => []HistoryIsOneLine
<1>1. HistoryInv => HistoryIsOneLine
  BY DEF HistoryInv
<1> QED
  BY HistoryReachable, <1>1, PTL

(* A cast answered 201 has its ballot stored, one answered with an error   *)
(* has none.                                                               *)
THEOREM CastAnswers == Spec => []CastAnswersAreTrue
<1>1. HistoryInv => CastAnswersAreTrue
  BY DEF HistoryInv, RequestsInv, Phase, CastAnswersAreTrue, CastEnds, Stored
<1> QED
  BY HistoryReachable, <1>1, PTL

(* No step rewrites a stored ballot but to supersede an active one.        *)
LEMMA StepOnlySupersedes ==
  ASSUME TypeInv, HistoryInv, [Next]_vars, NEW b \in Stored
  PROVE  \/ ballots'[b] = ballots[b]
         \/ /\ b \in Active
            /\ \E s \in CastReq : ballots'[b] = [ballots[b] EXCEPT !.supersededBy = s]
<1>1. CASE UNCHANGED ballots
  BY <1>1
<1>2. ASSUME NEW r \in CastReq, CastCommit(r)
      PROVE  \/ ballots'[b] = ballots[b]
             \/ /\ b \in Active
                /\ \E s \in CastReq : ballots'[b] = [ballots[b] EXCEPT !.supersededBy = s]
  <2>1. CASE b = cast[r].existing
    <3>1. cast[r].pc = "commit" /\ Pending(cast[r])
      BY <1>2 DEF CastCommit, CastGo, HistoryInv, RequestsInv
    <3>2. b # None
      BY NoneAssumption DEF Stored
    <3> QED
      BY <1>2, <2>1, <3>1, <3>2, CommitRows DEF Pending
  <2>2. CASE b # cast[r].existing
    BY ZenonT(30), <1>2, <2>2, CommitRows DEF Stored
  <2> QED
    BY <2>1, <2>2
<1>3. CASE Next
  <2>1. CASE Surroundings
    BY <1>1, <2>1 DEF Surroundings, Tick, LinkOwner, AssignOwner, store
  <2>2. CASE Arrivals
    BY <1>1, <2>2 DEF Arrivals, CreateArrive, CastArrive, CloseArrive, store
  <2>3. CASE Losses
    BY <1>1, <2>3 DEF Losses, CreateLost, CastLost, CloseLost, store
  <2>4. ASSUME NEW r \in CreateReq, CreateProgress(r) PROVE UNCHANGED ballots
    BY <2>4 DEF CreateProgress, CreateGetAccount, CreateGetCommunity, CreateSave,
                CreateCommit, CreateRespond, store
  <2>5. ASSUME NEW r \in CloseReq, CloseProgress(r) PROVE UNCHANGED ballots
    BY <2>5 DEF CloseProgress, CloseGetVote, CloseGetAccount, CloseGetCommunity,
                CloseGetBallots, CloseSave, CloseCommit, CloseRespond, store
  <2>6. ASSUME NEW r \in CastReq, CastProgress(r) PROVE CastCommit(r) \/ UNCHANGED ballots
    BY <2>6 DEF CastProgress, CastGetVote, CastGetAccount, CastGetCommunity,
                CastGetActive, CastSaveExisting, CastSaveNew, CastRespond, store
  <2> QED
    BY <1>1, <1>2, <1>3, <2>1, <2>2, <2>3, <2>4, <2>5, <2>6 DEF Next, Progress
<1>4. CASE UNCHANGED vars
  BY <1>1, <1>4 DEF vars
<1> QED
  BY <1>3, <1>4

(* The history of the ballots is only ever extended.                       *)
THEOREM HistoryIsFrozen == Spec => BallotsAreOnlySuperseded
<1>1. TypeInv /\ HistoryInv /\ [Next]_vars =>
        [\A b \in Stored :
           \/ ballots'[b] = ballots[b]
           \/ /\ b \in Active
              /\ \E s \in CastReq : ballots'[b] = [ballots[b] EXCEPT !.supersededBy = s]]_vars
  BY StepOnlySupersedes
<1> QED
  BY HistoryReachable, <1>1, PTL DEF Spec, BallotsAreOnlySuperseded

-----------------------------------------------------------------------------
(* What ballots and results rest on *)

(* A vote is stored only by the commit of its create request.              *)
VotesAreNew ==
  \A r \in CreateReq :
    create[r].pc \notin {"committed", "Created", "Lost"} => votes[r] = None

(* What a cast has checked stays true: the vote was open when the request  *)
(* came, the unit is one of its community and the owner's.                 *)
MayCast(q) ==
  /\ q.pc \in CastSteps \ {"getVote"} =>
       votes[q.vote] # None /\ q.now <= votes[q.vote].endDate
  /\ q.pc \in {"getActive", "saveExisting", "saveNew", "commit"} =>
       /\ CommunityOf[q.unit] = votes[q.vote].community
       /\ <<q.owner, q.unit>> \in owns

EntitledInv == BallotsAreEntitled /\ \A r \in CastReq : MayCast(cast[r])

(* Whoever casts for a unit in a vote is the owner who cast first.         *)
OneOwner ==
  \A b1, b2 \in Stored :
    SamePair(b1, ballots[b2].vote, ballots[b2].unit) => ballots[b1].owner = ballots[b2].owner

(* Ballots of v, one for each unit that has voted.                         *)
Tallied(bs, v) ==
  /\ \A b \in bs : b \in Stored /\ ballots[b].vote = v
  /\ \A b1, b2 \in bs : ballots[b1].unit = ballots[b2].unit => b1 = b2

(* The first version of a row is the open vote, and only that one.         *)
ResultRows ==
  \A v \in CreateReq :
    votes[v] # None =>
      /\ votes[v].result = None <=> votes[v].version = 1
      /\ votes[v].result # None => Tallied(votes[v].result.counted, v)

(* A close read the first version; at its commit, that is still the row.   *)
(* It counts the units of all the ballots it had seen.                     *)
MayClose(q) ==
  /\ q.seen \subseteq Stored
  /\ q.pc \in {"getAccount", "getCommunity", "getBallots", "save", "commit"} => q.version = 1
  /\ q.pc = "commit" => votes[q.vote].version = 1
  /\ q.pc \in {"save", "commit", "committed", "Closed"} =>
       /\ Tallied(q.counted, q.vote)
       /\ \A b \in q.seen :
            ballots[b].vote = q.vote => \E c \in q.counted : ballots[c].unit = ballots[b].unit
  /\ q.pc \in {"committed", "Closed"} =>
       /\ q.vote \in CreateReq /\ votes[q.vote] # None
       /\ votes[q.vote].result = [counted |-> q.counted, closedAt |-> q.now]
  /\ q.pc # "InternalError"

CloseInv ==
  /\ \A r \in CloseReq : MayClose(close[r])
  /\ \A r, s \in CloseReq :
       r # s /\ close[r].pc = "commit" /\ close[s].pc = "commit" => close[r].vote # close[s].vote

ResultsInv == VotesAreNew /\ EntitledInv /\ OneOwner /\ ResultRows /\ CloseInv

(* Nothing is stored and no request has arrived at the start.              *)
LEMMA InitResultsInv == Init => ResultsInv
BY NoneAssumption
   DEF Init, ResultsInv, VotesAreNew, EntitledInv, BallotsAreEntitled, MayCast, OneOwner,
       ResultRows, CloseInv, MayClose, Stored, NoCreate, NoCast, NoClose, CastSteps

-----------------------------------------------------------------------------
(* What a step may do to the rows *)

(* Rows are added and keep what is never written again.                    *)
Grown ==
  /\ owns \subseteq owns'
  /\ \A v \in CreateReq :
       votes[v] # None => /\ votes'[v] # None
                          /\ votes'[v].community = votes[v].community
                          /\ votes'[v].endDate = votes[v].endDate
  /\ Stored \subseteq Stored'
  /\ \A b \in Stored : /\ ballots'[b].vote = ballots[b].vote
                       /\ ballots'[b].unit = ballots[b].unit
                       /\ ballots'[b].owner = ballots[b].owner
                       /\ ballots'[b].option = ballots[b].option
                       /\ ballots'[b].castAt = ballots[b].castAt

(* The steps that write votes and ballots are the commits.                 *)
LEMMA Writers ==
  ASSUME Next
  PROVE  \/ \E r \in CreateReq : CreateCommit(r)
         \/ \E r \in CastReq : CastCommit(r)
         \/ \E r \in CloseReq : CloseCommit(r)
         \/ UNCHANGED store
<1>1. CASE Surroundings \/ Arrivals \/ Losses
  BY <1>1 DEF Surroundings, Tick, LinkOwner, AssignOwner, Arrivals, CreateArrive,
              CastArrive, CloseArrive, Losses, CreateLost, CastLost, CloseLost
<1>2. ASSUME NEW r \in CreateReq, CreateProgress(r) PROVE CreateCommit(r) \/ UNCHANGED store
  BY <1>2 DEF CreateProgress, CreateGetAccount, CreateGetCommunity, CreateSave, CreateRespond
<1>3. ASSUME NEW r \in CastReq, CastProgress(r) PROVE CastCommit(r) \/ UNCHANGED store
  BY <1>3 DEF CastProgress, CastGetVote, CastGetAccount, CastGetCommunity, CastGetActive,
              CastSaveExisting, CastSaveNew, CastRespond
<1>4. ASSUME NEW r \in CloseReq, CloseProgress(r) PROVE CloseCommit(r) \/ UNCHANGED store
  BY <1>4 DEF CloseProgress, CloseGetVote, CloseGetAccount, CloseGetCommunity,
              CloseGetBallots, CloseSave, CloseRespond
<1> QED
  BY <1>1, <1>2, <1>3, <1>4 DEF Next, Progress

(* A commit of a create request adds its row.                              *)
LEMMA CreateCommitRows ==
  ASSUME TypeInv, VotesAreNew, NEW r \in CreateReq, CreateCommit(r)
  PROVE  /\ votes[r] = None /\ ballots' = ballots
         /\ votes'[r] \in VoteRow /\ votes'[r].result = None /\ votes'[r].version = 1
         /\ \A v \in CreateReq \ {r} : votes'[v] = votes[v]
<1>1. create[r] \in CreateRecord /\ CreateKnows(create[r]) /\ create[r].pc = "commit"
  BY DEF TypeInv, TypeOK, CreateCommit, CreateGo
<1>2. votes[r] = None
  BY <1>1 DEF VotesAreNew
<1> DEFINE row == [community |-> create[r].community, endDate |-> create[r].endDate,
                   result |-> None, version |-> 1]
<1>3. row \in VoteRow
  BY <1>1 DEF VoteRow, CreateKnows, CreateRecord
<1>4. votes' = [votes EXCEPT ![r] = row] /\ ballots' = ballots
  BY DEF CreateCommit
<1> QED
  BY <1>2, <1>3, <1>4 DEF TypeInv, TypeOK

(* A commit of a close writes the result of its vote and nothing else.     *)
LEMMA CloseCommitRows ==
  ASSUME TypeInv, NEW r \in CloseReq, CloseCommit(r)
  PROVE  LET v == close[r].vote IN
         /\ v \in CreateReq /\ votes[v] \in VoteRow /\ votes'[v] \in VoteRow
         /\ votes'[v].community = votes[v].community
         /\ votes'[v].endDate = votes[v].endDate
         /\ votes'[v].result = ResultOf(r)
         /\ votes'[v].version = close[r].version + 1
         /\ \A w \in CreateReq \ {v} : votes'[w] = votes[w]
         /\ ballots' = ballots
<1> DEFINE v == close[r].vote
<1>1. close[r] \in CloseRecord /\ CloseKnows(close[r]) /\ close[r].pc = "commit"
  BY DEF TypeInv, TypeOK, CloseCommit, CloseGo
<1>2. v \in CreateReq /\ votes[v] \in VoteRow
  BY <1>1 DEF CloseKnows, CloseSteps, TypeInv, TypeOK
<1>3. ResultOf(r) \in Result /\ close[r].version + 1 \in Nat
  BY <1>1 DEF ResultOf, Result, CloseRecord
<1>4. /\ votes' = [votes EXCEPT ![v].result = ResultOf(r), ![v].version = close[r].version + 1]
      /\ ballots' = ballots
  BY DEF CloseCommit
<1>5. /\ votes'[v] = [votes[v] EXCEPT !.result = ResultOf(r), !.version = close[r].version + 1]
      /\ \A w \in CreateReq \ {v} : votes'[w] = votes[w]
  BY <1>2, <1>4 DEF TypeInv, TypeOK
<1>6. /\ votes'[v] \in VoteRow
      /\ votes'[v].community = votes[v].community
      /\ votes'[v].endDate = votes[v].endDate
      /\ votes'[v].result = ResultOf(r)
      /\ votes'[v].version = close[r].version + 1
  BY <1>2, <1>3, <1>5 DEF VoteRow
<1> QED
  BY <1>2, <1>4, <1>5, <1>6

(* Every step lets the rows grow only.                                     *)
LEMMA Growth ==
  ASSUME TypeInv, HistoryInv, VotesAreNew, [Next]_vars
  PROVE  Grown
<1>1. owns \subseteq owns'
  <2>1. CASE Surroundings
    BY <2>1 DEF Surroundings, Tick, LinkOwner, AssignOwner
  <2>2. CASE Arrivals \/ Losses
    BY <2>2 DEF Arrivals, CreateArrive, CastArrive, CloseArrive, Losses, CreateLost,
                CastLost, CloseLost, env
  <2>3. CASE \E r \in CreateReq : CreateProgress(r)
    BY <2>3 DEF CreateProgress, CreateGetAccount, CreateGetCommunity, CreateSave,
                CreateCommit, CreateRespond, env
  <2>4. CASE \E r \in CastReq : CastProgress(r)
    BY <2>4 DEF CastProgress, CastGetVote, CastGetAccount, CastGetCommunity, CastGetActive,
                CastSaveExisting, CastSaveNew, CastCommit, CastRespond, env
  <2>5. CASE \E r \in CloseReq : CloseProgress(r)
    BY <2>5 DEF CloseProgress, CloseGetVote, CloseGetAccount, CloseGetCommunity,
                CloseGetBallots, CloseSave, CloseCommit, CloseRespond, env
  <2>6. CASE UNCHANGED vars
    BY <2>6 DEF vars
  <2> QED
    BY <2>1, <2>2, <2>3, <2>4, <2>5, <2>6 DEF Next, Progress
<1>2. ASSUME NEW v \in CreateReq, votes[v] # None
      PROVE  /\ votes'[v] # None
             /\ votes'[v].community = votes[v].community
             /\ votes'[v].endDate = votes[v].endDate
  <2>1. ASSUME NEW r \in CreateReq, CreateCommit(r) PROVE votes'[v] = votes[v]
    BY <1>2, <2>1, CreateCommitRows
  <2>2. ASSUME NEW r \in CastReq, CastCommit(r) PROVE votes'[v] = votes[v]
    BY <2>2 DEF CastCommit
  <2>3. ASSUME NEW r \in CloseReq, CloseCommit(r)
        PROVE  /\ votes'[v] # None
               /\ votes'[v].community = votes[v].community
               /\ votes'[v].endDate = votes[v].endDate
    BY <1>2, <2>3, CloseCommitRows, NoneAssumption
  <2> QED
    BY <1>2, <2>1, <2>2, <2>3, Writers DEF vars, store
<1>3. ASSUME NEW b \in Stored
      PROVE  /\ b \in Stored'
             /\ ballots'[b].vote = ballots[b].vote
             /\ ballots'[b].unit = ballots[b].unit
             /\ ballots'[b].owner = ballots[b].owner
             /\ ballots'[b].option = ballots[b].option
             /\ ballots'[b].castAt = ballots[b].castAt
  <2>1. b \in CastReq /\ ballots[b] # None /\ ballots[b] \in BallotRow
    BY DEF Stored, TypeInv, TypeOK
  <2>2. CASE ballots'[b] = ballots[b]
    BY <2>1, <2>2 DEF Stored
  <2>3. ASSUME NEW s \in CastReq, ballots'[b] = [ballots[b] EXCEPT !.supersededBy = s]
        PROVE  /\ ballots'[b] # None
               /\ ballots'[b].vote = ballots[b].vote
               /\ ballots'[b].unit = ballots[b].unit
               /\ ballots'[b].owner = ballots[b].owner
               /\ ballots'[b].option = ballots[b].option
               /\ ballots'[b].castAt = ballots[b].castAt
    <3>1. ballots'[b] \in BallotRow
      BY <2>1, <2>3 DEF BallotRow
    <3> QED
      BY <2>1, <2>3, <3>1, NoneAssumption DEF BallotRow
  <2> QED
    BY <2>1, <2>2, <2>3, StepOnlySupersedes DEF Stored
<1> QED
  BY <1>1, <1>2, <1>3 DEF Grown

-----------------------------------------------------------------------------
(* Votes are new, and ballots entitled *)

(* A create request that has not committed still has no vote.              *)
LEMMA NewVotesStep ==
  ASSUME TypeInv, VotesAreNew, [Next]_vars
  PROVE  VotesAreNew'
<1>1. ASSUME NEW r \in CreateReq, NEW p, create' = [create EXCEPT ![r] = p],
             p.pc \notin {"committed", "Created", "Lost"} =>
               create[r].pc \notin {"committed", "Created", "Lost"},
             votes' = votes
      PROVE  VotesAreNew'
  BY <1>1 DEF VotesAreNew, TypeInv, TypeOK
<1>2. ASSUME NEW r \in CreateReq, CreateCommit(r) PROVE VotesAreNew'
  <2>1. create[r] \in CreateRecord /\ create' = [create EXCEPT ![r].pc = "committed"]
    BY <1>2 DEF CreateCommit, CreateGo, TypeInv, TypeOK
  <2>2. create'[r].pc = "committed" /\ \A s \in CreateReq \ {r} : create'[s] = create[s]
    BY <2>1 DEF TypeInv, TypeOK, CreateRecord
  <2> QED
    BY <1>2, <2>2, CreateCommitRows DEF VotesAreNew
<1>3. ASSUME NEW r \in CreateReq, CreateProgress(r) \/ CreateLost(r) PROVE VotesAreNew'
  <2>0. create[r] \in CreateRecord
    BY DEF TypeInv, TypeOK
  <2>1. ASSUME NEW e \in CreateEnds, CreateEnd(r, e), votes' = votes,
               create[r].pc \notin {"committed", "Created", "Lost"} \/ e \in {"Created", "Lost"}
        PROVE  VotesAreNew'
    <3> DEFINE p == [NoCreate EXCEPT !.pc = e]
    <3>1. create' = [create EXCEPT ![r] = p] /\ p.pc = e
      BY <2>1 DEF CreateEnd, NoCreate
    <3> HIDE DEF p
    <3> QED
      BY <2>1, <3>1, <1>1
  <2>2. ASSUME NEW to, CreateGo(r, create[r].pc, to), votes' = votes,
               create[r].pc \notin {"committed", "Created", "Lost"}
        PROVE  VotesAreNew'
    <3> DEFINE p == [create[r] EXCEPT !.pc = to]
    <3>1. create' = [create EXCEPT ![r] = p]
      BY <2>2 DEF CreateGo
    <3> HIDE DEF p
    <3> QED
      BY <2>2, <3>1, <1>1
  <2>3. CASE CreateGetAccount(r)
    <3> DEFINE p == [create[r] EXCEPT !.pc = "getCommunity", !.owner = link[create[r].account]]
    <3>1. create' = [create EXCEPT ![r] = p] \/ CreateEnd(r, "NotAuthorized")
      BY <2>3 DEF CreateGetAccount
    <3>2. create[r].pc = "getAccount" /\ votes' = votes
      BY <2>3 DEF CreateGetAccount, store
    <3> HIDE DEF p
    <3> QED
      BY <3>1, <3>2, <1>1, <2>1 DEF CreateEnds
  <2>4. CASE CreateGetCommunity(r) \/ CreateSave(r) \/ CreateRespond(r)
    BY <2>1, <2>2, <2>4, RefusalsAreAnswers
       DEF CreateGetCommunity, CreateSave, CreateRespond, CreateGo, CreateEnds, store
  <2>5. CASE CreateLost(r)
    BY <2>1, <2>5 DEF CreateLost, CreateEnds, store
  <2> QED
    BY <1>2, <1>3, <2>3, <2>4, <2>5 DEF CreateProgress
<1>4. ASSUME NEW r \in CreateReq, NEW a \in Account, NEW c \in Community \cup {None},
             NEW end \in 0..MaxTime, NEW content \in Contents,
             CreateArrive(r, a, c, end, content)
      PROVE  VotesAreNew'
  <2> DEFINE p == [pc |-> "getAccount", account |-> a, community |-> c, endDate |-> end,
                   content |-> content, now |-> clock, owner |-> None]
  <2>1. create' = [create EXCEPT ![r] = p] /\ votes' = votes /\ create[r].pc = "idle"
    BY <1>4 DEF CreateArrive, store
  <2> HIDE DEF p
  <2> QED
    BY <2>1, <1>1
<1>5. CASE UNCHANGED create /\ \A v \in CreateReq : votes[v] = None => votes'[v] = None
  BY <1>5 DEF VotesAreNew
<1>6. ASSUME NEW r \in CloseReq, CloseCommit(r) PROVE VotesAreNew'
  <2>1. close[r].vote \in CreateReq /\ votes[close[r].vote] # None
        /\ \A v \in CreateReq \ {close[r].vote} : votes'[v] = votes[v]
    BY <1>6, CloseCommitRows, NoneAssumption
  <2>2. \A v \in CreateReq : votes[v] = None => votes'[v] = None
    BY <2>1
  <2>3. UNCHANGED create
    BY <1>6 DEF CloseCommit
  <2> QED
    BY <1>5, <2>2, <2>3
<1>7. CASE Surroundings
  BY <1>5, <1>7 DEF Surroundings, Tick, LinkOwner, AssignOwner, store
<1>8. CASE Arrivals
  BY <1>4, <1>5, <1>8 DEF Arrivals, CastArrive, CloseArrive, store
<1>9. CASE Losses
  BY <1>3, <1>5, <1>9 DEF Losses, CastLost, CloseLost, store
<1>10. ASSUME NEW r \in CastReq, CastProgress(r) PROVE VotesAreNew'
  BY <1>5, <1>10 DEF CastProgress, CastGetVote, CastGetAccount, CastGetCommunity,
                     CastGetActive, CastSaveExisting, CastSaveNew, CastCommit, CastRespond, store
<1>11. ASSUME NEW r \in CloseReq, CloseProgress(r) PROVE VotesAreNew'
  BY <1>5, <1>6, <1>11 DEF CloseProgress, CloseGetVote, CloseGetAccount, CloseGetCommunity,
                     CloseGetBallots, CloseSave, CloseRespond, store
<1>12. CASE UNCHANGED vars
  BY <1>5, <1>12 DEF vars
<1> QED
  BY <1>3, <1>7, <1>8, <1>9, <1>10, <1>11, <1>12 DEF Next, Progress

(* What a cast may do stays true while rows grow.                          *)
LEMMA MayCastFrame ==
  ASSUME TypeInv, EntitledInv, Grown, NEW r \in CastReq, NEW q,
         MayCast(q), q.pc \in CastSteps => q.vote \in CreateReq,
         cast' = [cast EXCEPT ![r] = q]
  PROVE  \A s \in CastReq : MayCast(cast[s])'
<1>1. ASSUME NEW p, MayCast(p), p.pc \in CastSteps => p.vote \in CreateReq
      PROVE  MayCast(p)'
  BY <1>1 DEF MayCast, Grown, CastSteps
<1>2. ASSUME NEW s \in CastReq PROVE cast'[s] = IF s = r THEN q ELSE cast[s]
  BY DEF TypeInv, TypeOK
<1>3. \A s \in CastReq : MayCast(cast'[s]) /\ (cast'[s].pc \in CastSteps => cast'[s].vote \in CreateReq)
  BY <1>2 DEF EntitledInv, TypeInv, CastKnows
<1> QED
  BY <1>1, <1>3 DEF MayCast

(* The steps of a cast check what it needs to be entitled.                 *)
LEMMA MayCastStep ==
  ASSUME TypeInv, EntitledInv, Grown, NEW r \in CastReq, CastProgress(r) \/ CastLost(r)
  PROVE  \A s \in CastReq : MayCast(cast[s])'
<1> DEFINE Goal == \A s \in CastReq : MayCast(cast[s])'
<1> SUFFICES Goal
  OBVIOUS
<1> HIDE DEF Goal
<1>q. cast[r] \in CastRecord /\ CastKnows(cast[r]) /\ MayCast(cast[r])
  BY DEF TypeInv, TypeOK, EntitledInv
<1>s. ASSUME NEW q, MayCast(q), q.pc \in CastSteps => q.vote \in CreateReq,
             cast' = [cast EXCEPT ![r] = q]
      PROVE  Goal
  BY <1>s, MayCastFrame DEF Goal
<1>e. ASSUME NEW e \in CastEnds, CastEnd(r, e) PROVE Goal
  <2> DEFINE q == [NoCast EXCEPT !.pc = e]
  <2>1. cast' = [cast EXCEPT ![r] = q] /\ q.pc = e
    BY <1>e DEF CastEnd, NoCast
  <2>2. MayCast(q) /\ q.pc \notin CastSteps
    BY <2>1 DEF MayCast, CastEnds, CastSteps
  <2> HIDE DEF q
  <2> QED
    BY <2>1, <2>2, <1>s
<1>m. ASSUME NEW to \in CastSteps, CastGo(r, cast[r].pc, to), cast[r].pc \in CastSteps,
             MayCast([cast[r] EXCEPT !.pc = to])
      PROVE  Goal
  <2> DEFINE q == [cast[r] EXCEPT !.pc = to]
  <2>1. cast' = [cast EXCEPT ![r] = q] /\ q.vote \in CreateReq
    BY <1>m, <1>q DEF CastGo, CastKnows, CastRecord
  <2>2. MayCast(q)
    BY <1>m
  <2> HIDE DEF q
  <2> QED
    BY <2>1, <2>2, <1>s
<1>1. CASE CastGetVote(r)
  <2>1. CASE CastGo(r, "getVote", "getAccount")
    <3>1. /\ cast[r].pc = "getVote" /\ votes[cast[r].vote] # None /\ ~CastAfterTheEnd(r)
      BY <1>1, <2>1, <1>q DEF CastGetVote, CastGo, CastEnd, NoCast, CastRecord, TypeInv, TypeOK
    <3>2. cast[r].vote \in CreateReq /\ votes[cast[r].vote] \in VoteRow
      BY <1>q, <3>1 DEF CastKnows, CastSteps, TypeInv, TypeOK
    <3>3. cast[r].now <= votes[cast[r].vote].endDate
      BY <1>q, <3>1, <3>2 DEF CastAfterTheEnd, CastRecord, VoteRow
    <3>4. MayCast([cast[r] EXCEPT !.pc = "getAccount"])
      BY <1>q, <3>1, <3>3 DEF MayCast, CastRecord
    <3> QED
      BY <2>1, <3>1, <3>4, <1>m DEF CastSteps
  <2> QED
    BY <1>1, <2>1, <1>e DEF CastGetVote, CastEnds
<1>2. CASE CastGetAccount(r)
  <2> DEFINE q == [cast[r] EXCEPT !.pc = "getCommunity", !.owner = link[cast[r].account]]
  <2>0. cast[r].pc = "getAccount"
    BY <1>2 DEF CastGetAccount
  <2>1. cast' = [cast EXCEPT ![r] = q] \/ \E e \in CastEnds : CastEnd(r, e)
    BY <1>2 DEF CastGetAccount, CastEnds
  <2>2. MayCast(q) /\ q.vote \in CreateReq
    BY <1>q, <2>0 DEF MayCast, CastRecord, CastKnows, CastSteps
  <2> HIDE DEF q
  <2> QED
    BY <2>1, <2>2, <1>s, <1>e
<1>3. CASE CastGetCommunity(r)
  <2>1. CASE UnitInCommunity(r) /\ OwnsTheUnit(r)
    <3>1. cast[r].pc = "getCommunity" /\ CastGo(r, "getCommunity", "getActive")
      BY <1>3, <2>1 DEF CastGetCommunity
    <3>2. MayCast([cast[r] EXCEPT !.pc = "getActive"])
      BY <1>q, <2>1, <3>1 DEF MayCast, CastRecord, CastSteps, UnitInCommunity, OwnsTheUnit
    <3> QED
      BY <3>1, <3>2, <1>m DEF CastSteps
  <2> QED
    BY <1>3, <2>1, <1>e DEF CastGetCommunity, CastEnds
<1>4. CASE CastGetActive(r)
  <2>0. cast[r].pc = "getActive"
    BY <1>4 DEF CastGetActive
  <2>1. CASE CastGo(r, "getActive", "saveNew")
    <3>1. MayCast([cast[r] EXCEPT !.pc = "saveNew"])
      BY <1>q, <2>0 DEF MayCast, CastRecord, CastSteps
    <3> QED
      BY <2>0, <2>1, <3>1, <1>m DEF CastSteps
  <2>2. ASSUME NEW b, cast' = [cast EXCEPT ![r].pc = "saveExisting", ![r].existing = b]
        PROVE  Goal
    <3> DEFINE q == [cast[r] EXCEPT !.pc = "saveExisting", !.existing = b]
    <3>1. cast' = [cast EXCEPT ![r] = q]
      BY <2>2
    <3>2. MayCast(q) /\ q.vote \in CreateReq
      BY <1>q, <2>0 DEF MayCast, CastRecord, CastKnows, CastSteps
    <3> HIDE DEF q
    <3> QED
      BY <3>1, <3>2, <1>s
  <2>3. CASE CastEnd(r, "VotedByAnotherOwner")
    BY <2>3, <1>e DEF CastEnds
  <2> QED
    BY <1>4, <2>1, <2>2, <2>3 DEF CastGetActive
<1>5. CASE CastSaveExisting(r)
  <2>1. cast[r].pc = "saveExisting" /\ CastGo(r, "saveExisting", "saveNew")
    BY <1>5 DEF CastSaveExisting, CastGo
  <2>2. MayCast([cast[r] EXCEPT !.pc = "saveNew"])
    BY <1>q, <2>1 DEF MayCast, CastRecord, CastSteps
  <2> QED
    BY <2>1, <2>2, <1>m DEF CastSteps
<1>6. CASE CastSaveNew(r)
  <2>1. cast[r].pc = "saveNew"
    BY <1>6 DEF CastSaveNew
  <2>2. MayCast([cast[r] EXCEPT !.pc = "commit"])
    BY <1>q, <2>1 DEF MayCast, CastRecord, CastSteps
  <2> QED
    BY <1>6, <2>1, <2>2, <1>m, <1>e DEF CastSaveNew, CastSteps, CastEnds
<1>7. CASE CastCommit(r)
  <2>1. cast[r].pc = "commit" /\ CastGo(r, "commit", "committed")
    BY <1>7 DEF CastCommit, CastGo
  <2>2. MayCast([cast[r] EXCEPT !.pc = "committed"])
    BY <1>q, <2>1 DEF MayCast, CastRecord, CastSteps
  <2> QED
    BY <2>1, <2>2, <1>m DEF CastSteps
<1>8. CASE CastRespond(r) \/ CastLost(r)
  BY <1>8, <1>e DEF CastRespond, CastLost, CastEnds
<1> QED
  BY <1>1, <1>2, <1>3, <1>4, <1>5, <1>6, <1>7, <1>8 DEF CastProgress

(* Ballots are stored by commits of casts only.                            *)
LEMMA StoredStep ==
  ASSUME [Next]_vars
  PROVE  (\E r \in CastReq : CastCommit(r)) \/ ballots' = ballots
BY Writers DEF CreateCommit, CloseCommit, vars, store

(* Stored ballots are entitled, the one a commit stores as the request is. *)
LEMMA EntitledStep ==
  ASSUME TypeInv, HistoryInv, VotesAreNew, EntitledInv, [Next]_vars
  PROVE  EntitledInv'
<1>g. Grown
  BY Growth
<1>2. \A s \in CastReq : MayCast(cast[s])'
  <2>1. CASE UNCHANGED cast
    BY <1>g, <2>1 DEF EntitledInv, MayCast, Grown, CastSteps, TypeInv, CastKnows
  <2>2. ASSUME NEW r \in CastReq, NEW a \in Account, NEW v \in CreateReq, NEW u \in Unit,
               NEW op \in Option \cup {None}, CastArrive(r, a, v, u, op)
        PROVE  \A s \in CastReq : MayCast(cast[s])'
    <3> DEFINE q == [pc |-> "getVote", account |-> a, vote |-> v, unit |-> u, option |-> op,
                     now |-> clock, owner |-> None, existing |-> None]
    <3>1. cast' = [cast EXCEPT ![r] = q] /\ q.vote \in CreateReq
      BY <2>2 DEF CastArrive
    <3>2. MayCast(q)
      BY DEF MayCast, CastSteps
    <3> HIDE DEF q
    <3> QED
      BY <1>g, <3>1, <3>2, MayCastFrame
  <2>3. CASE Next
    <3>1. \/ UNCHANGED cast
          \/ \E r \in CastReq : CastProgress(r) \/ CastLost(r)
          \/ \E r \in CastReq, a \in Account, v \in CreateReq, u \in Unit,
                op \in Option \cup {None} : CastArrive(r, a, v, u, op)
      BY <2>3 DEF Next, Surroundings, Tick, LinkOwner, AssignOwner, Arrivals, CreateArrive,
           CloseArrive, Losses, CreateLost, CloseLost, Progress, CreateProgress,
           CreateGetAccount, CreateGetCommunity, CreateSave, CreateCommit, CreateRespond,
           CloseProgress, CloseGetVote, CloseGetAccount, CloseGetCommunity, CloseGetBallots,
           CloseSave, CloseCommit, CloseRespond
    <3> QED
      BY <1>g, <2>1, <2>2, <3>1, MayCastStep
  <2> QED
    BY <2>1, <2>3 DEF vars
<1>3. BallotsAreEntitled'
  <2>1. ASSUME NEW b \in Stored
        PROVE  /\ votes'[ballots'[b].vote] # None
               /\ ballots'[b].castAt <= votes'[ballots'[b].vote].endDate
               /\ CommunityOf[ballots'[b].unit] = votes'[ballots'[b].vote].community
               /\ <<ballots'[b].owner, ballots'[b].unit>> \in owns'
    <3>1. ballots[b] \in BallotRow
      BY DEF Stored, TypeInv, TypeOK
    <3> QED
      BY <1>g, <3>1 DEF Grown, EntitledInv, BallotsAreEntitled, BallotRow
  <2>2. CASE ballots' = ballots
    BY <2>1, <2>2 DEF BallotsAreEntitled, Stored
  <2>3. ASSUME NEW r \in CastReq, CastCommit(r) PROVE BallotsAreEntitled'
    <3>1. Stored' = Stored \cup {r} /\ ballots'[r] = NewBallot(r)
      BY <2>3, CommitRows
    <3>2. /\ cast[r].pc = "commit" /\ cast[r] \in CastRecord /\ CastKnows(cast[r])
          /\ MayCast(cast[r]) /\ votes' = votes /\ owns' = owns
      BY <2>3 DEF CastCommit, CastGo, TypeInv, TypeOK, EntitledInv, env
    <3>3. /\ votes'[ballots'[r].vote] # None
          /\ ballots'[r].castAt <= votes'[ballots'[r].vote].endDate
          /\ CommunityOf[ballots'[r].unit] = votes'[ballots'[r].vote].community
          /\ <<ballots'[r].owner, ballots'[r].unit>> \in owns'
      BY <3>1, <3>2 DEF NewBallot, MayCast, CastSteps
    <3> QED
      BY <2>1, <3>1, <3>3 DEF BallotsAreEntitled
  <2> QED
    BY <2>2, <2>3, StoredStep
<1> QED
  BY <1>2, <1>3 DEF EntitledInv

(* A correction keeps the owner; a first ballot has no other to agree with.*)
LEMMA OneOwnerStep ==
  ASSUME TypeInv, HistoryInv, OneOwner, [Next]_vars
  PROVE  OneOwner'
<1>1. CASE ballots' = ballots
  BY <1>1 DEF OneOwner, Stored, SamePair
<1>2. ASSUME NEW r \in CastReq, CastCommit(r) PROVE OneOwner'
  <2>1. /\ Stored' = Stored \cup {r} /\ ballots'[r] = NewBallot(r)
        /\ \A b \in Stored : /\ ballots'[b].vote = ballots[b].vote
                             /\ ballots'[b].unit = ballots[b].unit
                             /\ ballots'[b].owner = ballots[b].owner
    BY <1>2, CommitRows
  <2>2. /\ NewBallot(r).vote = cast[r].vote /\ NewBallot(r).unit = cast[r].unit
        /\ NewBallot(r).owner = cast[r].owner
    BY DEF NewBallot
  <2>3. ASSUME NEW b \in Stored, SamePair(b, cast[r].vote, cast[r].unit)
        PROVE  ballots[b].owner = cast[r].owner
    <3>1. cast[r].pc = "commit" /\ Pending(cast[r]) /\ Fits(cast[r]) /\ CastKnows(cast[r])
      BY <1>2 DEF CastCommit, CastGo, HistoryInv, RequestsInv, TypeInv
    <3>2. PICK a \in Active : SamePair(a, cast[r].vote, cast[r].unit)
      BY <2>3 DEF HistoryInv, VotedUnitsKeepABallot, SamePair
    <3>3. a = cast[r].existing /\ a \in Stored /\ a # None
      BY <3>1, <3>2, NoneAssumption DEF Pending, Active, Stored
    <3>4. ballots[a].owner = cast[r].owner
      BY <3>1, <3>3 DEF Fits
    <3>5. SamePair(b, ballots[a].vote, ballots[a].unit)
      BY <2>3, <3>2 DEF SamePair
    <3> QED
      BY <3>3, <3>4, <3>5 DEF OneOwner
  <2>4. ASSUME NEW b1 \in Stored', NEW b2 \in Stored',
               ballots'[b1].vote = ballots'[b2].vote, ballots'[b1].unit = ballots'[b2].unit
        PROVE  ballots'[b1].owner = ballots'[b2].owner
    <3>1. CASE b1 \in Stored /\ b2 \in Stored
      BY <2>1, <2>4, <3>1 DEF OneOwner, SamePair
    <3>2. CASE b1 \notin Stored \/ b2 \notin Stored
      BY <2>1, <2>2, <2>3, <2>4, <3>2 DEF SamePair
    <3> QED
      BY <3>1, <3>2
  <2> QED
    BY <2>4 DEF OneOwner, SamePair
<1> QED
  BY <1>1, <1>2, StoredStep

-----------------------------------------------------------------------------
(* Results *)

(* A tally stays one while ballots are added.                              *)
LEMMA TalliedStable ==
  ASSUME Grown, NEW bs, NEW v, Tallied(bs, v)
  PROVE  Tallied(bs, v)'
BY DEF Tallied, Grown

(* A close at its commit writes over the first version, so over no result. *)
LEMMA ResultRowsStep ==
  ASSUME TypeInv, HistoryInv, ResultsInv, [Next]_vars
  PROVE  ResultRows'
<1>g. Grown
  BY Growth DEF ResultsInv
<1>1. ASSUME NEW v \in CreateReq, votes'[v] # None, votes'[v] = votes[v]
      PROVE  (/\ votes[v].result = None <=> votes[v].version = 1
              /\ votes[v].result # None => Tallied(votes[v].result.counted, v))'
  <2>1. /\ votes[v].result = None <=> votes[v].version = 1
        /\ votes[v].result # None => Tallied(votes[v].result.counted, v)
    BY <1>1 DEF ResultsInv, ResultRows
  <2>2. CASE votes[v].result = None
    BY <1>1, <2>1, <2>2
  <2>3. CASE votes[v].result # None
    BY <1>g, <1>1, <2>1, <2>3 DEF Tallied, Grown
  <2> QED
    BY <2>2, <2>3
<1>2. CASE UNCHANGED votes
  BY <1>1, <1>2 DEF ResultRows
<1>3. ASSUME NEW r \in CreateReq, CreateCommit(r) PROVE ResultRows'
  <2>1. /\ votes'[r].result = None /\ votes'[r].version = 1
        /\ \A v \in CreateReq \ {r} : votes'[v] = votes[v]
    BY <1>3, CreateCommitRows DEF ResultsInv
  <2> QED
    BY <1>1, <2>1 DEF ResultRows
<1>4. ASSUME NEW r \in CloseReq, CloseCommit(r) PROVE ResultRows'
  <2> DEFINE v == close[r].vote
  <2>1. /\ close[r].pc = "commit" /\ close[r] \in CloseRecord /\ MayClose(close[r])
        /\ ballots' = ballots
    BY <1>4 DEF CloseCommit, CloseGo, TypeInv, TypeOK, ResultsInv, CloseInv
  <2>2. /\ v \in CreateReq /\ votes'[v].result = ResultOf(r) /\ votes'[v].version = 1 + 1
        /\ \A w \in CreateReq \ {v} : votes'[w] = votes[w]
    BY <1>4, <2>1, CloseCommitRows DEF MayClose
  <2>3. ResultOf(r) # None /\ ResultOf(r).counted = close[r].counted
    BY <2>1, NoneAssumption DEF ResultOf, Result, CloseRecord
  <2>4. Tallied(close[r].counted, v)
    BY <2>1 DEF MayClose
  <2>5. ASSUME NEW w \in CreateReq, votes'[w] # None
        PROVE  (/\ votes[w].result = None <=> votes[w].version = 1
                /\ votes[w].result # None => Tallied(votes[w].result.counted, w))'
    <3>1. CASE w = v
      BY <2>1, <2>2, <2>3, <2>4, <3>1 DEF Tallied, Stored
    <3>2. CASE w # v
      BY <1>1, <2>2, <2>5, <3>2
    <3> QED
      BY <3>1, <3>2
  <2> QED
    BY <2>5 DEF ResultRows
<1>5. CASE UNCHANGED store
  BY <1>2, <1>5 DEF store
<1>6. ASSUME NEW r \in CastReq, CastCommit(r) PROVE ResultRows'
  BY <1>2, <1>6 DEF CastCommit
<1>7. CASE UNCHANGED vars
  BY <1>2, <1>7 DEF vars
<1> QED
  BY <1>3, <1>4, <1>5, <1>6, <1>7, Writers

(* What a close may do stays true if its vote's row does not change.       *)
LEMMA MayCloseStable ==
  ASSUME Grown, NEW q, MayClose(q),
         q.pc \in {"commit", "committed", "Closed"} => votes'[q.vote] = votes[q.vote]
  PROVE  MayClose(q)'
<1>1. q.pc \in {"save", "commit", "committed", "Closed"} =>
        /\ Tallied(q.counted, q.vote)'
        /\ \A b \in q.seen : ballots'[b].vote = q.vote =>
             \E c \in q.counted : ballots'[c].unit = ballots'[b].unit
  <2> SUFFICES ASSUME q.pc \in {"save", "commit", "committed", "Closed"}
               PROVE  /\ Tallied(q.counted, q.vote)'
                      /\ \A b \in q.seen : ballots'[b].vote = q.vote =>
                           \E c \in q.counted : ballots'[c].unit = ballots'[b].unit
    OBVIOUS
  <2>1. /\ Tallied(q.counted, q.vote) /\ q.seen \subseteq Stored
        /\ \A b \in q.seen : ballots[b].vote = q.vote =>
             \E c \in q.counted : ballots[c].unit = ballots[b].unit
    BY DEF MayClose
  <2>2. \A c \in q.counted : c \in Stored
    BY <2>1 DEF Tallied
  <2> QED
    BY <2>1, <2>2, TalliedStable DEF Grown
<1>2. q.seen \subseteq Stored'
  BY DEF MayClose, Grown
<1>3. q.pc \in {"committed", "Closed"} =>
        /\ q.vote \in CreateReq /\ votes'[q.vote] # None
        /\ votes'[q.vote].result = [counted |-> q.counted, closedAt |-> q.now]
  BY DEF MayClose
<1> QED
  BY <1>1, <1>2, <1>3 DEF MayClose

(* A step of one close that writes nothing.                                *)
LEMMA MayCloseFrame ==
  ASSUME TypeInv, CloseInv, NEW r \in CloseReq, NEW q,
         close' = [close EXCEPT ![r] = q], UNCHANGED store, MayClose(q),
         q.pc = "commit" =>
           \A s \in CloseReq \ {r} : close[s].pc = "commit" => close[s].vote # q.vote
  PROVE  CloseInv'
<1>1. \A s \in CloseReq : close'[s] = IF s = r THEN q ELSE close[s]
  BY DEF TypeInv, TypeOK
<1>2. ASSUME NEW p, MayClose(p) PROVE MayClose(p)'
  BY <1>2 DEF MayClose, Tallied, Stored, store
<1>3. \A s \in CloseReq : MayClose(close'[s])
  BY <1>1 DEF CloseInv
<1>4. \A s \in CloseReq : MayClose(close[s])'
  BY <1>2, <1>3 DEF MayClose
<1>5. \A s, t \in CloseReq :
        s # t /\ close'[s].pc = "commit" /\ close'[t].pc = "commit" => close'[s].vote # close'[t].vote
  BY <1>1 DEF CloseInv
<1> QED
  BY <1>4, <1>5 DEF CloseInv

(* Reading the ballots to count: the active ones are one per unit, and one *)
(* stands for every unit that has voted, so the calculation cannot fail.   *)
LEMMA GetBallotsCounts ==
  ASSUME TypeInv, HistoryInv, EntitledInv, NEW v \in CreateReq
  PROVE  /\ Tallied(AllActiveFor(v), v)
         /\ Calculable(AllActiveFor(v), votes[v].community)
         /\ \A b \in Stored : ballots[b].vote = v =>
              \E c \in AllActiveFor(v) : ballots[c].unit = ballots[b].unit
<1>1. \A b1, b2 \in AllActiveFor(v) : ballots[b1].unit = ballots[b2].unit => b1 = b2
  BY DEF AllActiveFor, HistoryInv, AtMostOneActive, SamePair
<1>2. \A b \in AllActiveFor(v) : b \in Stored /\ ballots[b].vote = v
  BY DEF AllActiveFor, Active
<1>3. \A b \in AllActiveFor(v) : CommunityOf[ballots[b].unit] = votes[v].community
  BY <1>2 DEF EntitledInv, BallotsAreEntitled
<1>4. ASSUME NEW b \in Stored, ballots[b].vote = v
      PROVE  \E c \in AllActiveFor(v) : ballots[c].unit = ballots[b].unit
  BY <1>4 DEF HistoryInv, VotedUnitsKeepABallot, SamePair, AllActiveFor
<1> QED
  BY <1>1, <1>2, <1>3, <1>4 DEF Tallied, Calculable

(* Committing a close: no other close is at its commit for the vote, and   *)
(* none has committed, as the vote had no result.                          *)
LEMMA CloseCommitInv ==
  ASSUME TypeInv, HistoryInv, ResultsInv, NEW r \in CloseReq, CloseCommit(r), Grown
  PROVE  CloseInv'
<1> DEFINE q == [close[r] EXCEPT !.pc = "committed"]
<1>1. /\ close[r].pc = "commit" /\ close[r] \in CloseRecord /\ MayClose(close[r])
      /\ close' = [close EXCEPT ![r] = q]
  BY DEF CloseCommit, CloseGo, TypeInv, TypeOK, ResultsInv, CloseInv
<1>2. /\ q.pc = "committed" /\ q.vote = close[r].vote /\ q.counted = close[r].counted
      /\ q.seen = close[r].seen /\ q.now = close[r].now
  BY <1>1 DEF CloseRecord
<1> HIDE DEF q
<1>3. \A s \in CloseReq : close'[s] = IF s = r THEN q ELSE close[s]
  BY <1>1 DEF TypeInv, TypeOK
<1>4. LET v == close[r].vote IN
      /\ v \in CreateReq /\ votes[v] \in VoteRow /\ votes'[v] \in VoteRow
      /\ votes'[v].result = ResultOf(r)
      /\ \A w \in CreateReq \ {v} : votes'[w] = votes[w]
      /\ ballots' = ballots
  BY CloseCommitRows
<1>5. votes[close[r].vote].result = None
  BY <1>1, <1>4, NoneAssumption DEF MayClose, ResultsInv, ResultRows
<1>6. MayClose(close[r])'
  <2>1. /\ close[r].seen \subseteq Stored' /\ Tallied(close[r].counted, close[r].vote)
        /\ \A b \in close[r].seen : ballots[b].vote = close[r].vote =>
             \E c \in close[r].counted : ballots[c].unit = ballots[b].unit
    BY <1>1, <1>4 DEF MayClose, Stored
  <2>2. votes'[close[r].vote] # None
    BY <1>4, NoneAssumption
  <2> QED
    BY <1>2, <1>3, <1>4, <2>1, <2>2 DEF MayClose, Tallied, Stored, ResultOf
<1>7. ASSUME NEW s \in CloseReq \ {r} PROVE MayClose(close[s])'
  <2>1. MayClose(close[s]) /\ close[s] \in CloseRecord /\ CloseKnows(close[s])
    BY DEF ResultsInv, CloseInv, TypeInv, TypeOK
  <2>2. close[s].pc \in {"commit", "committed", "Closed"} => votes'[close[s].vote] = votes[close[s].vote]
    <3>1. CASE close[s].pc = "commit"
      BY <1>1, <1>4, <2>1, <3>1 DEF ResultsInv, CloseInv, CloseKnows, CloseSteps
    <3>2. CASE close[s].pc \in {"committed", "Closed"}
      <4>1. /\ close[s].vote \in CreateReq
            /\ votes[close[s].vote].result = [counted |-> close[s].counted, closedAt |-> close[s].now]
        BY <2>1, <3>2 DEF MayClose
      <4>2. [counted |-> close[s].counted, closedAt |-> close[s].now] \in Result
        BY <2>1 DEF Result, CloseRecord
      <4>3. close[s].vote # close[r].vote
        BY <1>5, <4>1, <4>2, NoneAssumption
      <4> QED
        BY <1>4, <4>1, <4>3
    <3> QED
      BY <3>1, <3>2
  <2>3. ASSUME NEW p, p = close[s] PROVE MayClose(p)'
    BY <2>1, <2>2, <2>3, MayCloseStable
  <2> QED
    BY <1>3, <2>3 DEF MayClose
<1>8. \A s, t \in CloseReq :
        s # t /\ close'[s].pc = "commit" /\ close'[t].pc = "commit" => close'[s].vote # close'[t].vote
  BY <1>2, <1>3 DEF ResultsInv, CloseInv
<1> QED
  BY <1>6, <1>7, <1>8 DEF CloseInv

(* The other steps of a close.                                             *)
LEMMA MayCloseStep ==
  ASSUME TypeInv, HistoryInv, ResultsInv, NEW r \in CloseReq,
         CloseProgress(r) \/ CloseLost(r), ~CloseCommit(r)
  PROVE  CloseInv'
<1>q. /\ close[r] \in CloseRecord /\ CloseKnows(close[r]) /\ MayClose(close[r])
      /\ CloseInv /\ ResultRows /\ EntitledInv
  BY DEF TypeInv, TypeOK, ResultsInv, CloseInv
<1>e. ASSUME NEW e \in CloseEnds \ {"Closed", "InternalError"}, CloseEnd(r, e), UNCHANGED store
      PROVE  CloseInv'
  <2> DEFINE q == [NoClose EXCEPT !.pc = e]
  <2>1. close' = [close EXCEPT ![r] = q] /\ q.pc = e /\ q.seen = {}
    BY <1>e DEF CloseEnd, NoClose
  <2>2. MayClose(q) /\ q.pc # "commit"
    BY <2>1 DEF MayClose, CloseEnds
  <2> HIDE DEF q
  <2> QED
    BY <1>e, <1>q, <2>1, <2>2, MayCloseFrame
<1>m. ASSUME NEW to \in CloseSteps \cup {"Closed"}, CloseGo(r, close[r].pc, to), UNCHANGED store,
             MayClose([close[r] EXCEPT !.pc = to]),
             to = "commit" => \A s \in CloseReq \ {r} : ~VoteRowLocked(s, close[r].vote)
      PROVE  CloseInv'
  <2> DEFINE q == [close[r] EXCEPT !.pc = to]
  <2>1. /\ close' = [close EXCEPT ![r] = q] /\ MayClose(q)
        /\ q.pc = to /\ q.vote = close[r].vote
    BY <1>m, <1>q DEF CloseGo, CloseRecord
  <2> HIDE DEF q
  <2> QED
    BY <1>m, <1>q, <2>1, MayCloseFrame DEF VoteRowLocked
<1>1. CASE CloseGetVote(r)
  <2> DEFINE row == votes[close[r].vote]
             q == [close[r] EXCEPT !.pc = "getAccount", !.version = row.version]
  <2>1. close[r].pc = "getVote" /\ UNCHANGED store
    BY <1>1 DEF CloseGetVote
  <2>2. \/ row # None /\ row.result = None /\ close' = [close EXCEPT ![r] = q]
        \/ \E e \in CloseEnds \ {"Closed", "InternalError"} : CloseEnd(r, e)
    BY <1>1 DEF CloseGetVote, CloseEnds
  <2>3. ASSUME row # None, row.result = None PROVE MayClose(q) /\ q.pc # "commit"
    <3>1. row.version = 1
      BY <1>q, <2>1, <2>3 DEF CloseKnows, CloseSteps, ResultRows
    <3> QED
      BY <1>q, <2>1, <3>1 DEF MayClose, CloseRecord
  <2> HIDE DEF q
  <2> QED
    BY <1>q, <1>e, <2>1, <2>2, <2>3, MayCloseFrame
<1>2. CASE CloseGetAccount(r)
  <2> DEFINE q == [close[r] EXCEPT !.pc = "getCommunity", !.owner = link[close[r].account]]
  <2>1. close[r].pc = "getAccount" /\ UNCHANGED store
    BY <1>2 DEF CloseGetAccount
  <2>2. close' = [close EXCEPT ![r] = q] \/ CloseEnd(r, "NotAuthorized")
    BY <1>2 DEF CloseGetAccount
  <2>3. MayClose(q) /\ q.pc # "commit"
    BY <1>q, <2>1 DEF MayClose, CloseRecord
  <2> HIDE DEF q
  <2> QED
    BY <1>q, <1>e, <2>1, <2>2, <2>3, MayCloseFrame DEF CloseEnds
<1>3. CASE CloseGetCommunity(r)
  <2>1. close[r].pc = "getCommunity" /\ UNCHANGED store
    BY <1>3 DEF CloseGetCommunity
  <2>2. MayClose([close[r] EXCEPT !.pc = "getBallots"])
    BY <1>q, <2>1 DEF MayClose, CloseRecord
  <2>3. CloseGo(r, "getCommunity", "getBallots") \/ CloseEnd(r, "NotAuthorized")
    BY <1>3 DEF CloseGetCommunity
  <2> QED
    BY <1>e, <1>m, <2>1, <2>2, <2>3 DEF CloseEnds, CloseSteps
<1>4. CASE CloseGetBallots(r)
  <2> DEFINE v == close[r].vote
             q == [close[r] EXCEPT !.pc = "save", !.counted = AllActiveFor(v)]
  <2>1. close[r].pc = "getBallots" /\ UNCHANGED store /\ v \in CreateReq
    BY <1>4, <1>q DEF CloseGetBallots, CloseKnows, CloseSteps
  <2>2. /\ Tallied(AllActiveFor(v), v) /\ Calculable(AllActiveFor(v), votes[v].community)
        /\ \A b \in Stored : ballots[b].vote = v =>
             \E c \in AllActiveFor(v) : ballots[c].unit = ballots[b].unit
    BY <1>q, <2>1, GetBallotsCounts
  <2>3. close' = [close EXCEPT ![r] = q]
    BY <1>4, <2>2 DEF CloseGetBallots
  <2>4. /\ q.pc = "save" /\ q.counted = AllActiveFor(v) /\ q.vote = v
        /\ q.seen = close[r].seen /\ q.version = close[r].version
    BY <1>q DEF CloseRecord
  <2> HIDE DEF q
  <2>5. MayClose(q)
    BY <1>q, <2>1, <2>2, <2>4 DEF MayClose
  <2> QED
    BY <1>q, <2>1, <2>3, <2>4, <2>5, MayCloseFrame
<1>5. CASE CloseSave(r)
  <2>1. /\ close[r].pc = "save" /\ UNCHANGED store
        /\ \A s \in CloseReq \ {r} : ~VoteRowLocked(s, close[r].vote)
    BY <1>5 DEF CloseSave
  <2>2. CASE VersionMatches(r)
    <3>1. MayClose([close[r] EXCEPT !.pc = "commit"])
      BY <1>q, <2>1, <2>2 DEF MayClose, CloseRecord, VersionMatches
    <3>2. CloseGo(r, "save", "commit")
      BY <1>5, <2>2 DEF CloseSave
    <3> QED
      BY <1>m, <2>1, <3>1, <3>2 DEF CloseSteps
  <2>3. CASE ~VersionMatches(r)
    BY <1>5, <1>e, <2>1, <2>3 DEF CloseSave, CloseEnds
  <2> QED
    BY <2>2, <2>3
<1>6. CASE CloseRespond(r)
  <2>1. close[r].pc = "committed" /\ UNCHANGED store /\ CloseGo(r, "committed", "Closed")
    BY <1>6 DEF CloseRespond, CloseGo
  <2>2. MayClose([close[r] EXCEPT !.pc = "Closed"])
    BY <1>q, <2>1 DEF MayClose, CloseRecord
  <2> QED
    BY <1>m, <2>1, <2>2
<1>7. CASE CloseLost(r)
  BY <1>7, <1>e DEF CloseLost, CloseEnds
<1> QED
  BY <1>1, <1>2, <1>3, <1>4, <1>5, <1>6, <1>7 DEF CloseProgress

(* What closes may do, whatever step is taken.                             *)
LEMMA CloseStep ==
  ASSUME TypeInv, HistoryInv, ResultsInv, [Next]_vars
  PROVE  CloseInv'
<1>g. Grown
  BY Growth DEF ResultsInv
<1>1. CASE UNCHANGED close /\ \A v \in CreateReq : votes[v] # None => votes'[v] = votes[v]
  <2>1. ASSUME NEW s \in CloseReq, NEW p, p = close[s] PROVE MayClose(p)'
    <3>1. MayClose(p) /\ CloseKnows(p)
      BY <2>1 DEF ResultsInv, CloseInv, TypeInv
    <3>2. p.pc \in {"commit", "committed", "Closed"} => votes'[p.vote] = votes[p.vote]
      BY <1>1, <3>1 DEF MayClose, CloseKnows, CloseSteps
    <3> QED
      BY <1>g, <3>1, <3>2, MayCloseStable
  <2>2. \A s \in CloseReq : MayClose(close[s])'
    BY <1>1, <2>1 DEF MayClose
  <2> QED
    BY <1>1, <2>2 DEF CloseInv, ResultsInv
<1>2. ASSUME NEW r \in CreateReq, CreateCommit(r) PROVE CloseInv'
  BY <1>1, <1>2, CreateCommitRows DEF CreateCommit, ResultsInv
<1>3. ASSUME NEW r \in CloseReq, CloseProgress(r) \/ CloseLost(r) PROVE CloseInv'
  BY <1>g, <1>3, CloseCommitInv, MayCloseStep
<1>4. ASSUME NEW r \in CloseReq, NEW a \in Account, NEW v \in CreateReq, CloseArrive(r, a, v)
      PROVE  CloseInv'
  <2> DEFINE q == [pc |-> "getVote", account |-> a, vote |-> v, now |-> clock,
                   owner |-> None, version |-> 0, counted |-> {}, seen |-> Stored]
  <2>1. close' = [close EXCEPT ![r] = q] /\ UNCHANGED store
    BY <1>4 DEF CloseArrive
  <2>2. MayClose(q) /\ q.pc # "commit"
    BY DEF MayClose
  <2> HIDE DEF q
  <2> QED
    BY <2>1, <2>2, MayCloseFrame DEF ResultsInv
<1>5. CASE Surroundings
  BY <1>1, <1>5 DEF Surroundings, Tick, LinkOwner, AssignOwner, store
<1>6. CASE Arrivals
  BY <1>1, <1>4, <1>6 DEF Arrivals, CreateArrive, CastArrive, store
<1>7. CASE Losses
  BY <1>1, <1>3, <1>7 DEF Losses, CreateLost, CastLost, store
<1>8. ASSUME NEW r \in CreateReq, CreateProgress(r) PROVE CloseInv'
  BY <1>1, <1>2, <1>8 DEF CreateProgress, CreateGetAccount, CreateGetCommunity, CreateSave,
                          CreateRespond, store
<1>9. ASSUME NEW r \in CastReq, CastProgress(r) PROVE CloseInv'
  BY <1>1, <1>9 DEF CastProgress, CastGetVote, CastGetAccount, CastGetCommunity,
                    CastGetActive, CastSaveExisting, CastSaveNew, CastCommit, CastRespond, store
<1>10. CASE UNCHANGED vars
  BY <1>1, <1>10 DEF vars
<1> QED
  BY <1>3, <1>5, <1>6, <1>7, <1>8, <1>9, <1>10 DEF Next, Progress

(* Every step keeps the invariant.                                         *)
LEMMA NextResultsInv ==
  ASSUME TypeInv, HistoryInv, ResultsInv, [Next]_vars
  PROVE  ResultsInv'
BY NewVotesStep, EntitledStep, OneOwnerStep, ResultRowsStep, CloseStep DEF ResultsInv

(* In every reachable state.                                               *)
LEMMA Reachable == Spec => [](TypeInv /\ HistoryInv /\ ResultsInv)
<1>1. TypeInv /\ HistoryInv /\ ResultsInv /\ [Next]_vars => ResultsInv'
  BY NextResultsInv
<1> QED
  BY InitResultsInv, HistoryReachable, <1>1, PTL DEF Spec

(* A stored ballot was dispatched no later than the end of its vote, for a *)
(* unit of the vote's community, by an owner of the unit.                  *)
THEOREM Entitlement == Spec => []BallotsAreEntitled
<1>1. ResultsInv => BallotsAreEntitled
  BY DEF ResultsInv, EntitledInv
<1> QED
  BY Reachable, <1>1, PTL

(* The calculation of a result never meets two active ballots of a unit,   *)
(* nor one of another community: its two unhandled errors do not happen.   *)
THEOREM Calculability == Spec => []ClosingIsCalculable
<1>1. ResultsInv => ClosingIsCalculable
  BY DEF ResultsInv, CloseInv, MayClose, ClosingIsCalculable
<1> QED
  BY Reachable, <1>1, PTL

(* The answer of a successful close is the result that the vote keeps.     *)
THEOREM ClosedAnswers == Spec => []ClosedAnswerIsTheRecord
<1>1. ResultsInv => ClosedAnswerIsTheRecord
  BY DEF ResultsInv, CloseInv, MayClose, ClosedAnswerIsTheRecord, ResultOf
<1> QED
  BY Reachable, <1>1, PTL

(* A result counts one ballot of the vote for every unit that had voted    *)
(* when its close was dispatched.                                          *)
THEOREM CountedUnits == Spec => []ResultsCountTheUnitsThatVoted
<1>1. ResultsInv => ResultsCountTheUnitsThatVoted
  BY DEF ResultsInv, CloseInv, MayClose, Tallied, ResultsCountTheUnitsThatVoted
<1> QED
  BY Reachable, <1>1, PTL

(* A row that has a result is not written again: a close at its commit     *)
(* writes a first version, which has none.                                 *)
LEMMA StepKeepsResults ==
  ASSUME TypeInv, ResultsInv, [Next]_vars, NEW v \in CreateReq,
         votes[v] # None, votes[v].result # None
  PROVE  votes'[v] = votes[v]
<1>1. ASSUME NEW r \in CreateReq, CreateCommit(r) PROVE votes'[v] = votes[v]
  BY <1>1, CreateCommitRows DEF ResultsInv
<1>2. ASSUME NEW r \in CloseReq, CloseCommit(r) PROVE votes'[v] = votes[v]
  <2>1. close[r].pc = "commit" /\ MayClose(close[r])
    BY <1>2 DEF CloseCommit, CloseGo, ResultsInv, CloseInv
  <2>2. close[r].vote # v
    BY <2>1 DEF MayClose, ResultsInv, ResultRows
  <2> QED
    BY <1>2, <2>2, CloseCommitRows
<1> QED
  BY <1>1, <1>2, Writers DEF CastCommit, vars, store

(* A vote is closed once: its result is final.                             *)
THEOREM FinalResults == Spec => ResultsAreFinal
<1>1. TypeInv /\ ResultsInv /\ [Next]_vars =>
        [\A v \in CreateReq :
           (votes[v] # None /\ votes[v].result # None) => votes'[v] = votes[v]]_vars
  BY StepKeepsResults
<1> QED
  BY Reachable, <1>1, PTL DEF Spec, ResultsAreFinal

-----------------------------------------------------------------------------
(* The register of the votes *)

(* The ballot of a unit among ballots that have one for each unit; f is    *)
(* ballots, before a step or after it.                                     *)
LEMMA TheOneOfTheUnit ==
  ASSUME NEW f, NEW bs, NEW c \in bs,
         \A b \in bs : f[b].unit = f[c].unit => b = c
  PROVE  (CHOOSE b \in bs : f[b].unit = f[c].unit) = c
OBVIOUS

(* What stands for a unit is what its active ballot says.                  *)
LEMMA Stands ==
  ASSUME AtMostOneActive, NEW v \in CreateReq, NEW u \in Unit
  PROVE  /\ \A b \in Active : SamePair(b, v, u) => StandingChoices[v][u] = ChoiceOf(b)
         /\ (\A b \in Active : ~SamePair(b, v, u)) => StandingChoices[v][u] = None
<1>1. StandingChoices[v][u] = IF u \in UnitsOf(AllActiveFor(v)) THEN ChoiceIn(AllActiveFor(v), u)
                              ELSE None
  BY DEF StandingChoices
<1>2. ASSUME NEW b \in Active, SamePair(b, v, u) PROVE StandingChoices[v][u] = ChoiceOf(b)
  <2>1. b \in AllActiveFor(v) /\ ballots[b].unit = u
    BY <1>2 DEF AllActiveFor, SamePair
  <2>2. \A a \in AllActiveFor(v) : ballots[a].unit = ballots[b].unit => a = b
    BY <1>2, <2>1 DEF AllActiveFor, SamePair, AtMostOneActive
  <2>3. (CHOOSE a \in AllActiveFor(v) : ballots[a].unit = ballots[b].unit) = b
    BY <2>1, <2>2, TheOneOfTheUnit
  <2> QED
    BY <1>1, <2>1, <2>3 DEF ChoiceIn, UnitsOf
<1>3. (\A b \in Active : ~SamePair(b, v, u)) => StandingChoices[v][u] = None
  BY <1>1 DEF UnitsOf, AllActiveFor, SamePair
<1> QED
  BY <1>2, <1>3

(* The same after a step.                                                  *)
LEMMA StandsNext ==
  ASSUME AtMostOneActive', NEW v \in CreateReq, NEW u \in Unit
  PROVE  /\ \A b \in Active' : SamePair(b, v, u)' => StandingChoices'[v][u] = ChoiceOf(b)'
         /\ (\A b \in Active' : ~SamePair(b, v, u)') => StandingChoices'[v][u] = None
<1>1. StandingChoices'[v][u] = (IF u \in UnitsOf(AllActiveFor(v)) THEN ChoiceIn(AllActiveFor(v), u)
                               ELSE None)'
  BY DEF StandingChoices
<1>2. ASSUME NEW b \in Active', SamePair(b, v, u)' PROVE StandingChoices'[v][u] = ChoiceOf(b)'
  <2>1. b \in AllActiveFor(v)' /\ ballots'[b].unit = u
    BY <1>2 DEF AllActiveFor, SamePair
  <2>2. \A a \in AllActiveFor(v)' : ballots'[a].unit = ballots'[b].unit => a = b
    BY <1>2, <2>1 DEF AllActiveFor, SamePair, AtMostOneActive
  <2>3. (CHOOSE a \in AllActiveFor(v)' : ballots'[a].unit = ballots'[b].unit) = b
    BY <2>1, <2>2, TheOneOfTheUnit
  <2> QED
    BY <1>1, <2>1, <2>3 DEF ChoiceIn, UnitsOf
<1>3. (\A b \in Active' : ~SamePair(b, v, u)') => StandingChoices'[v][u] = None
  BY <1>1 DEF UnitsOf, AllActiveFor, SamePair
<1> QED
  BY <1>2, <1>3

(* A tally says of a unit what its one ballot says.                        *)
LEMMA TallySays ==
  ASSUME NEW bs, NEW v, Tallied(bs, v), NEW c \in bs
  PROVE  ChoiceIn(bs, ballots[c].unit) = ChoiceOf(c)
<1>1. \A b \in bs : ballots[b].unit = ballots[c].unit => b = c
  BY DEF Tallied
<1>2. (CHOOSE b \in bs : ballots[b].unit = ballots[c].unit) = c
  BY <1>1, TheOneOfTheUnit
<1> QED
  BY <1>2 DEF ChoiceIn

(* Stored ballots say the same after a step, so a tally does.              *)
LEMMA TallyStays ==
  ASSUME Grown, NEW bs, NEW v, Tallied(bs, v)
  PROVE  /\ UnitsOf(bs)' = UnitsOf(bs)
         /\ \A u \in UnitsOf(bs) : ChoiceIn(bs, u)' = ChoiceIn(bs, u)
<1>1. \A b \in bs : ballots'[b].unit = ballots[b].unit /\ ChoiceOf(b)' = ChoiceOf(b)
  BY DEF Tallied, Grown, ChoiceOf
<1>2. UnitsOf(bs)' = UnitsOf(bs)
  BY <1>1 DEF UnitsOf
<1>3. ASSUME NEW u \in UnitsOf(bs) PROVE ChoiceIn(bs, u)' = ChoiceIn(bs, u)
  <2>1. PICK c \in bs : u = ballots[c].unit
    BY DEF UnitsOf
  <2>2. ChoiceIn(bs, u) = ChoiceOf(c)
    BY <2>1, TallySays
  <2>3. \A b \in bs : ballots'[b].unit = ballots'[c].unit => b = c
    BY <1>1 DEF Tallied
  <2>4. (CHOOSE b \in bs : ballots'[b].unit = ballots'[c].unit) = c
    BY <2>3, TheOneOfTheUnit
  <2> QED
    BY <1>1, <2>1, <2>2, <2>4 DEF ChoiceIn
<1> QED
  BY <1>2, <1>3

(* A result whose row is not written says the same after a step.           *)
LEMMA ResultStays ==
  ASSUME Grown, ResultRows, NEW v \in CreateReq, votes'[v] = votes[v]
  PROVE  CountedChoices'[v] = CountedChoices[v]
<1>1. CASE votes[v] = None \/ votes[v].result = None
  BY <1>1 DEF CountedChoices
<1>2. CASE votes[v] # None /\ votes[v].result # None
  <2> DEFINE bs == votes[v].result.counted
             before == [u \in UnitsOf(bs) |-> ChoiceIn(bs, u)]
  <2>1. CountedChoices[v] = before
    BY <1>2 DEF CountedChoices
  <2>2. ASSUME NEW cs, cs = bs
        PROVE  [u \in UnitsOf(cs)' |-> ChoiceIn(cs, u)'] = before
    <3>1. Tallied(cs, v)
      BY <1>2, <2>2 DEF ResultRows
    <3>2. /\ UnitsOf(cs)' = UnitsOf(cs)
          /\ \A u \in UnitsOf(cs) : ChoiceIn(cs, u)' = ChoiceIn(cs, u)
      BY <3>1, TallyStays
    <3> QED
      BY <2>2, <3>2
  <2>3. CountedChoices'[v] = [u \in UnitsOf(bs)' |-> ChoiceIn(bs, u)']
    BY <1>2 DEF CountedChoices
  <2>4. bs' = bs
    OBVIOUS
  <2> QED
    BY ZenonT(30), <2>1, <2>2, <2>3, <2>4 DEF UnitsOf, ChoiceIn, ChoiceOf
<1> QED
  BY <1>1, <1>2

(* The commit of a create request opens its vote.                          *)
LEMMA CreateOpens ==
  ASSUME TypeInv, HistoryInv, ResultsInv, NEW r \in CreateReq, CreateCommit(r), Grown
  PROVE  Register!Open(r)
<1>1. /\ votes[r] = None /\ votes'[r] # None /\ votes'[r].result = None
      /\ \A v \in CreateReq \ {r} : votes'[v] = votes[v]
      /\ ballots' = ballots
  BY CreateCommitRows, NoneAssumption DEF ResultsInv
<1>2. r \notin OpenedVotes /\ OpenedVotes' = OpenedVotes \cup {r}
  BY <1>1 DEF OpenedVotes
<1>3. UNCHANGED StandingChoices
  BY <1>1 DEF StandingChoices, UnitsOf, ChoiceIn, ChoiceOf, AllActiveFor, Active, Stored
<1>4. CountedChoices'[r] = CountedChoices[r]
  BY <1>1 DEF CountedChoices
<1>5. \A v \in CreateReq : CountedChoices'[v] = CountedChoices[v]
  BY <1>1, <1>4, ResultStays DEF ResultsInv
<1>6. UNCHANGED CountedChoices
  BY <1>5 DEF CountedChoices
<1> QED
  BY <1>2, <1>3, <1>6 DEF Register!Open

(* The commit of a cast makes its owner stand for the unit: the first to   *)
(* vote for it, or the one who stands already.                             *)
LEMMA CastStands ==
  ASSUME TypeInv, HistoryInv, ResultsInv, NEW r \in CastReq, CastCommit(r), Grown,
         HistoryInv'
  PROVE  \E v \in CreateReq, u \in Unit, o \in Owner, op \in Option :
           Register!StandFor(v, u, o, op)
<1> DEFINE v == cast[r].vote  u == cast[r].unit  o == cast[r].owner  op == cast[r].option
<1>1. /\ cast[r].pc = "commit" /\ CastKnows(cast[r]) /\ MayCast(cast[r])
      /\ Fits(cast[r]) /\ Pending(cast[r]) /\ votes' = votes
  BY DEF CastCommit, CastGo, TypeInv, ResultsInv, EntitledInv, HistoryInv, RequestsInv
<1>2. v \in CreateReq /\ u \in Unit /\ o \in Owner /\ op \in Option
  BY <1>1 DEF CastKnows, CastSteps
<1>3. /\ Active' = (Active \ {cast[r].existing}) \cup {r} /\ ballots'[r] = NewBallot(r)
      /\ r \notin Stored
  BY CommitRows
<1>4. \A b \in Stored : ChoiceOf(b)' = ChoiceOf(b) /\ \A w, x : SamePair(b, w, x)' <=> SamePair(b, w, x)
  BY DEF Grown, ChoiceOf, SamePair
<1>5. /\ ballots'[r].vote = v /\ ballots'[r].unit = u
      /\ ChoiceOf(r)' = [owner |-> o, option |-> op]
  BY <1>3 DEF NewBallot, ChoiceOf
<1>6. StandingChoices[v][u] # None => StandingChoices[v][u].owner = o
  <2>1. CASE \A b \in Active : ~SamePair(b, v, u)
    BY <1>2, <2>1, Stands DEF HistoryInv
  <2>2. ASSUME NEW b \in Active, SamePair(b, v, u)
        PROVE  StandingChoices[v][u].owner = o
    <3>1. b = cast[r].existing /\ b # None
      BY <1>1, <2>2, NoneAssumption DEF Pending, Active, Stored
    <3>2. ballots[b].owner = o
      BY <1>1, <3>1 DEF Fits
    <3>3. StandingChoices[v][u] = ChoiceOf(b)
      BY <1>2, <2>2, Stands DEF HistoryInv
    <3> QED
      BY <3>2, <3>3 DEF ChoiceOf
  <2> QED
    BY <2>1, <2>2
<1>7. StandingChoices'[v][u] = [owner |-> o, option |-> op]
  <2>1. \A w \in CreateReq, x \in Unit, b \in Active' :
          SamePair(b, w, x)' => StandingChoices'[w][x] = ChoiceOf(b)'
    BY StandsNext DEF HistoryInv
  <2> QED
    BY <1>2, <1>3, <1>5, <2>1 DEF SamePair
<1>8. ASSUME NEW w \in CreateReq, NEW x \in Unit, w # v \/ x # u
      PROVE  StandingChoices'[w][x] = StandingChoices[w][x]
  <2>1. ~SamePair(r, w, x)'
    BY <1>3, <1>8 DEF NewBallot, SamePair
  <2>2. cast[r].existing \in Active => ~SamePair(cast[r].existing, w, x)
    BY <1>1, <1>8, NoneAssumption DEF Fits, SamePair, Active, Stored
  <2>3. Active \subseteq Stored
    BY DEF Active
  <2>4. \A b \in CastReq : (b \in Active' /\ SamePair(b, w, x)') <=> (b \in Active /\ SamePair(b, w, x))
    BY <1>3, <1>4, <2>1, <2>2, <2>3
  <2>5. Active \subseteq CastReq /\ Active' \subseteq CastReq
    BY <1>3 DEF Active, Stored
  <2>6. CASE \E b \in Active : SamePair(b, w, x)
    <3>1. PICK b \in Active : SamePair(b, w, x)
      BY <2>6
    <3>2. StandingChoices[w][x] = ChoiceOf(b)
      BY <3>1, Stands DEF HistoryInv
    <3>3. StandingChoices'[w][x] = ChoiceOf(b)'
      BY <2>4, <2>5, <3>1, StandsNext DEF HistoryInv
    <3> QED
      BY <1>4, <2>3, <3>1, <3>2, <3>3
  <2>7. CASE \A b \in Active : ~SamePair(b, w, x)
    <3>1. StandingChoices[w][x] = None
      BY <2>7, Stands DEF HistoryInv
    <3>2. StandingChoices'[w][x] = None
      BY <2>4, <2>5, <2>7, StandsNext DEF HistoryInv
    <3> QED
      BY <3>1, <3>2
  <2> QED
    BY <2>6, <2>7
<1>9. StandingChoices' = [StandingChoices EXCEPT ![v][u] = [owner |-> o, option |-> op]]
  <2>1. /\ \A w \in CreateReq : StandingChoices[w] = [x \in Unit |-> StandingChoices[w][x]]
        /\ \A w \in CreateReq : StandingChoices'[w] = [x \in Unit |-> StandingChoices'[w][x]]
        /\ StandingChoices = [w \in CreateReq |-> StandingChoices[w]]
        /\ StandingChoices' = [w \in CreateReq |-> StandingChoices'[w]]
    BY DEF StandingChoices
  <2> QED
    BY SMTT(30), <1>2, <1>7, <1>8, <2>1
<1>10. v \in OpenedVotes /\ UNCHANGED OpenedVotes
  BY <1>1, <1>2 DEF OpenedVotes, MayCast, CastSteps
<1>11. UNCHANGED CountedChoices
  <2>1. \A w \in CreateReq : CountedChoices'[w] = CountedChoices[w]
    BY <1>1, ResultStays DEF ResultsInv
  <2> QED
    BY <2>1 DEF CountedChoices
<1>12. Register!StandFor(v, u, o, op)
  BY <1>6, <1>9, <1>10, <1>11 DEF Register!StandFor
<1> QED
  BY <1>2, <1>12

(* The commit of a close enters choices of those who stand, once.          *)
LEMMA CloseEnters ==
  ASSUME TypeInv, HistoryInv, ResultsInv, NEW r \in CloseReq, CloseCommit(r), Grown
  PROVE  \E v \in CreateReq, s \in Register!Tallies : Register!CloseWith(v, s)
<1> DEFINE v == close[r].vote
           bs == close[r].counted
           s == [u \in UnitsOf(bs) |-> ChoiceIn(bs, u)]
<1>1. close[r].pc = "commit" /\ MayClose(close[r]) /\ close[r] \in CloseRecord
  BY DEF CloseCommit, CloseGo, ResultsInv, CloseInv, TypeInv, TypeOK
<1>2. /\ v \in CreateReq /\ votes[v] \in VoteRow /\ votes'[v] \in VoteRow
      /\ votes'[v].result = ResultOf(r) /\ ballots' = ballots
      /\ \A w \in CreateReq \ {v} : votes'[w] = votes[w]
  BY CloseCommitRows
<1>3. votes[v] # None /\ votes'[v] # None /\ votes[v].result = None
  BY <1>1, <1>2, NoneAssumption DEF MayClose, ResultsInv, ResultRows
<1>4. ResultOf(r) # None /\ ResultOf(r).counted = bs /\ Tallied(bs, v)
  BY <1>1, NoneAssumption DEF ResultOf, Result, CloseRecord, MayClose
<1>5. \A c \in bs : ballots[c] \in BallotRow /\ c \in Stored /\ ballots[c].vote = v
                    /\ ChoiceIn(bs, ballots[c].unit) = ChoiceOf(c)
  BY <1>4, TallySays DEF Tallied, Stored, TypeInv, TypeOK
<1>6. s \in Register!Tallies
  <2>1. \A c \in bs : ballots[c].unit \in Unit /\ ChoiceOf(c) \in Register!Choice
    BY <1>5 DEF BallotRow, ChoiceOf, Register!Choice
  <2>2. UnitsOf(bs) \subseteq Unit /\ \A u \in UnitsOf(bs) : ChoiceIn(bs, u) \in Register!Choice
    BY <1>5, <2>1 DEF UnitsOf
  <2>3. s \in [UnitsOf(bs) -> Register!Choice]
    BY <2>2
  <2> QED
    BY <2>2, <2>3 DEF Register!Tallies
<1>7. Register!Counts(s, v)
  <2>1. ASSUME NEW u \in UnitsOf(bs)
        PROVE  StandingChoices[v][u] # None /\ s[u].owner = StandingChoices[v][u].owner
    <3>1. PICK c \in bs : u = ballots[c].unit
      BY DEF UnitsOf
    <3>2. PICK a \in Active : SamePair(a, v, u)
      BY <1>5, <3>1 DEF HistoryInv, VotedUnitsKeepABallot
    <3>3. a \in Stored /\ ballots[a] \in BallotRow /\ u \in Unit
      BY <1>5, <3>1, <3>2 DEF Active, Stored, TypeInv, TypeOK, BallotRow
    <3>4. StandingChoices[v][u] = ChoiceOf(a)
      BY <1>2, <3>2, <3>3, Stands DEF HistoryInv
    <3>5. ChoiceOf(a) # None
      BY <3>3, ChoiceAssumption DEF ChoiceOf, BallotRow
    <3>6. ballots[c].owner = ballots[a].owner
      BY <1>5, <3>1, <3>2, <3>3 DEF ResultsInv, OneOwner, SamePair
    <3> QED
      <4>1. s[u] = ChoiceIn(bs, u)
        OBVIOUS
      <4>2. s[u] = ChoiceOf(c)
        BY <1>5, <3>1, <4>1
      <4> HIDE DEF s
      <4> QED
        BY <3>4, <3>5, <3>6, <4>2 DEF ChoiceOf
  <2>2. DOMAIN s = UnitsOf(bs)
    OBVIOUS
  <2> HIDE DEF s
  <2> QED
    BY <2>1, <2>2 DEF Register!Counts
<1>8. v \in OpenedVotes /\ UNCHANGED OpenedVotes
  BY <1>2, <1>3 DEF OpenedVotes
<1>9. UNCHANGED StandingChoices
  BY <1>2 DEF StandingChoices, UnitsOf, ChoiceIn, ChoiceOf, AllActiveFor, Active, Stored
<1>10. CountedChoices[v] = None
  BY <1>2, <1>3 DEF CountedChoices
<1>11. CountedChoices' = [CountedChoices EXCEPT ![v] = s]
  <2>1. CountedChoices'[v] = s
    <3>1. ASSUME NEW w \in CreateReq, NEW cs, votes'[w] # None, votes'[w].result # None,
                 votes'[w].result.counted = cs
          PROVE  CountedChoices'[w] = [u \in UnitsOf(cs) |-> ChoiceIn(cs, u)]
      <4>1. CountedChoices'[w] = [u \in UnitsOf(votes[w].result.counted)' |->
                                    ChoiceIn(votes[w].result.counted, u)']
        BY <3>1 DEF CountedChoices
      <4>2. UnitsOf(votes[w].result.counted)' = UnitsOf(cs)
        BY <1>2, <3>1 DEF UnitsOf
      <4>3. \A u \in UnitsOf(cs) : ChoiceIn(votes[w].result.counted, u)' = ChoiceIn(cs, u)
        BY <1>2, <3>1 DEF ChoiceIn, ChoiceOf
      <4> QED
        BY <4>1, <4>2, <4>3
    <3> QED
      BY <1>2, <1>3, <1>4, <3>1
  <2>2. \A w \in CreateReq \ {v} : CountedChoices'[w] = CountedChoices[w]
    BY <1>2, ResultStays DEF ResultsInv
  <2>3. /\ CountedChoices = [w \in CreateReq |-> CountedChoices[w]]
        /\ CountedChoices' = [w \in CreateReq |-> CountedChoices'[w]]
    BY DEF CountedChoices
  <2> HIDE DEF s, v
  <2> QED
    BY <2>1, <2>2, <2>3
<1>12. Register!CloseWith(v, s)
  BY <1>7, <1>8, <1>9, <1>10, <1>11 DEF Register!CloseWith
<1> QED
  BY <1>2, <1>6, <1>12

(* Every step of the component is one of the register, or none.            *)
LEMMA RegisterStep ==
  ASSUME TypeInv, HistoryInv, ResultsInv, [Next]_vars
  PROVE  [Register!Next]_(Register!vars)
<1>1. Grown /\ HistoryInv'
  BY Growth, NextHistoryInv DEF ResultsInv
<1>2. ASSUME UNCHANGED store PROVE UNCHANGED Register!vars
  BY <1>2 DEF Register!vars, OpenedVotes, StandingChoices, CountedChoices, UnitsOf, ChoiceIn,
              ChoiceOf, AllActiveFor, Active, Stored, store
<1>3. ASSUME NEW r \in CreateReq, CreateCommit(r) PROVE Register!Next
  BY <1>1, <1>3, CreateOpens DEF Register!Next
<1>4. ASSUME NEW r \in CastReq, CastCommit(r) PROVE Register!Next
  BY <1>1, <1>4, CastStands DEF Register!Next
<1>5. ASSUME NEW r \in CloseReq, CloseCommit(r) PROVE Register!Next
  BY <1>1, <1>5, CloseEnters DEF Register!Next
<1> QED
  BY <1>2, <1>3, <1>4, <1>5, Writers DEF vars, store

(* The component implements VoteRegister: whatever casts, corrections and  *)
(* closers race, a commit opens a vote, lets the owner who stands for a    *)
(* unit (or the first one) choose, or closes a vote once over choices of   *)
(* the owners who stand.                                                   *)
THEOREM Refinement == Spec => ImplementsVoteRegister
<1>1. Init => Register!Init
  BY DEF Init, Register!Init, OpenedVotes, StandingChoices, CountedChoices, UnitsOf,
         AllActiveFor, Active, Stored
<1>2. TypeInv /\ HistoryInv /\ ResultsInv /\ [Next]_vars => [Register!Next]_(Register!vars)
  BY RegisterStep
<1> QED
  BY Reachable, <1>1, <1>2, PTL DEF Spec, ImplementsVoteRegister, Register!Spec

-----------------------------------------------------------------------------
(* The components that Voting reads *)

(* Accounts are linked as the identity component promises, and units gain  *)
(* owners as the community component does, which here has founded every    *)
(* community (each under a name of its own for its CIF).                   *)
Identities == INSTANCE OwnerLinks
OwnersOfUnits == [u \in Unit |-> {o \in Owner : <<o, u>> \in owns}]
Ownership == INSTANCE UnitOwners WITH
  Cif <- Community, cifOf <- [c \in Community |-> c],
  communityOf <- CommunityOf, ownersOf <- OwnersOfUnits

(* No request of a vote touches links or ownership.                         *)
LEMMA SurroundingsOnly ==
  ASSUME [Next]_vars
  PROVE  \/ UNCHANGED <<link, owns>>
         \/ \E a \in Account, o \in Owner : LinkOwner(a, o)
         \/ \E o \in Owner, u \in Unit : AssignOwner(o, u)
<1>1. CASE Surroundings \/ Arrivals \/ Losses
  BY <1>1 DEF Surroundings, Tick, Arrivals, CreateArrive, CastArrive, CloseArrive,
              Losses, CreateLost, CastLost, CloseLost, env
<1>2. ASSUME NEW r \in CreateReq, CreateProgress(r) PROVE UNCHANGED env
  BY <1>2 DEF CreateProgress, CreateGetAccount, CreateGetCommunity, CreateSave, CreateCommit,
              CreateRespond
<1>3. ASSUME NEW r \in CastReq, CastProgress(r) PROVE UNCHANGED env
  BY <1>3 DEF CastProgress, CastGetVote, CastGetAccount, CastGetCommunity, CastGetActive,
              CastSaveExisting, CastSaveNew, CastCommit, CastRespond
<1>4. ASSUME NEW r \in CloseReq, CloseProgress(r) PROVE UNCHANGED env
  BY <1>4 DEF CloseProgress, CloseGetVote, CloseGetAccount, CloseGetCommunity,
              CloseGetBallots, CloseSave, CloseCommit, CloseRespond
<1>5. UNCHANGED env \/ UNCHANGED vars => UNCHANGED <<link, owns>>
  BY DEF env, vars
<1> QED
  BY <1>1, <1>2, <1>3, <1>4, <1>5 DEF Next, Progress

(* What votes take from link_owner_to_account and its rivals is what       *)
(* Identity is proved to implement: casts, closes and creations link none. *)
THEOREM LinksAreTaken == Spec => [][Identities!Next]_link
<1>1. [Next]_vars => [Identities!Next]_link
  <2> SUFFICES ASSUME [Next]_vars PROVE [Identities!Next]_link
    OBVIOUS
  <2>1. CASE UNCHANGED link
    BY <2>1
  <2>2. ASSUME NEW a \in Account, NEW o \in Owner, LinkOwner(a, o)
        PROVE  Identities!Next
    BY <2>2 DEF LinkOwner, Identities!Next, Identities!Link
  <2>3. ASSUME NEW o \in Owner, NEW u \in Unit, AssignOwner(o, u)
        PROVE  UNCHANGED link
    BY <2>3 DEF AssignOwner
  <2> QED
    BY <2>1, <2>2, <2>3, SurroundingsOnly
<1> QED
  BY <1>1, PTL DEF Spec

(* What votes take from assign_owner_to_unit is what Community is proved   *)
(* to implement.                                                           *)
THEOREM OwnershipIsTaken == Spec => Ownership!Spec
<1>1. Init => Ownership!Init
  <2> SUFFICES ASSUME Init PROVE Ownership!Init
    OBVIOUS
  <2>1. \A u \in Unit : CommunityOf[u] \in Community /\ CommunityOf[u] # None
    BY UnitsAssumption, NoneAssumption
  <2>2. OwnersOfUnits \in [Unit -> SUBSET Owner]
    BY DEF OwnersOfUnits
  <2>3. \A c \in Community : c # None
    BY NoneAssumption
  <2> QED
    BY <2>1, <2>2, <2>3, UnitsAssumption DEF Ownership!Init
<1>2. [Next]_vars => [Ownership!Next]_(Ownership!vars)
  <2> SUFFICES ASSUME [Next]_vars PROVE [Ownership!Next]_(Ownership!vars)
    OBVIOUS
  <2>1. ASSUME UNCHANGED owns PROVE UNCHANGED Ownership!vars
    BY <2>1 DEF Ownership!vars, OwnersOfUnits
  <2>2. ASSUME NEW a \in Account, NEW o \in Owner, LinkOwner(a, o)
        PROVE  UNCHANGED owns
    BY <2>2 DEF LinkOwner
  <2>3. ASSUME NEW o \in Owner, NEW u \in Unit, AssignOwner(o, u)
        PROVE  Ownership!Next
    <3>1. CommunityOf[u] # None
      BY UnitsAssumption, NoneAssumption
    <3>2. o \notin OwnersOfUnits[u]
      BY <2>3 DEF AssignOwner, OwnersOfUnits
    <3>3. OwnersOfUnits' = [OwnersOfUnits EXCEPT ![u] = @ \cup {o}]
      BY <2>3 DEF AssignOwner, OwnersOfUnits
    <3> QED
      BY <3>1, <3>2, <3>3 DEF Ownership!Next, Ownership!AddOwner
  <2> QED
    BY <2>1, <2>2, <2>3, SurroundingsOnly
<1> QED
  BY <1>1, <1>2, PTL DEF Spec, Ownership!Spec
=============================================================================
