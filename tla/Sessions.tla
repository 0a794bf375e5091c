------------------------------ MODULE Sessions ------------------------------
(***************************************************************************)
(* Refresh tokens of the identity component: a login stores one, a refresh *)
(* exchanges it for a short-lived access token without rotating it, and a  *)
(* logout revokes it.  Each request is a transaction of two statements at  *)
(* most; time passes between its steps.                                    *)
(*                                                                         *)
(* tokens are the committed rows, named by the login that inserts them.    *)
(* A logout at "commit" has run its update and holds the row.  Access      *)
(* tokens are signed and never stored: access keeps the ones issued, each  *)
(* with the refresh token it comes from and its expiry.                    *)
(***************************************************************************)
EXTENDS Integers

CONSTANTS LoginReq, RefreshReq, LogoutReq,
          AccessTTL, RefreshTTL,
          MaxTime,               \* bound of the clock
          None                   \* no row, and a token that was never issued

ASSUME TimesAssumption == AccessTTL \in Nat /\ RefreshTTL \in Nat \ {0} /\ MaxTime \in Nat

VARIABLES clock, tokens, access, login, refresh, logout

vars == <<clock, tokens, access, login, refresh, logout>>

-----------------------------------------------------------------------------
(* Rows and requests *)

TokenRow == [expiresAt: Nat, state: {"live", "revoked"}]
AccessToken == [token: LoginReq, expiresAt: Nat]

ASSUME NoneAssumption == None \notin LoginReq /\ None \notin TokenRow

LoginSteps == {"getAccount", "save", "commit", "committed"}
LoginEnds  == {"LoggedIn", "InvalidCredentials", "Lost"}
RefreshSteps == {"getToken", "issue", "respond"}
RefreshEnds  == {"Refreshed", "Invalid", "Lost"}
LogoutSteps == {"getToken", "revoke", "commit", "committed"}
LogoutEnds  == {"LoggedOut", "Invalid", "Lost"}

LoginRecord == [pc: LoginSteps \cup LoginEnds \cup {"idle"},
                credentials: {"right", "wrong"}, expiresAt: Nat]

(* read: the row that get_by_token_hash gave.  late is a history variable: *)
(* "late" if a logout of the token had been answered when the request was  *)
(* sent.                                                                   *)
RefreshRecord == [pc: RefreshSteps \cup RefreshEnds \cup {"idle"},
                  token: LoginReq \cup {None}, read: TokenRow \cup {None},
                  late: {"late", "intime"}]

(* was is a history variable: whether the token could have been exchanged  *)
(* when the logout was sent.                                               *)
LogoutRecord == [pc: LogoutSteps \cup LogoutEnds \cup {"idle"},
                 token: LoginReq \cup {None}, was: {"usable", "dead"}]

Init ==
  /\ clock = 0
  /\ tokens = [t \in LoginReq |-> None]
  /\ access = {}
  /\ login = [r \in LoginReq |-> [pc |-> "idle", credentials |-> "right", expiresAt |-> 0]]
  /\ refresh = [r \in RefreshReq |->
       [pc |-> "idle", token |-> None, read |-> None, late |-> "intime"]]
  /\ logout = [r \in LogoutReq |-> [pc |-> "idle", token |-> None, was |-> "usable"]]

Tick == /\ clock < MaxTime
        /\ clock' = clock + 1
        /\ UNCHANGED <<tokens, access, login, refresh, logout>>

(* A client knows the tokens of its answered logins, and may send others.  *)
Sendable == {None} \cup {t \in LoginReq : login[t].pc = "LoggedIn"}

RowOf(t) == IF t = None THEN None ELSE tokens[t]

\* Mutant: expires_at is not compared.
UsableUntilRevoked(row, now) == row.state = "live"

(* RefreshToken.is_usable                                                  *)
IsUsable(row, now) == row.state = "live" /\ now < row.expiresAt

-----------------------------------------------------------------------------
(* Login *)

LoginGo(r, from, to) == login[r].pc = from /\ login' = [login EXCEPT ![r].pc = to]

\* Mutant: the lifetime is subtracted.
ExpiryBefore(now) == now - RefreshTTL

ExpiryFrom(now) == now + RefreshTTL

LoginArrive(r, credentials) ==
  /\ login[r].pc = "idle"
  /\ login' = [login EXCEPT ![r].pc = "getAccount", ![r].credentials = credentials]
  /\ UNCHANGED <<clock, tokens, access, refresh, logout>>

LoginGetAccount(r) ==
  /\ login[r].pc = "getAccount"
  /\ IF login[r].credentials = "wrong" THEN LoginGo(r, "getAccount", "InvalidCredentials")
     ELSE login' = [login EXCEPT ![r].pc = "save", ![r].expiresAt = ExpiryFrom(clock)]
  /\ access' = IF login[r].credentials = "wrong" THEN access
               ELSE access \cup {[token |-> r, expiresAt |-> clock + AccessTTL]}
  /\ UNCHANGED <<clock, tokens, refresh, logout>>

LoginSave(r) == /\ LoginGo(r, "save", "commit")
                /\ UNCHANGED <<clock, tokens, access, refresh, logout>>

LoginCommit(r) ==
  /\ LoginGo(r, "commit", "committed")
  /\ tokens' = [tokens EXCEPT ![r] = [expiresAt |-> login[r].expiresAt, state |-> "live"]]
  /\ UNCHANGED <<clock, access, refresh, logout>>

LoginRespond(r) == /\ LoginGo(r, "committed", "LoggedIn")
                   /\ UNCHANGED <<clock, tokens, access, refresh, logout>>

LoginLost(r) == /\ login[r].pc \in LoginSteps
                /\ login' = [login EXCEPT ![r].pc = "Lost"]
                /\ UNCHANGED <<clock, tokens, access, refresh, logout>>

-----------------------------------------------------------------------------
(* RefreshAccessToken *)

LoggedOut(t) == \E q \in LogoutReq : logout[q].pc = "LoggedOut" /\ logout[q].token = t

RefreshArrive(r, t) ==
  /\ refresh[r].pc = "idle"
  /\ refresh' = [refresh EXCEPT ![r] =
        [pc |-> "getToken", token |-> t, read |-> None,
         late |-> IF LoggedOut(t) THEN "late" ELSE "intime"]]
  /\ UNCHANGED <<clock, tokens, access, login, logout>>

RefreshGetToken(r) ==
  LET row == RowOf(refresh[r].token) IN
  /\ refresh[r].pc = "getToken"
  /\ refresh' = [refresh EXCEPT ![r].pc = IF row = None THEN "Invalid" ELSE "issue",
                                ![r].read = row]
  /\ UNCHANGED <<clock, tokens, access, login, logout>>

(* What was read is judged at the time it is used.                         *)
RefreshIssue(r) ==
  LET q == refresh[r] IN
  /\ q.pc = "issue"
  /\ \/ /\ ~IsUsable(q.read, clock)
        /\ refresh' = [refresh EXCEPT ![r].pc = "Invalid"]
        /\ UNCHANGED access
     \/ /\ IsUsable(q.read, clock)
        /\ refresh' = [refresh EXCEPT ![r].pc = "respond"]
        /\ access' = access \cup {[token |-> q.token, expiresAt |-> clock + AccessTTL]}
  /\ UNCHANGED <<clock, tokens, login, logout>>

RefreshRespond(r) == /\ refresh[r].pc = "respond"
                     /\ refresh' = [refresh EXCEPT ![r].pc = "Refreshed"]
                     /\ UNCHANGED <<clock, tokens, access, login, logout>>

RefreshLost(r) == /\ refresh[r].pc \in RefreshSteps
                  /\ refresh' = [refresh EXCEPT ![r].pc = "Lost"]
                  /\ UNCHANGED <<clock, tokens, access, login, logout>>

-----------------------------------------------------------------------------
(* Logout *)

LogoutGo(r, from, to) == logout[r].pc = from /\ logout' = [logout EXCEPT ![r].pc = to]

LogoutArrive(r, t) ==
  /\ logout[r].pc = "idle"
  /\ logout' = [logout EXCEPT ![r] =
        [pc |-> "getToken", token |-> t,
         was |-> IF t # None /\ IsUsable(tokens[t], clock) THEN "usable" ELSE "dead"]]
  /\ UNCHANGED <<clock, tokens, access, login, refresh>>

LogoutGetToken(r) ==
  /\ LogoutGo(r, "getToken", IF RowOf(logout[r].token) = None THEN "Invalid" ELSE "revoke")
  /\ UNCHANGED <<clock, tokens, access, login, refresh>>

\* Mutant: a logout waits for every other that is about to revoke.
RowLockedEarly(q, t) == logout[q].token = t /\ logout[q].pc \in {"revoke", "commit"}

RowLocked(q, t) == logout[q].token = t /\ logout[q].pc = "commit"

LogoutRevoke(r) ==
  /\ \A q \in LogoutReq \ {r} : ~RowLocked(q, logout[r].token)
  /\ LogoutGo(r, "revoke", "commit")
  /\ UNCHANGED <<clock, tokens, access, login, refresh>>

\* Mutant: revoking writes a row of its own, with a new expiry.
LogoutCommitRenewed(r) ==
  /\ LogoutGo(r, "commit", "committed")
  /\ tokens' = [tokens EXCEPT ![logout[r].token] =
        [expiresAt |-> clock + RefreshTTL, state |-> "revoked"]]
  /\ UNCHANGED <<clock, access, login, refresh>>

LogoutCommit(r) == /\ LogoutGo(r, "commit", "committed")
                   /\ tokens' = [tokens EXCEPT ![logout[r].token].state = "revoked"]
                   /\ UNCHANGED <<clock, access, login, refresh>>

\* Mutant: the response is sent before the session is committed.
LogoutRespondEarly(r) == /\ LogoutGo(r, "commit", "LoggedOut")
                         /\ UNCHANGED <<clock, tokens, access, login, refresh>>

LogoutRespond(r) == /\ LogoutGo(r, "committed", "LoggedOut")
                    /\ UNCHANGED <<clock, tokens, access, login, refresh>>

LogoutLost(r) == /\ logout[r].pc \in LogoutSteps
                 /\ logout' = [logout EXCEPT ![r].pc = "Lost"]
                 /\ UNCHANGED <<clock, tokens, access, login, refresh>>

-----------------------------------------------------------------------------
(* The system *)

LoginProgress(r) == LoginGetAccount(r) \/ LoginSave(r) \/ LoginCommit(r) \/ LoginRespond(r)
RefreshProgress(r) == RefreshGetToken(r) \/ RefreshIssue(r) \/ RefreshRespond(r)
LogoutProgress(r) ==
  LogoutGetToken(r) \/ LogoutRevoke(r) \/ LogoutCommit(r) \/ LogoutRespond(r)

Arrivals ==
  \/ \E r \in LoginReq, credentials \in {"right", "wrong"} : LoginArrive(r, credentials)
  \/ \E r \in RefreshReq, t \in Sendable : RefreshArrive(r, t)
  \/ \E r \in LogoutReq, t \in Sendable : LogoutArrive(r, t)

Losses == \/ \E r \in LoginReq : LoginLost(r)
          \/ \E r \in RefreshReq : RefreshLost(r)
          \/ \E r \in LogoutReq : LogoutLost(r)

Next == \/ Tick \/ Arrivals \/ Losses
        \/ \E r \in LoginReq : LoginProgress(r)
        \/ \E r \in RefreshReq : RefreshProgress(r)
        \/ \E r \in LogoutReq : LogoutProgress(r)

(* An event loop runs every task that can run.                             *)
Fairness == /\ \A r \in LoginReq : WF_vars(LoginProgress(r))
            /\ \A r \in RefreshReq : WF_vars(RefreshProgress(r))
            /\ \A r \in LogoutReq : WF_vars(LogoutProgress(r))

Spec == Init /\ [][Next]_vars

-----------------------------------------------------------------------------
(* Properties *)

(* Every variable keeps its type.                                          *)
TypeOK ==
  /\ clock \in 0..MaxTime
  /\ tokens \in [LoginReq -> TokenRow \cup {None}]
  /\ access \subseteq AccessToken
  /\ login \in [LoginReq -> LoginRecord]
  /\ refresh \in [RefreshReq -> RefreshRecord]
  /\ logout \in [LogoutReq -> LogoutRecord]

(* A refresh sent after a logout of its token was answered gets no access  *)
(* token: "it can no longer be exchanged for new access tokens".           *)
LoggedOutTokensStayOut ==
  \A r \in RefreshReq :
    refresh[r].late = "late" => refresh[r].pc \notin {"respond", "Refreshed"}

(* Access tokens of a refresh token, however late the exchange, expire     *)
(* within one access lifetime of the refresh token itself.                 *)
AccessDiesWithItsToken ==
  \A a \in access :
    tokens[a.token] # None => a.expiresAt < tokens[a.token].expiresAt + AccessTTL

(* Revoking is for ever, and nothing else about a stored token changes.    *)
RevokedForEver ==
  [][\A t \in LoginReq :
       tokens[t] # None =>
         \/ tokens'[t] = tokens[t]
         \/ tokens[t].state = "live" /\ tokens'[t] = [tokens[t] EXCEPT !.state = "revoked"]]_vars

(* A logout of an issued token that is not lost does revoke it.            *)
LogoutsTakeEffect ==
  \A r \in LogoutReq :
    logout[r].pc = "revoke" ~>
      logout[r].pc = "Lost" \/ (logout[r].pc = "LoggedOut"
                                /\ tokens[logout[r].token].state = "revoked")

(* The API documents 401 for a logout of a token that is "invalid,         *)
(* expired, or revoked": a token that was dead when its logout was sent is *)
(* not answered 204.                                                       *)
DeadTokensAreRefused ==
  \A r \in LogoutReq : logout[r].was = "dead" => logout[r].pc # "LoggedOut"
=============================================================================
