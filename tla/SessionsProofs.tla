--------------------------- MODULE SessionsProofs ---------------------------
(***************************************************************************)
(* Refresh tokens and the browser client, proved for every number of       *)
(* requests, tabs and calls and every lifetime.  What the server keeps of  *)
(* its tokens is an invariant of Sessions; every step of the browser is a  *)
(* step of a client or of the server, so the invariant and all that        *)
(* follows from it hold with the browser too.                              *)
(***************************************************************************)
EXTENDS Browser, TLAPS

(* A login that has not committed has no row; the access token it issues   *)
(* expires before the refresh token would, give or take one lifetime.      *)
LoginOk(r) ==
  /\ login[r].pc \notin {"committed", "LoggedIn", "Lost"} => tokens[r] = None
  /\ login[r].pc \in {"committed", "LoggedIn"} => tokens[r] # None
  /\ \A a \in access : a.token = r =>
       /\ login[r].pc \notin {"idle", "getAccount", "InvalidCredentials"}
       /\ login[r].pc \in {"save", "commit"} => a.expiresAt < login[r].expiresAt + AccessTTL
       /\ tokens[r] # None => a.expiresAt < tokens[r].expiresAt + AccessTTL

(* What a refresh has read of a token is older than the token's row, but   *)
(* not older than the logout that was answered before it.                  *)
RefreshOk(q) ==
  /\ q.read # None => /\ q.token \in LoginReq /\ tokens[q.token] # None
                      /\ q.read.expiresAt = tokens[q.token].expiresAt
  /\ q.pc = "issue" => q.read # None
  /\ q.late = "late" =>
       /\ q.token \in LoginReq /\ tokens[q.token] # None
       /\ tokens[q.token].state = "revoked"
       /\ q.read # None => q.read.state = "revoked"
       /\ q.pc \notin {"respond", "Refreshed"}

(* A logout revokes a token that has a row, before it is answered.         *)
LogoutOk(q) ==
  /\ q.pc \in {"revoke", "commit", "committed", "LoggedOut"} =>
       q.token \in LoginReq /\ tokens[q.token] # None
  /\ q.pc \in {"committed", "LoggedOut"} => tokens[q.token].state = "revoked"

SessionsInv ==
  /\ TypeOK
  /\ \A r \in LoginReq : LoginOk(r)
  /\ \A r \in RefreshReq : RefreshOk(refresh[r])
  /\ \A r \in LogoutReq : LogoutOk(logout[r])

-----------------------------------------------------------------------------
(* The browser *)

(* A session that the browser uses, or has logged out, is that of a login  *)
(* of its own that was answered: it will not be answered again.            *)
Answered(s) == s \in TabLogins /\ form[s] = None /\ login[s].pc = "LoggedIn"

SessionsOk ==
  /\ storage # None => Answered(storage) /\ storage \notin ended
  /\ \A x \in Tabs : tab[x].session # None => Answered(tab[x].session)
  /\ \A s \in ended : Answered(s)

(* What is shown in a tab, or what a call brings to it, is of the session  *)
(* its view was mounted with, and nothing is once the tab has none.        *)
MountedWith(q) == IF q.overlaid = None THEN q.session ELSE q.overlaid

Own(q, session) ==
  session = None \/ (q.session # None /\ session = MountedWith(q))

Active == {"sent", "ok", "refused"}

TabOk(q) ==
  /\ q.view # "units" => q.shown = None /\ q.awaits = None
  /\ Own(q, q.shown)

CallOk(q) == /\ q.pc \in Active => q.tab \in Tabs
             /\ q.pc = "refused" => ~AccessLives(q.bearer)

AwaitOk(q, c, sent) ==
  q.awaits = c => /\ sent.pc # "idle"
                  /\ sent.pc \in Active => Own(q, sent.bearer)

ViewsOk ==
  /\ \A x \in Tabs : TabOk(tab[x])
  /\ \A c \in Calls : CallOk(call[c])
  /\ \A x \in Tabs, c \in Calls : AwaitOk(tab[x], c, call[c])

BrowserInv == SessionsInv /\ BrowserTypeOK /\ SessionsOk /\ ViewsOk

-----------------------------------------------------------------------------
(* The server's tokens *)

(* Nothing is stored, issued or sent at the start.                         *)
LEMMA InitSessionsInv == Init => SessionsInv
<1> SUFFICES ASSUME Init PROVE SessionsInv
  OBVIOUS
<1>1. TypeOK
  BY TimesAssumption DEF Init, TypeOK, LoginRecord, RefreshRecord, LogoutRecord
<1>2. /\ \A r \in LoginReq : LoginOk(r)
      /\ \A r \in RefreshReq : RefreshOk(refresh[r])
      /\ \A r \in LogoutReq : LogoutOk(logout[r])
  BY DEF Init, LoginOk, RefreshOk, LogoutOk
<1> QED
  BY <1>1, <1>2 DEF SessionsInv

(* A row that was stored stays, with its expiry, and stays revoked.        *)
RowsKept ==
  \A t \in LoginReq :
    tokens[t] # None =>
      \/ tokens'[t] = tokens[t]
      \/ tokens[t].state = "live" /\ tokens'[t] = [tokens[t] EXCEPT !.state = "revoked"]

LEMMA RequestsKept ==
  ASSUME SessionsInv, RowsKept
  PROVE  /\ \A q \in RefreshRecord : RefreshOk(q) => RefreshOk(q)'
         /\ \A q \in LogoutRecord : LogoutOk(q) => LogoutOk(q)'
<1>1. ASSUME NEW t \in LoginReq, tokens[t] # None
      PROVE  /\ tokens'[t] # None /\ tokens'[t].expiresAt = tokens[t].expiresAt
             /\ tokens[t].state = "revoked" => tokens'[t].state = "revoked"
  <2>1. tokens[t] \in TokenRow
    BY <1>1 DEF SessionsInv, TypeOK
  <2>2. [tokens[t] EXCEPT !.state = "revoked"] \in TokenRow
    BY <2>1 DEF TokenRow
  <2> QED
    BY <1>1, <2>1, <2>2, NoneAssumption DEF RowsKept, TokenRow
<1>2. ASSUME NEW q \in RefreshRecord, RefreshOk(q) PROVE RefreshOk(q)'
  BY <1>1, <1>2 DEF RefreshOk
<1>3. ASSUME NEW q \in LogoutRecord, LogoutOk(q) PROVE LogoutOk(q)'
  BY <1>1, <1>3 DEF LogoutOk
<1> QED
  BY <1>2, <1>3

(* A login issues an access token and stores a token of its own.           *)
LEMMA LoginStep ==
  ASSUME SessionsInv, NEW r \in LoginReq,
         \/ \E credentials \in {"right", "wrong"} : LoginArrive(r, credentials)
         \/ LoginProgress(r) \/ LoginLost(r)
  PROVE  SessionsInv' /\ RowsKept
<1> DEFINE Goal == SessionsInv' /\ RowsKept
<1> SUFFICES Goal
  OBVIOUS
<1>0. /\ TypeOK /\ login[r] \in LoginRecord /\ LoginOk(r)
      /\ clock \in Nat /\ AccessTTL \in Nat /\ RefreshTTL \in Nat /\ RefreshTTL > 0
  BY TimesAssumption DEF SessionsInv, TypeOK
<1>u. UNCHANGED <<clock, refresh, logout>>
  BY DEF LoginArrive, LoginProgress, LoginGetAccount, LoginSave, LoginCommit, LoginRespond,
         LoginLost
<1> HIDE DEF Goal
<1>m. ASSUME NEW q \in LoginRecord, login' = [login EXCEPT ![r] = q],
             RowsKept, \A s \in LoginReq \ {r} : tokens'[s] = tokens[s],
             tokens' \in [LoginReq -> TokenRow \cup {None}],
             access \subseteq access', access' \subseteq AccessToken,
             \A a \in access' \ access : a.token = r,
             LoginOk(r)'
      PROVE  Goal
  <2>1. \A s \in LoginReq : login'[s] = IF s = r THEN q ELSE login[s]
    BY <1>0, <1>m DEF TypeOK
  <2>2. login' \in [LoginReq -> LoginRecord]
    BY <1>0, <1>m DEF TypeOK
  <2>3. TypeOK'
    BY <1>0, <1>m, <1>u, <2>2 DEF TypeOK
  <2>4. ASSUME NEW s \in LoginReq, s # r PROVE LoginOk(s)'
    <3>1. LoginOk(s) /\ login'[s] = login[s] /\ tokens'[s] = tokens[s]
      BY <1>m, <2>1, <2>4 DEF SessionsInv
    <3>2. \A a \in access' : a.token = s => a \in access
      BY <1>m, <2>4
    <3> QED
      BY <3>1, <3>2 DEF LoginOk
  <2>5. /\ \A s \in RefreshReq : RefreshOk(refresh[s])'
        /\ \A s \in LogoutReq : LogoutOk(logout[s])'
    <3>1. /\ \A q1 \in RefreshRecord : RefreshOk(q1) => RefreshOk(q1)'
          /\ \A q1 \in LogoutRecord : LogoutOk(q1) => LogoutOk(q1)'
      BY <1>m, RequestsKept
    <3>2. /\ \A s \in RefreshReq : refresh'[s] = refresh[s] /\ refresh[s] \in RefreshRecord
          /\ \A s \in LogoutReq : logout'[s] = logout[s] /\ logout[s] \in LogoutRecord
      BY <1>0, <1>u DEF TypeOK
    <3>3. ASSUME NEW s \in RefreshReq PROVE RefreshOk(refresh[s])'
      <4>1. PICK q1 \in RefreshRecord : q1 = refresh[s]
        BY <3>2
      <4>2. RefreshOk(q1)'
        BY <3>1, <4>1 DEF SessionsInv
      <4> QED
        BY <3>2, <4>1, <4>2 DEF RefreshOk
    <3>4. ASSUME NEW s \in LogoutReq PROVE LogoutOk(logout[s])'
      <4>1. PICK q1 \in LogoutRecord : q1 = logout[s]
        BY <3>2
      <4>2. LogoutOk(q1)'
        BY <3>1, <4>1 DEF SessionsInv
      <4> QED
        BY <3>2, <4>1, <4>2 DEF LogoutOk
    <3> QED
      BY <3>3, <3>4
  <2> QED
    BY <1>m, <2>3, <2>4, <2>5 DEF SessionsInv, Goal
<1>n. ASSUME NEW q \in LoginRecord, login' = [login EXCEPT ![r] = q], tokens' = tokens,
             access' = access, LoginOk(r)'
      PROVE  Goal
  BY <1>0, <1>m, <1>n DEF RowsKept, TypeOK
<1>p. ASSUME NEW q \in LoginRecord, login' = [login EXCEPT ![r] = q],
             q.expiresAt = login[r].expiresAt, tokens' = tokens, access' = access,
             \/ /\ login[r].pc \in {"idle", "getAccount"}
                /\ q.pc \in {"getAccount", "InvalidCredentials", "Lost"}
             \/ login[r].pc = "save" /\ q.pc = "commit"
             \/ login[r].pc = "committed" /\ q.pc = "LoggedIn"
             \/ q.pc = "Lost"
      PROVE  Goal
  <2>1. login'[r] = q
    BY <1>0, <1>p DEF TypeOK
  <2>2. LoginOk(r)'
    BY <1>0, <1>p, <2>1 DEF LoginOk
  <2> QED
    BY <1>n, <1>p, <2>2
<1>g. ASSUME NEW to \in LoginSteps \cup LoginEnds, login' = [login EXCEPT ![r].pc = to]
      PROVE  \E q \in LoginRecord : /\ q.pc = to /\ q.expiresAt = login[r].expiresAt
                                    /\ login' = [login EXCEPT ![r] = q]
  <2> DEFINE q == [login[r] EXCEPT !.pc = to]
  <2>1. q \in LoginRecord /\ q.pc = to /\ q.expiresAt = login[r].expiresAt
    BY <1>0 DEF LoginRecord
  <2>2. login' = [login EXCEPT ![r] = q]
    BY <1>g
  <2> QED
    BY <2>1, <2>2
<1>1. ASSUME NEW credentials \in {"right", "wrong"}, LoginArrive(r, credentials) PROVE Goal
  <2> DEFINE q == [login[r] EXCEPT !.pc = "getAccount", !.credentials = credentials]
  <2>1. /\ login[r].pc = "idle" /\ tokens' = tokens /\ access' = access
        /\ login' = [login EXCEPT ![r] = q]
    BY <1>1 DEF LoginArrive
  <2>2. q \in LoginRecord /\ q.pc = "getAccount" /\ q.expiresAt = login[r].expiresAt
    BY <1>0 DEF LoginRecord, LoginSteps
  <2> HIDE DEF q
  <2> QED
    BY <1>p, <2>1, <2>2
<1>2. CASE LoginGetAccount(r)
  <2>1. login[r].pc = "getAccount" /\ tokens' = tokens
    BY <1>2 DEF LoginGetAccount
  <2>2. CASE login[r].credentials = "wrong"
    <3>1. login' = [login EXCEPT ![r].pc = "InvalidCredentials"] /\ access' = access
      BY <1>2, <2>2 DEF LoginGetAccount, LoginGo
    <3>2. "InvalidCredentials" \in LoginSteps \cup LoginEnds
      BY DEF LoginEnds
    <3> QED
      BY <1>g, <1>p, <2>1, <3>1, <3>2
  <2>3. CASE login[r].credentials # "wrong"
    <3> DEFINE q == [login[r] EXCEPT !.pc = "save", !.expiresAt = clock + RefreshTTL]
               a0 == [token |-> r, expiresAt |-> clock + AccessTTL]
    <3>1. login' = [login EXCEPT ![r] = q] /\ access' = access \cup {a0}
      BY <1>2, <2>3 DEF LoginGetAccount, ExpiryFrom
    <3>2. /\ q \in LoginRecord /\ q.pc = "save" /\ q.expiresAt = clock + RefreshTTL
          /\ a0 \in AccessToken /\ a0.token = r /\ a0.expiresAt = clock + AccessTTL
      <4>1. clock + RefreshTTL \in Nat /\ clock + AccessTTL \in Nat
        BY <1>0
      <4> QED
        BY <1>0, <4>1 DEF LoginRecord, LoginSteps, AccessToken
    <3> HIDE DEF q, a0
    <3>3. login'[r] = q
      BY <1>0, <3>1 DEF TypeOK
    <3>4. \A a \in access : a.token # r
      BY <1>0, <2>1 DEF LoginOk
    <3>5. tokens'[r] = None
      BY <1>0, <2>1 DEF LoginOk
    <3>6. LoginOk(r)'
      BY <1>0, <3>1, <3>2, <3>3, <3>4, <3>5 DEF LoginOk
    <3> QED
      BY <1>0, <1>m, <2>1, <3>1, <3>2, <3>6 DEF TypeOK, RowsKept
  <2> QED
    BY <2>2, <2>3
<1>3. CASE LoginSave(r)
  <2>1. /\ login[r].pc = "save" /\ login' = [login EXCEPT ![r].pc = "commit"]
        /\ UNCHANGED <<tokens, access>> /\ "commit" \in LoginSteps
    BY <1>3 DEF LoginSave, LoginGo, LoginSteps
  <2> QED
    BY <1>g, <1>p, <2>1
<1>4. CASE LoginCommit(r)
  <2> DEFINE row == [expiresAt |-> login[r].expiresAt, state |-> "live"]
             q == [login[r] EXCEPT !.pc = "committed"]
  <2>1. /\ login[r].pc = "commit" /\ access' = access
        /\ login' = [login EXCEPT ![r] = q] /\ tokens' = [tokens EXCEPT ![r] = row]
    BY <1>4 DEF LoginCommit, LoginGo
  <2>2. /\ q \in LoginRecord /\ q.pc = "committed"
        /\ row \in TokenRow /\ row.expiresAt = login[r].expiresAt
    BY <1>0 DEF LoginRecord, LoginSteps, TokenRow
  <2> HIDE DEF q, row
  <2>3. login'[r] = q
    BY <1>0, <2>1 DEF TypeOK
  <2>4. /\ tokens[r] = None /\ tokens'[r] = row
        /\ \A s \in LoginReq \ {r} : tokens'[s] = tokens[s]
        /\ tokens' \in [LoginReq -> TokenRow \cup {None}]
    BY <1>0, <2>1, <2>2 DEF TypeOK, LoginOk
  <2>5. RowsKept
    BY <2>4 DEF RowsKept
  <2>6. LoginOk(r)'
    BY <1>0, <2>1, <2>2, <2>3, <2>4, NoneAssumption DEF LoginOk
  <2>7. access' \subseteq AccessToken
    BY <1>0, <2>1 DEF TypeOK
  <2> QED
    BY <1>m, <2>1, <2>2, <2>4, <2>5, <2>6, <2>7
<1>5. CASE LoginRespond(r)
  <2>1. /\ login[r].pc = "committed" /\ login' = [login EXCEPT ![r].pc = "LoggedIn"]
        /\ UNCHANGED <<tokens, access>> /\ "LoggedIn" \in LoginEnds
    BY <1>5 DEF LoginRespond, LoginGo, LoginEnds
  <2> QED
    BY <1>g, <1>p, <2>1
<1>6. CASE LoginLost(r)
  <2>1. /\ login' = [login EXCEPT ![r].pc = "Lost"]
        /\ UNCHANGED <<tokens, access>> /\ "Lost" \in LoginEnds
    BY <1>6 DEF LoginLost, LoginEnds
  <2> QED
    BY <1>g, <1>p, <2>1
<1> QED
  BY <1>1, <1>2, <1>3, <1>4, <1>5, <1>6 DEF LoginProgress

(* The requests that have not moved, after a step that keeps the rows.     *)
LEMMA OthersKept ==
  ASSUME SessionsInv, RowsKept
  PROVE  /\ \A s \in RefreshReq : refresh'[s] = refresh[s] => RefreshOk(refresh[s])'
         /\ \A s \in LogoutReq : logout'[s] = logout[s] => LogoutOk(logout[s])'
<1>1. /\ \A q \in RefreshRecord : RefreshOk(q) => RefreshOk(q)'
      /\ \A q \in LogoutRecord : LogoutOk(q) => LogoutOk(q)'
  BY RequestsKept
<1>2. ASSUME NEW s \in RefreshReq, refresh'[s] = refresh[s] PROVE RefreshOk(refresh[s])'
  <2>1. PICK q \in RefreshRecord : q = refresh[s]
    BY DEF SessionsInv, TypeOK
  <2>2. RefreshOk(q)'
    BY <1>1, <2>1 DEF SessionsInv
  <2> QED
    BY <1>2, <2>1, <2>2 DEF RefreshOk
<1>3. ASSUME NEW s \in LogoutReq, logout'[s] = logout[s] PROVE LogoutOk(logout[s])'
  <2>1. PICK q \in LogoutRecord : q = logout[s]
    BY DEF SessionsInv, TypeOK
  <2>2. LogoutOk(q)'
    BY <1>1, <2>1 DEF SessionsInv
  <2> QED
    BY <1>3, <2>1, <2>2 DEF LogoutOk
<1> QED
  BY <1>2, <1>3

(* A refresh issues an access token if what it has read is usable now,     *)
(* which it is not if the token was logged out before it was sent.         *)
LEMMA RefreshStep ==
  ASSUME SessionsInv, NEW r \in RefreshReq,
         \/ \E t \in Sendable : RefreshArrive(r, t)
         \/ RefreshProgress(r) \/ RefreshLost(r)
  PROVE  SessionsInv' /\ RowsKept
<1> DEFINE Goal == SessionsInv' /\ RowsKept
<1> SUFFICES Goal
  OBVIOUS
<1> HIDE DEF Goal
<1>0. /\ TypeOK /\ refresh[r] \in RefreshRecord /\ RefreshOk(refresh[r])
      /\ clock \in Nat /\ AccessTTL \in Nat
  BY TimesAssumption DEF SessionsInv, TypeOK
<1>u. UNCHANGED <<clock, tokens, login, logout>>
  BY DEF RefreshArrive, RefreshProgress, RefreshGetToken, RefreshIssue, RefreshRespond,
         RefreshLost
<1>m. ASSUME NEW q \in RefreshRecord, refresh' = [refresh EXCEPT ![r] = q], RefreshOk(q),
             access \subseteq access', access' \subseteq AccessToken,
             \A a \in access' \ access :
               /\ tokens[a.token] # None
               /\ a.expiresAt < tokens[a.token].expiresAt + AccessTTL
      PROVE  Goal
  <2>1. RowsKept
    BY <1>u DEF RowsKept
  <2>2. \A s \in RefreshReq : refresh'[s] = IF s = r THEN q ELSE refresh[s]
    BY <1>0, <1>m DEF TypeOK
  <2>3. refresh' \in [RefreshReq -> RefreshRecord]
    BY <1>0, <1>m DEF TypeOK
  <2>4. TypeOK'
    BY <1>0, <1>m, <1>u, <2>3 DEF TypeOK
  <2>5. ASSUME NEW s \in RefreshReq PROVE RefreshOk(refresh[s])'
    <3>1. CASE s = r
      BY <1>m, <1>u, <2>2, <3>1 DEF RefreshOk
    <3>2. CASE s # r
      BY <2>1, <2>2, <3>2, OthersKept
    <3> QED
      BY <3>1, <3>2
  <2>6. \A s \in LogoutReq : LogoutOk(logout[s])'
    BY <1>u, <2>1, OthersKept
  <2>7. ASSUME NEW s \in LoginReq PROVE LoginOk(s)'
    <3>1. LoginOk(s)
      BY DEF SessionsInv
    <3>2. ASSUME NEW a \in access', a.token = s
          PROVE  /\ login[s].pc \notin {"idle", "getAccount", "InvalidCredentials"}
                 /\ login[s].pc \in {"save", "commit"} => a.expiresAt < login[s].expiresAt + AccessTTL
                 /\ tokens[s] # None => a.expiresAt < tokens[s].expiresAt + AccessTTL
      <4>1. CASE a \in access
        BY <3>1, <3>2, <4>1 DEF LoginOk
      <4>2. CASE a \notin access
        BY <1>m, <3>1, <3>2, <4>2 DEF LoginOk
      <4> QED
        BY <4>1, <4>2
    <3> QED
      BY <1>u, <3>1, <3>2 DEF LoginOk
  <2> QED
    BY <2>1, <2>4, <2>5, <2>6, <2>7 DEF SessionsInv, Goal
<1>n. ASSUME NEW q \in RefreshRecord, refresh' = [refresh EXCEPT ![r] = q], RefreshOk(q),
             access' = access
      PROVE  Goal
  BY <1>0, <1>m, <1>n DEF TypeOK
<1>g. ASSUME NEW to \in {"Invalid", "Refreshed", "Lost"}, access' = access,
             to = "Refreshed" => refresh[r].pc = "respond",
             refresh' = [refresh EXCEPT ![r].pc = to]
      PROVE  Goal
  <2> DEFINE q == [refresh[r] EXCEPT !.pc = to]
  <2>1. refresh' = [refresh EXCEPT ![r] = q]
    BY <1>g
  <2>2. /\ q \in RefreshRecord /\ q.pc = to /\ q.token = refresh[r].token
        /\ q.read = refresh[r].read /\ q.late = refresh[r].late
    BY <1>0 DEF RefreshRecord, RefreshEnds
  <2> HIDE DEF q
  <2>3. RefreshOk(q)
    BY <1>0, <1>g, <2>2 DEF RefreshOk
  <2> QED
    BY <1>n, <1>g, <2>1, <2>2, <2>3
<1>1. ASSUME NEW t \in Sendable, RefreshArrive(r, t) PROVE Goal
  <2> DEFINE q == [pc |-> "getToken", token |-> t, read |-> None,
                   late |-> IF LoggedOut(t) THEN "late" ELSE "intime"]
  <2>1. refresh' = [refresh EXCEPT ![r] = q] /\ access' = access
    BY <1>1 DEF RefreshArrive
  <2>2. /\ q \in RefreshRecord /\ q.pc = "getToken" /\ q.token = t /\ q.read = None
        /\ q.late = "late" => LoggedOut(t)
    BY DEF Sendable, RefreshRecord, RefreshSteps
  <2> HIDE DEF q
  <2>3. LoggedOut(t) => t \in LoginReq /\ tokens[t] # None /\ tokens[t].state = "revoked"
    BY DEF LoggedOut, SessionsInv, LogoutOk
  <2>4. RefreshOk(q)
    BY <2>2, <2>3 DEF RefreshOk
  <2> QED
    BY <1>n, <2>1, <2>2, <2>4
<1>2. CASE RefreshGetToken(r)
  <2> DEFINE row == RowOf(refresh[r].token)
             to == IF row = None THEN "Invalid" ELSE "issue"
             q == [refresh[r] EXCEPT !.pc = to, !.read = row]
  <2>1. refresh' = [refresh EXCEPT ![r] = q] /\ access' = access
    BY <1>2 DEF RefreshGetToken
  <2>2. /\ row \in TokenRow \cup {None}
        /\ row # None => refresh[r].token \in LoginReq /\ row = tokens[refresh[r].token]
        /\ refresh[r].token \in LoginReq => row = tokens[refresh[r].token]
    BY <1>0, NoneAssumption DEF RowOf, TypeOK, RefreshRecord
  <2>3. to \in {"Invalid", "issue"} /\ (to = "issue" => row # None)
    OBVIOUS
  <2> HIDE DEF row, to
  <2>4. /\ q \in RefreshRecord /\ q.pc = to /\ q.token = refresh[r].token
        /\ q.read = row /\ q.late = refresh[r].late
    BY <1>0, <2>2, <2>3 DEF RefreshRecord, RefreshSteps, RefreshEnds
  <2> HIDE DEF q
  <2>5. RefreshOk(q)
    BY <1>0, <2>2, <2>3, <2>4 DEF RefreshOk
  <2> QED
    BY <1>n, <2>1, <2>4, <2>5
<1>3. CASE RefreshIssue(r)
  <2>1. /\ refresh[r].pc = "issue" /\ refresh[r].read # None /\ refresh[r].read \in TokenRow
        /\ refresh[r].token \in LoginReq /\ tokens[refresh[r].token] # None
        /\ refresh[r].read.expiresAt = tokens[refresh[r].token].expiresAt
        /\ tokens[refresh[r].token] \in TokenRow
    BY <1>0, <1>3 DEF RefreshIssue, RefreshOk, RefreshRecord, TypeOK
  <2>2. CASE ~IsUsable(refresh[r].read, clock)
    BY <1>3, <1>g, <2>2 DEF RefreshIssue
  <2>3. CASE IsUsable(refresh[r].read, clock)
    <3> DEFINE a0 == [token |-> refresh[r].token, expiresAt |-> clock + AccessTTL]
               q == [refresh[r] EXCEPT !.pc = "respond"]
    <3>1. refresh' = [refresh EXCEPT ![r] = q] /\ access' = access \cup {a0}
      BY <1>3, <2>3 DEF RefreshIssue
    <3>2. clock + AccessTTL \in Nat
      BY <1>0
    <3>3. /\ a0 \in AccessToken /\ a0.token = refresh[r].token
          /\ a0.expiresAt = clock + AccessTTL
      BY <2>1, <3>2 DEF AccessToken
    <3>4. /\ q \in RefreshRecord /\ q.pc = "respond" /\ q.token = refresh[r].token
          /\ q.read = refresh[r].read /\ q.late = refresh[r].late
      BY <1>0 DEF RefreshRecord, RefreshSteps
    <3> HIDE DEF a0, q
    <3>5. /\ refresh[r].read.state = "live"
          /\ clock < tokens[refresh[r].token].expiresAt
          /\ tokens[refresh[r].token].expiresAt \in Nat
      BY <2>1, <2>3 DEF IsUsable, TokenRow
    <3>6. RefreshOk(q)
      BY <1>0, <2>1, <3>4, <3>5 DEF RefreshOk
    <3>7. a0.expiresAt < tokens[a0.token].expiresAt + AccessTTL
      BY <1>0, <3>3, <3>5
    <3>8. access' \subseteq AccessToken
      BY <1>0, <3>1, <3>3 DEF TypeOK
    <3> QED
      BY <1>m, <2>1, <3>1, <3>3, <3>4, <3>6, <3>7, <3>8
  <2> QED
    BY <2>2, <2>3
<1>4. CASE RefreshRespond(r)
  BY <1>4, <1>g DEF RefreshRespond
<1>5. CASE RefreshLost(r)
  BY <1>5, <1>g DEF RefreshLost
<1> QED
  BY <1>1, <1>2, <1>3, <1>4, <1>5 DEF RefreshProgress

(* A logout revokes the row of its token, and only that.                   *)
LEMMA LogoutStep ==
  ASSUME SessionsInv, NEW r \in LogoutReq,
         \/ \E t \in Sendable : LogoutArrive(r, t)
         \/ LogoutProgress(r) \/ LogoutLost(r)
  PROVE  SessionsInv' /\ RowsKept
<1> DEFINE Goal == SessionsInv' /\ RowsKept
<1> SUFFICES Goal
  OBVIOUS
<1> HIDE DEF Goal
<1>0. TypeOK /\ logout[r] \in LogoutRecord /\ LogoutOk(logout[r])
  BY DEF SessionsInv, TypeOK
<1>u. UNCHANGED <<clock, access, login, refresh>>
  BY DEF LogoutArrive, LogoutProgress, LogoutGetToken, LogoutRevoke, LogoutCommit,
         LogoutRespond, LogoutLost
<1>m. ASSUME NEW q \in LogoutRecord, logout' = [logout EXCEPT ![r] = q], LogoutOk(q)',
             RowsKept, tokens' \in [LoginReq -> TokenRow \cup {None}],
             \A t \in LoginReq : /\ tokens'[t] = None <=> tokens[t] = None
                                 /\ tokens[t] # None => tokens'[t].expiresAt = tokens[t].expiresAt
      PROVE  Goal
  <2>1. \A s \in LogoutReq : logout'[s] = IF s = r THEN q ELSE logout[s]
    BY <1>0, <1>m DEF TypeOK
  <2>2. logout' \in [LogoutReq -> LogoutRecord]
    BY <1>0, <1>m DEF TypeOK
  <2>3. TypeOK'
    BY <1>0, <1>m, <1>u, <2>2 DEF TypeOK
  <2>4. ASSUME NEW s \in LogoutReq PROVE LogoutOk(logout[s])'
    <3>1. CASE s = r
      BY <1>m, <2>1, <3>1 DEF LogoutOk
    <3>2. CASE s # r
      BY <1>m, <2>1, <3>2, OthersKept
    <3> QED
      BY <3>1, <3>2
  <2>5. \A s \in RefreshReq : RefreshOk(refresh[s])'
    BY <1>m, <1>u, OthersKept
  <2>6. \A s \in LoginReq : LoginOk(s)'
    BY <1>m, <1>u DEF SessionsInv, LoginOk
  <2> QED
    BY <1>m, <2>3, <2>4, <2>5, <2>6 DEF SessionsInv, Goal
<1>n. ASSUME NEW q \in LogoutRecord, logout' = [logout EXCEPT ![r] = q], LogoutOk(q),
             tokens' = tokens
      PROVE  Goal
  <2>1. LogoutOk(q)'
    BY <1>n DEF LogoutOk
  <2> QED
    BY <1>0, <1>m, <1>n, <2>1 DEF RowsKept, TypeOK
<1>g. ASSUME NEW to \in LogoutSteps \cup LogoutEnds, tokens' = tokens,
             to \in {"revoke", "commit"} =>
               logout[r].token \in LoginReq /\ tokens[logout[r].token] # None,
             to \in {"committed", "LoggedOut"} => logout[r].pc = "committed",
             logout' = [logout EXCEPT ![r].pc = to]
      PROVE  Goal
  <2> DEFINE q == [logout[r] EXCEPT !.pc = to]
  <2>1. logout' = [logout EXCEPT ![r] = q]
    BY <1>g
  <2>2. q \in LogoutRecord /\ q.pc = to /\ q.token = logout[r].token
    BY <1>0 DEF LogoutRecord
  <2> HIDE DEF q
  <2>3. LogoutOk(q)
    BY <1>0, <1>g, <2>2 DEF LogoutOk
  <2> QED
    BY <1>n, <1>g, <2>1, <2>2, <2>3
<1>1. ASSUME NEW t \in Sendable, LogoutArrive(r, t) PROVE Goal
  <2> DEFINE was == IF t # None /\ IsUsable(tokens[t], clock) THEN "usable" ELSE "dead"
             q == [pc |-> "getToken", token |-> t, was |-> was]
  <2>1. logout' = [logout EXCEPT ![r] = q] /\ tokens' = tokens
    BY <1>1 DEF LogoutArrive
  <2>2. was \in {"usable", "dead"}
    OBVIOUS
  <2> HIDE DEF was
  <2>3. q \in LogoutRecord /\ q.pc = "getToken"
    BY <2>2 DEF Sendable, LogoutRecord, LogoutSteps
  <2> HIDE DEF q
  <2>4. LogoutOk(q)
    BY <2>3 DEF LogoutOk
  <2> QED
    BY <1>n, <2>1, <2>3, <2>4
<1>2. CASE LogoutGetToken(r)
  <2> DEFINE to == IF RowOf(logout[r].token) = None THEN "Invalid" ELSE "revoke"
  <2>1. logout' = [logout EXCEPT ![r].pc = to] /\ tokens' = tokens
    BY <1>2 DEF LogoutGetToken, LogoutGo
  <2>2. /\ to \in LogoutSteps \cup LogoutEnds /\ to \in {"Invalid", "revoke"}
        /\ to = "revoke" => logout[r].token \in LoginReq /\ tokens[logout[r].token] # None
    BY <1>0 DEF RowOf, LogoutRecord, LogoutSteps, LogoutEnds
  <2> HIDE DEF to
  <2> QED
    BY <1>g, <2>1, <2>2
<1>3. CASE LogoutRevoke(r)
  <2>1. /\ logout[r].pc = "revoke" /\ logout' = [logout EXCEPT ![r].pc = "commit"]
        /\ tokens' = tokens /\ "commit" \in LogoutSteps
    BY <1>3 DEF LogoutRevoke, LogoutGo, LogoutSteps
  <2>2. logout[r].token \in LoginReq /\ tokens[logout[r].token] # None
    BY <1>0, <2>1 DEF LogoutOk
  <2> QED
    BY <1>g, <2>1, <2>2
<1>4. CASE LogoutCommit(r)
  <2>1. PICK t \in LoginReq : t = logout[r].token /\ tokens[t] # None
    BY <1>0, <1>4 DEF LogoutCommit, LogoutGo, LogoutOk
  <2> DEFINE row == [tokens[t] EXCEPT !.state = "revoked"]
  <2>3. PICK q \in LogoutRecord : /\ q = [logout[r] EXCEPT !.pc = "committed"]
                                 /\ q.pc = "committed" /\ q.token = t
    <3>1. [logout[r] EXCEPT !.pc = "committed"] \in LogoutRecord
      BY <1>0 DEF LogoutRecord, LogoutSteps
    <3> QED
      BY <1>0, <2>1, <3>1 DEF LogoutRecord
  <2>2. logout' = [logout EXCEPT ![r] = q] /\ tokens' = [tokens EXCEPT ![t] = row]
    BY <1>4, <2>1, <2>3 DEF LogoutCommit, LogoutGo
  <2>4. /\ tokens[t] \in TokenRow /\ row \in TokenRow
        /\ row.expiresAt = tokens[t].expiresAt /\ row.state = "revoked"
        /\ tokens[t].state = "revoked" => row = tokens[t]
        /\ tokens[t].state \in {"live", "revoked"}
    BY <1>0, <2>1 DEF TypeOK, TokenRow
  <2>5. row = [tokens[t] EXCEPT !.state = "revoked"]
    OBVIOUS
  <2> HIDE DEF row
  <2>6. /\ tokens'[t] = row /\ \A s \in LoginReq \ {t} : tokens'[s] = tokens[s]
        /\ tokens' \in [LoginReq -> TokenRow \cup {None}] /\ row # None
    BY <1>0, <2>2, <2>4, NoneAssumption DEF TypeOK
  <2>7. RowsKept
    BY <2>4, <2>5, <2>6 DEF RowsKept
  <2>8. LogoutOk(q)'
    BY <2>3, <2>4, <2>6 DEF LogoutOk
  <2> QED
    BY <1>m, <2>1, <2>2, <2>3, <2>4, <2>6, <2>7, <2>8
<1>5. CASE LogoutRespond(r)
  <2>1. /\ logout[r].pc = "committed" /\ logout' = [logout EXCEPT ![r].pc = "LoggedOut"]
        /\ tokens' = tokens /\ "LoggedOut" \in LogoutEnds
    BY <1>5 DEF LogoutRespond, LogoutGo, LogoutEnds
  <2> QED
    BY <1>g, <2>1
<1>6. CASE LogoutLost(r)
  <2>1. /\ logout' = [logout EXCEPT ![r].pc = "Lost"]
        /\ tokens' = tokens /\ "Lost" \in LogoutEnds
    BY <1>6 DEF LogoutLost, LogoutEnds
  <2> QED
    BY <1>g, <2>1
<1> QED
  BY <1>1, <1>2, <1>3, <1>4, <1>5, <1>6 DEF LogoutProgress

(* Every step of the server and of its clients.                            *)
LEMMA NextSessionsInv ==
  SessionsInv /\ [Next]_vars => SessionsInv' /\ RowsKept
<1> SUFFICES ASSUME SessionsInv, [Next]_vars PROVE SessionsInv' /\ RowsKept
  OBVIOUS
<1>1. ASSUME UNCHANGED <<tokens, access, login, refresh, logout>>, clock' \in 0 .. MaxTime
      PROVE  SessionsInv' /\ RowsKept
  <2>1. RowsKept
    BY <1>1 DEF RowsKept
  <2>2. TypeOK'
    BY <1>1 DEF SessionsInv, TypeOK
  <2>3. /\ \A s \in RefreshReq : RefreshOk(refresh[s])'
        /\ \A s \in LogoutReq : LogoutOk(logout[s])'
    BY <1>1, <2>1, OthersKept
  <2>4. \A s \in LoginReq : LoginOk(s)'
    BY <1>1 DEF SessionsInv, LoginOk
  <2> QED
    BY <2>1, <2>2, <2>3, <2>4 DEF SessionsInv
<1>2. CASE Tick
  <2>1. clock \in 0 .. MaxTime /\ clock' \in 0 .. MaxTime
    BY <1>2, TimesAssumption DEF Tick, SessionsInv, TypeOK
  <2> QED
    BY <1>1, <1>2, <2>1 DEF Tick
<1>3. CASE UNCHANGED vars
  BY <1>1, <1>3 DEF vars, SessionsInv, TypeOK
<1> QED
  BY <1>2, <1>3, LoginStep, RefreshStep, LogoutStep DEF Next, Arrivals, Losses

LEMMA Reachable == Spec => []SessionsInv
BY InitSessionsInv, NextSessionsInv, PTL DEF Spec

-----------------------------------------------------------------------------
(* What the server promises its clients *)

(* Rows, access tokens and requests keep their types.                      *)
THEOREM Typing == Spec => []TypeOK
<1>1. SessionsInv => TypeOK
  BY DEF SessionsInv
<1> QED
  BY Reachable, <1>1, PTL

(* After log_out has been answered, refresh_access_token never issues an   *)
(* access token to a request sent later, whatever it has read.             *)
LEMMA LateRefreshes == SessionsInv => LoggedOutTokensStayOut
BY DEF SessionsInv, RefreshOk, LoggedOutTokensStayOut

(* So a token that was logged out is never exchanged again.                *)
THEOREM LoggedOutStayOut == Spec => []LoggedOutTokensStayOut
BY Reachable, LateRefreshes, PTL

(* A refresh that judges at last what it has read at first issues no       *)
(* access token that outlives the refresh token by a whole lifetime.       *)
LEMMA ShortAccess == SessionsInv => AccessDiesWithItsToken
BY DEF SessionsInv, TypeOK, AccessToken, LoginOk, AccessDiesWithItsToken

(* So access tokens expire within one lifetime of their refresh token.     *)
THEOREM AccessDies == Spec => []AccessDiesWithItsToken
BY Reachable, ShortAccess, PTL

(* Nothing un-revokes a refresh token or extends its life.                 *)
THEOREM Revocation == Spec => RevokedForEver
<1>1. SessionsInv /\ [Next]_vars =>
        [\A t \in LoginReq :
           tokens[t] # None =>
             \/ tokens'[t] = tokens[t]
             \/ tokens[t].state = "live"
                /\ tokens'[t] = [tokens[t] EXCEPT !.state = "revoked"]]_vars
  BY NextSessionsInv DEF RowsKept
<1> QED
  BY Reachable, <1>1, PTL DEF Spec, RevokedForEver

-----------------------------------------------------------------------------
(* Tabs and calls *)

LEMMA InitBrowserInv == BrowserInit => BrowserInv
<1> SUFFICES ASSUME BrowserInit PROVE BrowserInv
  OBVIOUS
<1>1. SessionsInv
  BY InitSessionsInv DEF BrowserInit
<1>2. BrowserTypeOK
  BY <1>1 DEF SessionsInv, BrowserInit, BrowserTypeOK, Session, TabRecord, Unopened, Views,
              CallRecord, NoCall
<1>3. SessionsOk
  BY DEF BrowserInit, SessionsOk, Unopened
<1>4. ViewsOk
  BY CallsAssumption DEF BrowserInit, ViewsOk, TabOk, CallOk, AwaitOk, Own, Active, Unopened,
                         NoCall
<1> QED
  BY <1>1, <1>2, <1>3, <1>4 DEF BrowserInv

(* What a step may do to a call: drop it, send it, or have it answered.    *)
CallMoves ==
  /\ call' \in [Calls -> CallRecord]
  /\ \A c \in Calls :
       \/ call'[c] = call[c]
       \/ call'[c].pc \in {"done", "Lost"}
       \/ call[c].pc = "idle" /\ call'[c].pc = "sent" /\ call'[c].tab \in Tabs
       \/ /\ call[c].pc = "sent" /\ call'[c].pc \in {"ok", "refused"}
          /\ call'[c].tab = call[c].tab /\ call'[c].bearer = call[c].bearer
          /\ call'[c].pc = "refused" => ~AccessLives(call[c].bearer)

(* What a step does to one tab: the calls that it sends or drops leave the *)
(* tab with nothing that is not of its session.                            *)
TabMoves(x, q) ==
  /\ tab' = [tab EXCEPT ![x] = q]
  /\ TabOk(q) /\ \A c \in Calls : AwaitOk(q, c, call'[c])
  /\ CallMoves

Retired(calls) ==
  /\ calls \in [Calls -> CallRecord]
  /\ \A c \in Calls : calls[c] = call[c] \/ calls[c].pc \in {"done", "Lost"}

(* The server forgets no answer and no access token, and time passes.      *)
LEMMA ServerKeeps ==
  ASSUME SessionsInv, [Next]_vars
  PROVE  /\ \A s \in LoginReq : login[s].pc = "LoggedIn" => login'[s].pc = "LoggedIn"
         /\ \A b : ~AccessLives(b) => ~AccessLives(b)'
<1>1. clock \in Int /\ access \subseteq AccessToken
  BY TimesAssumption DEF SessionsInv, TypeOK
<1>2. clock' \in Int /\ clock <= clock' /\ access \subseteq access'
  <2>1. clock' = clock \/ clock' = clock + 1
    BY DEF Next, vars, Tick, Arrivals, LoginArrive, RefreshArrive, LogoutArrive, Losses,
           LoginLost, RefreshLost, LogoutLost, LoginProgress, LoginGetAccount, LoginSave,
           LoginCommit, LoginRespond, RefreshProgress, RefreshGetToken, RefreshIssue,
           RefreshRespond, LogoutProgress, LogoutGetToken, LogoutRevoke, LogoutCommit,
           LogoutRespond
  <2>2. CASE \/ \E r \in LoginReq : LoginGetAccount(r)
             \/ \E r \in RefreshReq : RefreshIssue(r)
    <3>1. \/ access' = access
          \/ \E a : access' = access \cup {a}
      BY <2>2 DEF LoginGetAccount, RefreshIssue
    <3>2. access \subseteq access'
      BY <3>1
    <3> QED
      BY <1>1, <2>1, <3>2
  <2>3. CASE ~(\/ \E r \in LoginReq : LoginGetAccount(r)
               \/ \E r \in RefreshReq : RefreshIssue(r))
    <3>1. access' = access
      BY <2>3 DEF Next, vars, Tick, Arrivals, LoginArrive, RefreshArrive, LogoutArrive,
             Losses, LoginLost, RefreshLost, LogoutLost, LoginProgress, LoginSave,
             LoginCommit, LoginRespond, RefreshProgress, RefreshGetToken, RefreshRespond,
             LogoutProgress, LogoutGetToken, LogoutRevoke, LogoutCommit, LogoutRespond
    <3> QED
      BY <1>1, <2>1, <3>1
  <2> QED
    BY <2>2, <2>3
<1>3. ASSUME NEW s \in LoginReq, login[s].pc = "LoggedIn" PROVE login'[s].pc = "LoggedIn"
  <2>1. login \in [LoginReq -> LoginRecord]
    BY DEF SessionsInv, TypeOK
  <2> QED
    BY <1>3, <2>1
    DEF Next, vars, Tick, Arrivals, LoginArrive, RefreshArrive, LogoutArrive, Losses,
        LoginLost, LoginSteps, RefreshLost, LogoutLost, LoginProgress, LoginGetAccount,
        LoginSave, LoginCommit, LoginRespond, LoginGo, RefreshProgress, RefreshGetToken,
        RefreshIssue, RefreshRespond, LogoutProgress, LogoutGetToken, LogoutRevoke,
        LogoutCommit, LogoutRespond
<1>4. ASSUME NEW b, ~AccessLives(b) PROVE ~AccessLives(b)'
  <2>1. CASE b = None
    BY <2>1 DEF AccessLives
  <2>2. CASE b # None
    <3>1. PICK a \in access : a.token = b /\ ~(clock < a.expiresAt)
      BY <1>4, <2>2 DEF AccessLives
    <3>2. a.expiresAt \in Int /\ a \in access' /\ ~(clock' < a.expiresAt)
      BY <1>1, <1>2, <3>1 DEF AccessToken
    <3> QED
      BY <3>1, <3>2 DEF AccessLives
  <2> QED
    BY <2>1, <2>2
<1> QED
  BY <1>3, <1>4

(* Views stay right when one tab moves and the server takes a step.        *)
LEMMA ViewsKept ==
  ASSUME BrowserInv, [Next]_vars, NEW x \in Tabs, NEW q \in TabRecord, TabMoves(x, q)
  PROVE  ViewsOk' /\ tab' \in [Tabs -> TabRecord] /\ call' \in [Calls -> CallRecord]
<1>1. \A y \in Tabs : tab'[y] = IF y = x THEN q ELSE tab[y]
  BY DEF TabMoves, BrowserInv, BrowserTypeOK
<1>2. tab' \in [Tabs -> TabRecord] /\ call' \in [Calls -> CallRecord]
  BY DEF TabMoves, CallMoves, BrowserInv, BrowserTypeOK
<1>3. \A y \in Tabs : TabOk(tab[y])'
  <2>1. \A y \in Tabs : TabOk(tab'[y])
    BY <1>1 DEF TabMoves, BrowserInv, ViewsOk
  <2> QED
    BY <2>1 DEF TabOk, Own
<1>4. ASSUME NEW c \in Calls PROVE CallOk(call[c])'
  <2>1. CallOk(call[c])
    BY DEF BrowserInv, ViewsOk
  <2>2. \A b : ~AccessLives(b) => ~AccessLives(b)'
    BY ServerKeeps DEF BrowserInv
  <2>3. ASSUME call'[c].pc = "refused" PROVE ~AccessLives(call[c].bearer)'
    <3>1. PICK b : b = call[c].bearer
      OBVIOUS
    <3>2. ~AccessLives(b) /\ call'[c].bearer = b
      BY <2>1, <2>3, <3>1 DEF TabMoves, CallMoves, CallOk
    <3>3. ~AccessLives(b)'
      BY <2>2, <3>2
    <3> QED
      BY <3>2, <3>3 DEF AccessLives
  <2>4. call'[c].pc \in Active => call'[c].tab \in Tabs
    BY <2>1 DEF TabMoves, CallMoves, CallOk, Active
  <2> QED
    BY <2>3, <2>4 DEF CallOk
<1>5. ASSUME NEW y \in Tabs, NEW c \in Calls PROVE AwaitOk(tab[y], c, call[c])'
  <2>1. CASE y = x
    BY <1>1, <2>1 DEF TabMoves, AwaitOk, Own
  <2>2. CASE y # x
    <3>1. tab'[y] = tab[y] /\ AwaitOk(tab[y], c, call[c])
      BY <1>1, <2>2 DEF BrowserInv, ViewsOk
    <3> QED
      BY <3>1 DEF TabMoves, CallMoves, AwaitOk, Own, Active
  <2> QED
    BY <2>1, <2>2
<1> QED
  BY <1>2, <1>3, <1>4, <1>5 DEF ViewsOk

(* A tab stays as it is while calls move.                                  *)
LEMMA TabStays ==
  ASSUME BrowserInv, NEW x \in Tabs, tab' = tab, CallMoves
  PROVE  TabMoves(x, tab[x]) /\ tab[x] \in TabRecord
<1>1. tab \in [Tabs -> TabRecord] /\ TabOk(tab[x])
  BY DEF BrowserInv, BrowserTypeOK, ViewsOk
<1>2. tab' = [tab EXCEPT ![x] = tab[x]]
  BY <1>1
<1>3. ASSUME NEW c \in Calls PROVE AwaitOk(tab[x], c, call'[c])
  <2>1. AwaitOk(tab[x], c, call[c])
    BY DEF BrowserInv, ViewsOk
  <2> QED
    BY <2>1 DEF CallMoves, AwaitOk, Own, Active
<1> QED
  BY <1>1, <1>2, <1>3 DEF TabMoves

(* A view that is mounted shows nothing, and awaits what it has sent.      *)
LEMMA Mounted ==
  ASSUME BrowserInv, NEW x \in Tabs, NEW session \in Session, NEW view \in Views,
         NEW calls, Retired(calls), Mount(x, session, view, calls)
  PROVE  /\ \E q \in TabRecord : TabMoves(x, q) /\ q.session = session
         /\ \A c \in Calls : call'[c] = calls[c] \/ call'[c].pc = "sent"
<1> DEFINE q0 == [Unopened EXCEPT !.view = view, !.session = session]
<1>0. /\ q0 \in TabRecord /\ q0.view = view /\ q0.session = session /\ q0.shown = None
      /\ q0.awaits = None
  BY DEF Unopened, TabRecord, Session
<1>1. CASE tab' = [tab EXCEPT ![x] = q0] /\ call' = calls
  <2>1. TabOk(q0) /\ \A c \in Calls : AwaitOk(q0, c, call'[c])
    BY <1>0, CallsAssumption DEF TabOk, Own, AwaitOk
  <2>2. CallMoves
    BY <1>1 DEF Retired, CallMoves
  <2> HIDE DEF q0
  <2> QED
    BY <1>0, <1>1, <2>1, <2>2 DEF TabMoves
<1>2. ASSUME view = "units", IdleCalls(calls) # {},
             NEW c0, c0 = NextCall(calls),
             tab' = [tab EXCEPT ![x] = [q0 EXCEPT !.awaits = c0]],
             call' = [calls EXCEPT ![c0] = SentBy(x, session, "getMyUnits")]
      PROVE  /\ \E q \in TabRecord : TabMoves(x, q) /\ q.session = session
             /\ \A c \in Calls : call'[c] = calls[c] \/ call'[c].pc = "sent"
  <2> DEFINE q == [q0 EXCEPT !.awaits = c0]
             sent == SentBy(x, session, "getMyUnits")
  <2>1. c0 \in Calls /\ calls[c0].pc = "idle"
    BY <1>2 DEF IdleCalls, NextCall
  <2>2. /\ q \in TabRecord /\ q.view = view /\ q.session = session /\ q.shown = None
        /\ q.awaits = c0 /\ q.overlaid = None
    BY <2>1 DEF Unopened, TabRecord, Session
  <2>3. /\ sent \in CallRecord /\ sent.pc = "sent" /\ sent.tab = x
        /\ sent.bearer = session
    BY DEF SentBy, CallRecord
  <2>4. tab' = [tab EXCEPT ![x] = q] /\ call' = [calls EXCEPT ![c0] = sent]
    BY <1>2
  <2> HIDE DEF q0, q, sent
  <2>5. /\ call' \in [Calls -> CallRecord]
        /\ \A c \in Calls : call'[c] = IF c = c0 THEN sent ELSE calls[c]
    BY <2>3, <2>4 DEF Retired
  <2>6. CallMoves
    BY <2>1, <2>3, <2>5 DEF Retired, CallMoves
  <2>7. TabOk(q) /\ \A c \in Calls : AwaitOk(q, c, call'[c])
    BY <1>2, <2>2, <2>3, <2>5 DEF TabOk, Own, MountedWith, AwaitOk
  <2> QED
    BY <2>2, <2>3, <2>4, <2>5, <2>6, <2>7 DEF TabMoves
<1> QED
  BY <1>1, <1>2 DEF Mount

(* A push mounts the view it leads to, or only changes the session.        *)
LEMMA Pushed ==
  ASSUME BrowserInv, NEW x \in Tabs, NEW session \in Session, NEW view \in Views,
         NEW calls, Retired(calls), Push(x, session, view, calls)
  PROVE  /\ \E q \in TabRecord : TabMoves(x, q) /\ q.session = session
         /\ \A c \in Calls : call'[c] = calls[c] \/ call'[c].pc = "sent"
<1> DEFINE to == Landing(session, view)
<1>0. to \in Views /\ (to = "units" => session # None)
  BY DEF Landing, Views
<1> HIDE DEF to
<1>1. CASE Mount(x, session, to, calls)
  BY <1>0, <1>1, Mounted
<1>2. ASSUME to = tab[x].view, call' = calls,
             tab' = [tab EXCEPT ![x].session = session, ![x].overlaid = Overlaid(x, session)]
      PROVE  \E q \in TabRecord : TabMoves(x, q) /\ q.session = session
  <2> DEFINE over == Overlaid(x, session)
             q == [tab[x] EXCEPT !.session = session, !.overlaid = over]
  <2>1. tab[x] \in TabRecord /\ tab \in [Tabs -> TabRecord] /\ TabOk(tab[x])
    BY DEF BrowserInv, BrowserTypeOK, ViewsOk
  <2>2. tab' = [tab EXCEPT ![x] = q]
    BY <1>2, <2>1
  <2>3. /\ over \in Session
        /\ over = tab[x].overlaid \/ (tab[x].overlaid = None /\ over = tab[x].session)
        /\ tab[x].overlaid = None /\ over = None =>
             session \in {None, tab[x].session} \/ tab[x].session = None
    BY <2>1 DEF TabRecord, Overlaid
  <2> HIDE DEF over
  <2>4. /\ q \in TabRecord /\ q.view = tab[x].view /\ q.session = session
        /\ q.shown = tab[x].shown /\ q.awaits = tab[x].awaits /\ q.overlaid = over
    BY <2>1, <2>3 DEF TabRecord
  <2> HIDE DEF q
  <2>5. q.view = "units" => \A s : Own(tab[x], s) => Own(q, s)
    BY <1>0, <1>2, <2>3, <2>4 DEF Own, MountedWith
  <2>6. TabOk(q)
    BY <2>1, <2>4, <2>5 DEF TabOk, Own
  <2>7. ASSUME NEW c \in Calls PROVE AwaitOk(q, c, call'[c])
    <3>1. AwaitOk(tab[x], c, call[c]) /\ (calls[c] = call[c] \/ calls[c].pc \in {"done", "Lost"})
      BY DEF BrowserInv, ViewsOk, Retired
    <3>2. q.awaits = c => q.view = "units"
      BY <2>6, CallsAssumption DEF TabOk
    <3> QED
      BY <1>2, <2>4, <2>5, <3>1, <3>2 DEF AwaitOk, Active
  <2>8. CallMoves
    BY <1>2 DEF Retired, CallMoves
  <2> QED
    BY <2>2, <2>4, <2>6, <2>7, <2>8 DEF TabMoves
<1>3. \/ Mount(x, session, to, calls)
      \/ /\ to = tab[x].view /\ call' = calls
         /\ tab' = [tab EXCEPT ![x].session = session, ![x].overlaid = Overlaid(x, session)]
  BY DEF Push, to
<1> QED
  BY <1>1, <1>2, <1>3

-----------------------------------------------------------------------------
(* Steps of the browser *)

(* What a step does to the forms: none gets an answered login back.        *)
FormsMove ==
  /\ form' \in [TabLogins -> Tabs \cup {None}]
  /\ \A s \in TabLogins : form[s] = None /\ login[s].pc = "LoggedIn" => form'[s] = None

(* What a step of tab x, which becomes q, does to localStorage and to the  *)
(* sessions that were logged out: it logs out its own at most.             *)
StorageMoves(x, q) ==
  /\ q.session \in {None, tab[x].session, storage, storage'}
  /\ \/ storage' = None /\ ended' \subseteq ended \cup ({tab[x].session} \ {None})
     \/ storage' = storage /\ ended' = ended
     \/ /\ storage' \in TabLogins /\ storage' \notin ended /\ ended' = ended
        /\ form'[storage'] = None /\ login[storage'].pc = "LoggedIn"

LEMMA BrowserKept ==
  ASSUME BrowserInv, [Next]_vars, NEW x \in Tabs, NEW q \in TabRecord,
         TabMoves(x, q), FormsMove, StorageMoves(x, q)
  PROVE  BrowserInv'
<1>1. SessionsInv'
  BY NextSessionsInv DEF BrowserInv
<1>2. ViewsOk' /\ tab' \in [Tabs -> TabRecord] /\ call' \in [Calls -> CallRecord]
  BY ViewsKept
<1>3. /\ tab'[x] = q /\ \A y \in Tabs \ {x} : tab'[y] = tab[y]
      /\ tab[x] \in TabRecord /\ storage \in Session /\ ended \subseteq LoginReq
  BY DEF TabMoves, BrowserInv, BrowserTypeOK
<1>4. /\ storage # None => Answered(storage) /\ storage \notin ended
      /\ \A y \in Tabs : tab[y].session # None => Answered(tab[y].session)
      /\ \A s \in ended : Answered(s)
  BY DEF BrowserInv, SessionsOk
<1>5. ASSUME NEW s, Answered(s)
      PROVE  s \in TabLogins /\ form'[s] = None /\ login'[s].pc = "LoggedIn"
  BY <1>5, ServerKeeps, RequestsOfTabs DEF Answered, FormsMove, BrowserInv
<1>6. storage' # None =>
        /\ storage' \in TabLogins /\ form'[storage'] = None
        /\ login'[storage'].pc = "LoggedIn" /\ storage' \notin ended'
  BY <1>4, <1>5, ServerKeeps, RequestsOfTabs DEF StorageMoves, BrowserInv
<1>7. q.session # None =>
        q.session \in TabLogins /\ form'[q.session] = None /\ login'[q.session].pc = "LoggedIn"
  BY <1>4, <1>5, <1>6 DEF StorageMoves
<1>8. \A s \in ended' : s \in TabLogins /\ form'[s] = None /\ login'[s].pc = "LoggedIn"
  BY <1>4, <1>5 DEF StorageMoves
<1>9. SessionsOk'
  BY <1>3, <1>4, <1>5, <1>6, <1>7, <1>8 DEF SessionsOk, Answered
<1>10. storage' \in Session /\ ended' \subseteq LoginReq
  BY <1>6, <1>8, RequestsOfTabs DEF Session
<1>11. BrowserTypeOK'
  BY <1>1, <1>2, <1>10 DEF FormsMove, BrowserTypeOK, SessionsInv
<1> QED
  BY <1>1, <1>2, <1>9, <1>11 DEF BrowserInv

(* The session of a tab is one that its client may send.                   *)
LEMMA OwnToken ==
  ASSUME BrowserInv
  PROVE  /\ storage \in Session /\ \A x \in Tabs : tab[x].session \in Sendable \cap Session
         /\ Retired(call)
BY RequestsOfTabs DEF BrowserInv, BrowserTypeOK, TabRecord, Session, SessionsOk, Answered,
                      Sendable, Retired

LEMMA LoggedOutStep ==
  ASSUME BrowserInv, NEW x \in Tabs, NEW calls, Retired(calls), LogOut(x, calls), FormsMove
  PROVE  [Next]_vars /\ BrowserInv'
<1>1. [Next]_vars
  BY OwnToken, RequestsOfTabs DEF LogOut, Next, Arrivals
<1>2. Push(x, None, "login", calls) /\ None \in Session /\ "login" \in Views
  BY DEF LogOut, Session, Views
<1>3. PICK q \in TabRecord : TabMoves(x, q) /\ q.session = None
  BY <1>2, Pushed
<1>4. StorageMoves(x, q)
  BY <1>3 DEF LogOut, StorageMoves
<1> QED
  BY <1>1, <1>3, <1>4, BrowserKept

(* What a user does: load, leave, send and log out.                        *)
LEMMA UserStep ==
  ASSUME BrowserInv, NEW x \in Tabs, UserSteps(x)
  PROVE  [Next]_vars /\ BrowserInv'
<1> DEFINE Goal == [Next]_vars /\ BrowserInv'
<1> SUFFICES Goal
  OBVIOUS
<1> HIDE DEF Goal
<1>0. /\ call \in [Calls -> CallRecord] /\ tab \in [Tabs -> TabRecord]
      /\ form \in [TabLogins -> Tabs \cup {None}]
  BY DEF BrowserInv, BrowserTypeOK
<1>d. Retired(Dropped(x)) /\ Dropped(x) \in [Calls -> CallRecord]
  <2>1. [NoCall EXCEPT !.pc = "Lost"] \in CallRecord /\ [NoCall EXCEPT !.pc = "Lost"].pc = "Lost"
    BY DEF NoCall, CallRecord, Session
  <2> QED
    BY <1>0, <2>1 DEF Dropped, Retired
<1>f. /\ form' = FormsWithout(x) => FormsMove
      /\ form' = form => FormsMove
  BY <1>0 DEF FormsWithout, FormsMove
<1>m. ASSUME UNCHANGED <<storage, ended>>, [Next]_vars, FormsMove, NEW q \in TabRecord,
             TabMoves(x, q), q.session \in {None, storage, tab[x].session}
      PROVE  Goal
  <2>1. StorageMoves(x, q)
    BY <1>m DEF StorageMoves
  <2> QED
    BY <1>m, <2>1, BrowserKept DEF Goal
<1>1. ASSUME NEW view \in Views, Load(x, view) PROVE Goal
  <2>1. /\ Mount(x, storage, Landing(storage, view), Dropped(x))
        /\ Landing(storage, view) \in Views
        /\ FormsMove /\ UNCHANGED <<storage, ended, vars>>
    BY <1>1, <1>f DEF Load, Landing, Views
  <2>2. PICK q \in TabRecord : TabMoves(x, q) /\ q.session = storage
    BY <1>d, <2>1, Mounted, OwnToken
  <2> QED
    BY <1>m, <2>1, <2>2
<1>2. ASSUME NEW view \in Views, Navigate(x, view) PROVE Goal
  <2>1. Push(x, tab[x].session, view, call) /\ FormsMove /\ UNCHANGED <<storage, ended, vars>>
    BY <1>2, <1>f DEF Navigate
  <2>2. PICK q \in TabRecord : TabMoves(x, q) /\ q.session = tab[x].session
    BY <2>1, Pushed, OwnToken
  <2> QED
    BY <1>m, <2>1, <2>2
<1>3. CASE Close(x)
  <2> DEFINE q == [Unopened EXCEPT !.view = "closed"]
  <2>1. /\ tab' = [tab EXCEPT ![x] = q] /\ call' = Dropped(x)
        /\ FormsMove /\ UNCHANGED <<storage, ended, vars>>
    BY <1>3, <1>f DEF Close
  <2>2. q \in TabRecord /\ q.session = None /\ q.shown = None /\ q.awaits = None
    BY DEF Unopened, TabRecord, Session
  <2> HIDE DEF q
  <2>3. CallMoves
    BY <1>d, <2>1 DEF Retired, CallMoves
  <2>4. TabMoves(x, q)
    BY <2>1, <2>2, <2>3, CallsAssumption DEF TabMoves, TabOk, AwaitOk, Own
  <2> QED
    BY <1>m, <2>1, <2>2, <2>4
<1>4. CASE Submit(x)
  <2> DEFINE c0 == NextCall(call)
             sent == SentBy(x, tab[x].session, "submit")
  <2>1. /\ c0 \in Calls /\ call[c0].pc = "idle" /\ call' = [call EXCEPT ![c0] = sent]
        /\ tab' = tab /\ FormsMove /\ UNCHANGED <<storage, ended, vars>>
    BY <1>4, <1>f DEF Submit, IdleCalls, NextCall
  <2>2. sent \in CallRecord /\ sent.pc = "sent" /\ sent.tab = x
    BY <1>0 DEF SentBy, CallRecord, TabRecord
  <2> HIDE DEF c0, sent
  <2>3. CallMoves
    BY <1>0, <2>1, <2>2 DEF CallMoves
  <2> QED
    BY <1>m, <2>1, <2>3, TabStays
<1>5. CASE ClickLogout(x)
  <2>1. LogOut(x, call) /\ FormsMove
    BY <1>5, <1>f DEF ClickLogout
  <2> QED
    BY <2>1, OwnToken, LoggedOutStep DEF Goal
<1>6. ASSUME NEW r \in TabLogins, NEW credentials \in {"right", "wrong"},
             SubmitLogin(x, r, credentials)
      PROVE  Goal
  <2>1. /\ LoginArrive(r, credentials) /\ login[r].pc = "idle"
        /\ form' = [form EXCEPT ![r] = x] /\ UNCHANGED <<storage, tab, call, ended>>
    BY <1>6 DEF SubmitLogin, LoginArrive
  <2>2. [Next]_vars
    BY <2>1, RequestsOfTabs DEF Next, Arrivals
  <2>3. FormsMove
    BY <1>0, <2>1 DEF FormsMove
  <2>4. CallMoves
    BY <1>0, <2>1 DEF CallMoves
  <2> QED
    BY <1>m, <2>1, <2>2, <2>3, <2>4, TabStays
<1> QED
  BY <1>1, <1>2, <1>3, <1>4, <1>5, <1>6 DEF UserSteps

(* A call is served, lost or answered.                                     *)
LEMMA CallStep ==
  ASSUME BrowserInv, NEW c \in Calls, CallServe(c) \/ CallLost(c) \/ Answers(c)
  PROVE  [Next]_vars /\ BrowserInv'
<1> DEFINE Goal == [Next]_vars /\ BrowserInv'
           x == call[c].tab
<1> SUFFICES Goal
  OBVIOUS
<1> HIDE DEF Goal
<1>0. /\ call \in [Calls -> CallRecord] /\ tab \in [Tabs -> TabRecord]
      /\ form \in [TabLogins -> Tabs \cup {None}]
      /\ call[c] \in CallRecord /\ CallOk(call[c])
  BY DEF BrowserInv, BrowserTypeOK, ViewsOk
<1>x. x \in Tabs
  BY <1>0 DEF CallOk, Active, CallServe, CallLost, Answers, CallRefused, UnitsArrive,
              SubmitAnswered
<1>d. /\ Done(c) \in [Calls -> CallRecord] /\ Done(c)[c].pc = "done"
      /\ \A b \in Calls \ {c} : Done(c)[b] = call[b]
      /\ Retired(Done(c))
  <2>1. [NoCall EXCEPT !.pc = "done"] \in CallRecord /\ [NoCall EXCEPT !.pc = "done"].pc = "done"
    BY DEF NoCall, CallRecord, Session
  <2> QED
    BY <1>0, <2>1 DEF Done, Retired
<1>f. form' = form => FormsMove
  BY <1>0 DEF FormsMove
<1> HIDE DEF x
<1>m. ASSUME UNCHANGED <<storage, form, ended, vars>>, NEW q \in TabRecord,
             TabMoves(x, q), q.session = tab[x].session
      PROVE  Goal
  <2>1. StorageMoves(x, q)
    BY <1>m DEF StorageMoves
  <2> QED
    BY <1>f, <1>m, <1>x, <2>1, BrowserKept DEF Goal
<1>n. ASSUME UNCHANGED <<storage, tab, form, ended, vars>>, CallMoves PROVE Goal
  <2>1. TabMoves(x, tab[x]) /\ tab[x] \in TabRecord
    BY <1>n, <1>x, TabStays
  <2> QED
    BY <1>m, <1>n, <2>1
<1>1. CASE CallServe(c)
  <2> DEFINE pc == IF AccessLives(call[c].bearer) THEN "ok" ELSE "refused"
             served == [call[c] EXCEPT !.pc = pc]
  <2>1. /\ call[c].pc = "sent" /\ call' = [call EXCEPT ![c] = served]
        /\ UNCHANGED <<storage, tab, form, ended, vars>>
    BY <1>1 DEF CallServe
  <2>2. pc \in {"ok", "refused"} /\ (pc = "refused" => ~AccessLives(call[c].bearer))
    OBVIOUS
  <2> HIDE DEF pc
  <2>3. /\ served \in CallRecord /\ served.pc = pc /\ served.tab = call[c].tab
        /\ served.bearer = call[c].bearer
    BY <1>0, <2>2 DEF CallRecord
  <2> HIDE DEF served
  <2>4. CallMoves
    BY <1>0, <2>1, <2>2, <2>3 DEF CallMoves
  <2> QED
    BY <1>n, <2>1, <2>4
<1>2. CASE CallLost(c)
  <2>1. [NoCall EXCEPT !.pc = "Lost"] \in CallRecord /\ [NoCall EXCEPT !.pc = "Lost"].pc = "Lost"
    BY DEF NoCall, CallRecord, Session
  <2>2. CallMoves
    BY <1>0, <1>2, <2>1 DEF CallLost, CallMoves
  <2> QED
    BY <1>2, <1>n, <2>2 DEF CallLost
<1>3. CASE CallRefused(c)
  BY <1>3, <1>d, <1>f, <1>x, LoggedOutStep DEF CallRefused, Goal, x
<1>4. CASE UnitsArrive(c)
  <2>1. /\ call[c].pc = "ok" /\ call' = Done(c) /\ UNCHANGED <<storage, form, ended, vars>>
        /\ tab' = IF tab[x].awaits = c
                  THEN [tab EXCEPT ![x].shown = call[c].bearer, ![x].awaits = None]
                  ELSE tab
    BY <1>4 DEF UnitsArrive, x
  <2>2. CallMoves
    BY <1>d, <2>1 DEF Retired, CallMoves
  <2>3. CASE tab[x].awaits = c
    <3> DEFINE q == [tab[x] EXCEPT !.shown = call[c].bearer, !.awaits = None]
    <3>1. tab[x] \in TabRecord /\ TabOk(tab[x]) /\ AwaitOk(tab[x], c, call[c])
      BY <1>0, <1>x DEF BrowserInv, ViewsOk
    <3>2. /\ q \in TabRecord /\ q.view = tab[x].view /\ q.session = tab[x].session
          /\ q.shown = call[c].bearer /\ q.awaits = None /\ q.overlaid = tab[x].overlaid
      BY <1>0, <3>1 DEF TabRecord, CallRecord
    <3>3. tab' = [tab EXCEPT ![x] = q]
      BY <1>0, <1>x, <2>1, <2>3
    <3> HIDE DEF q
    <3>4. TabOk(q)
      BY <2>1, <2>3, <3>1, <3>2, CallsAssumption
         DEF TabOk, AwaitOk, Own, MountedWith, Active
    <3>5. TabMoves(x, q)
      BY <2>2, <3>2, <3>3, <3>4, CallsAssumption DEF TabMoves, AwaitOk
    <3> QED
      BY <1>m, <2>1, <3>2, <3>5
  <2>4. CASE tab[x].awaits # c
    BY <1>n, <2>1, <2>2, <2>4
  <2> QED
    BY <2>3, <2>4
<1>5. CASE SubmitAnswered(c)
  <2>1. PICK view \in {"units", "form"} :
          /\ Push(x, tab[x].session, view, Done(c))
          /\ UNCHANGED <<storage, form, ended, vars>>
    BY <1>5 DEF SubmitAnswered, x
  <2>2. PICK q \in TabRecord : TabMoves(x, q) /\ q.session = tab[x].session
    <3>1. view \in Views
      BY DEF Views
    <3> QED
      BY <1>d, <1>x, <2>1, <3>1, Pushed, OwnToken
  <2> QED
    BY <1>m, <2>1, <2>2
<1> QED
  BY <1>1, <1>2, <1>3, <1>4, <1>5 DEF Answers

(* A login of a tab is answered, in whatever view the tab is by now.       *)
LEMMA LoginAnswerStep ==
  ASSUME BrowserInv, NEW r \in TabLogins, LoginAnswered(r) \/ LoginRefused(r)
  PROVE  [Next]_vars /\ BrowserInv'
<1>0. /\ form \in [TabLogins -> Tabs \cup {None}] /\ form[r] # None
      /\ form[r] \in Tabs /\ Retired(call)
  BY OwnToken DEF BrowserInv, BrowserTypeOK, LoginAnswered, LoginRefused
<1>f. form' = [form EXCEPT ![r] = None] => FormsMove
  BY <1>0 DEF FormsMove
<1>1. CASE LoginAnswered(r)
  <2>1. /\ login[r].pc = "LoggedIn" /\ storage' = r /\ Push(form[r], r, "units", call)
        /\ form' = [form EXCEPT ![r] = None] /\ UNCHANGED <<ended, vars>>
    BY <1>1 DEF LoginAnswered
  <2>2. PICK q \in TabRecord : TabMoves(form[r], q) /\ q.session = r
    <3>1. r \in Session /\ "units" \in Views
      BY RequestsOfTabs DEF Session, Views
    <3> QED
      BY <1>0, <2>1, <3>1, Pushed
  <2>3. r \notin ended
    BY <1>0 DEF BrowserInv, SessionsOk, Answered
  <2>4. StorageMoves(form[r], q)
    BY <1>0, <2>1, <2>2, <2>3 DEF StorageMoves
  <2> QED
    BY <1>0, <1>f, <2>1, <2>2, <2>4, BrowserKept
<1>2. CASE LoginRefused(r)
  BY <1>0, <1>2, <1>f, LoggedOutStep DEF LoginRefused
<1> QED
  BY <1>1, <1>2

(* The server, other clients and time leave the browser as it is.          *)
LEMMA ServerStep ==
  ASSUME BrowserInv, [Next]_vars, UNCHANGED browserVars
  PROVE  BrowserInv'
<1>1. SessionsInv'
  BY NextSessionsInv DEF BrowserInv
<1>2. BrowserTypeOK'
  BY <1>1 DEF SessionsInv, BrowserInv, BrowserTypeOK, browserVars
<1>3. \A s : Answered(s) => Answered(s)'
  BY ServerKeeps, RequestsOfTabs DEF BrowserInv, Answered, browserVars
<1>4. SessionsOk'
  BY ServerKeeps, RequestsOfTabs DEF BrowserInv, SessionsOk, Answered, browserVars
<1>5. ASSUME NEW c \in Calls PROVE CallOk(call[c])'
  <2>1. PICK k : k = call[c]
    OBVIOUS
  <2>2. CallOk(k) /\ \A b : ~AccessLives(b) => ~AccessLives(b)'
    BY <2>1, ServerKeeps DEF BrowserInv, ViewsOk
  <2>3. k.pc = "refused" => ~AccessLives(k.bearer)'
    BY <2>2 DEF CallOk
  <2>4. call'[c] = k
    BY <2>1 DEF browserVars
  <2> QED
    BY <2>2, <2>3, <2>4 DEF CallOk, AccessLives
<1>6. ViewsOk'
  BY <1>5 DEF BrowserInv, ViewsOk, TabOk, AwaitOk, Own, MountedWith, browserVars
<1> QED
  BY <1>1, <1>2, <1>4, <1>6 DEF BrowserInv

LEMMA NextBrowserInv ==
  BrowserInv /\ [BrowserNext]_allVars => BrowserInv' /\ [Next]_vars
<1> SUFFICES ASSUME BrowserInv, [BrowserNext]_allVars PROVE BrowserInv' /\ [Next]_vars
  OBVIOUS
<1>1. CASE Server /\ UNCHANGED browserVars
  <2>1. [Next]_vars
    BY <1>1 DEF Server, OtherClients, Next, Arrivals
  <2> QED
    BY <1>1, <2>1, ServerStep
<1>2. CASE UNCHANGED allVars
  BY <1>2, ServerStep DEF allVars
<1> QED
  BY <1>1, <1>2, UserStep, CallStep, LoginAnswerStep DEF BrowserNext

LEMMA BrowserReachable == BrowserSpec => []BrowserInv
<1>1. BrowserInit => BrowserInv
  BY InitBrowserInv
<1> QED
  BY <1>1, NextBrowserInv, PTL DEF BrowserSpec

-----------------------------------------------------------------------------
(* What the browser promises its users *)

(* A browser with any number of tabs is one of the clients that Sessions   *)
(* provides for: it sends what it may, and every promise of the server     *)
(* holds with it.                                                          *)
THEOREM BrowserIsAClient == BrowserSpec => Spec
<1>1. BrowserInit => Init
  BY DEF BrowserInit
<1> QED
  BY <1>1, BrowserReachable, NextBrowserInv, PTL DEF BrowserSpec, Spec

(* What the server promises of refresh tokens holds with the browser as    *)
(* one of its clients.                                                     *)
COROLLARY ServerPromises ==
  BrowserSpec => [](LoggedOutTokensStayOut /\ AccessDiesWithItsToken) /\ RevokedForEver
BY BrowserIsAClient, LoggedOutStayOut, AccessDies, Revocation, PTL

(* The variables of the browser keep their types.                          *)
THEOREM BrowserTyping == BrowserSpec => []BrowserTypeOK
<1>1. BrowserInv => BrowserTypeOK
  BY DEF BrowserInv
<1> QED
  BY BrowserReachable, <1>1, PTL

(* No page loads a session that the auth store of some tab has logged out, *)
(* whatever stale tabs write to localStorage later.                        *)
THEOREM Forgetting == BrowserSpec => []StorageForgetsLoggedOut
<1>1. BrowserInv => StorageForgetsLoggedOut
  BY NoneAssumption DEF BrowserInv, SessionsOk, BrowserTypeOK, StorageForgetsLoggedOut
<1> QED
  BY BrowserReachable, <1>1, PTL

(* A tab never shows the units of another session than its own, except     *)
(* those of the session its view was mounted with, under a login that was  *)
(* answered over it.                                                       *)
THEOREM OwnUnits == BrowserSpec => []StrangersSeeNothing
<1>1. BrowserInv => StrangersSeeNothing
  BY DEF BrowserInv, ViewsOk, TabOk, Own, MountedWith, StrangersSeeNothing
<1> QED
  BY BrowserReachable, <1>1, PTL

(* Calls are only done by their own answer, which keeps the session of the *)
(* tab unless the server refused it.                                       *)
LEMMA DoneCalls ==
  ASSUME BrowserInv, [BrowserNext]_allVars, NEW c \in Calls,
         call[c].pc \in {"ok", "refused"}, call'[c].pc = "done"
  PROVE  \/ tab'[call[c].tab].session = tab[call[c].tab].session
         \/ ~AccessLives(call[c].bearer)
<1> DEFINE Goal == \/ tab'[call[c].tab].session = tab[call[c].tab].session
                   \/ ~AccessLives(call[c].bearer)
<1> SUFFICES Goal
  OBVIOUS
<1> HIDE DEF Goal
<1>0. /\ call \in [Calls -> CallRecord] /\ tab \in [Tabs -> TabRecord] /\ CallOk(call[c])
      /\ \A x \in Tabs : tab[x].session \in Session
      /\ call[c].pc # "done"
  BY DEF BrowserInv, BrowserTypeOK, ViewsOk, TabRecord
<1>x. call[c].tab \in Tabs
  BY <1>0 DEF CallOk, Active
<1>k. call'[c] # call[c] /\ call'[c].pc \notin {"sent", "Lost"}
  BY <1>0
<1>l. [NoCall EXCEPT !.pc = "Lost"].pc = "Lost"
  BY DEF NoCall
<1>p. ASSUME NEW x \in Tabs, NEW session \in Session, NEW view \in Views, NEW calls,
             Retired(calls), Push(x, session, view, calls) \/ Mount(x, session, view, calls)
      PROVE  /\ calls[c] # call[c] /\ calls[c].pc # "Lost"
             /\ tab'[x].session = session
  <2>1. /\ \E q \in TabRecord : TabMoves(x, q) /\ q.session = session
        /\ call'[c] = calls[c] \/ call'[c].pc = "sent"
    BY <1>p, Pushed, Mounted
  <2> QED
    BY <1>0, <1>k, <2>1 DEF TabMoves
<1>o. /\ \A b \in Calls : Retired(Done(b)) /\ (b # c => Done(b)[c] = call[c])
      /\ \A x \in Tabs : Retired(Dropped(x)) /\ (Dropped(x)[c] = call[c]
                                                 \/ Dropped(x)[c].pc = "Lost")
      /\ Retired(call)
  <2>1. /\ [NoCall EXCEPT !.pc = "done"] \in CallRecord
        /\ [NoCall EXCEPT !.pc = "Lost"] \in CallRecord
        /\ [NoCall EXCEPT !.pc = "done"].pc = "done"
    BY DEF NoCall, CallRecord, Session
  <2> QED
    BY <1>0, <1>l, <2>1 DEF Retired, Done, Dropped
<1>q. None \in Session /\ "login" \in Views /\ "units" \in Views
  BY DEF Session, Views
<1>1. ASSUME NEW x \in Tabs, UserSteps(x) PROVE Goal
  <2>1. ASSUME NEW view \in Views, Load(x, view) PROVE FALSE
    <3>1. Landing(storage, view) \in Views /\ storage \in Session
      BY DEF Landing, Views, BrowserInv, BrowserTypeOK
    <3> QED
      BY <1>o, <1>p, <2>1, <3>1 DEF Load
  <2>2. ASSUME NEW view \in Views, Navigate(x, view) PROVE FALSE
    BY <1>0, <1>o, <1>p, <2>2 DEF Navigate
  <2>3. ASSUME Close(x) PROVE FALSE
    BY <1>k, <1>o, <2>3 DEF Close
  <2>4. ASSUME Submit(x) PROVE FALSE
    <3>1. call'[c] = call[c] \/ call'[c].pc = "sent"
      BY <1>0, <2>4 DEF Submit, SentBy
    <3> QED
      BY <1>k, <3>1
  <2>5. ASSUME ClickLogout(x) PROVE FALSE
    BY <1>o, <1>p, <1>q, <2>5 DEF ClickLogout, LogOut
  <2>6. ASSUME NEW r \in TabLogins, NEW cr \in {"right", "wrong"}, SubmitLogin(x, r, cr)
        PROVE  FALSE
    BY <1>k, <2>6 DEF SubmitLogin
  <2> QED
    BY <1>1, <2>1, <2>2, <2>3, <2>4, <2>5, <2>6 DEF UserSteps
<1>2. ASSUME NEW b \in Calls, CallServe(b) \/ CallLost(b) PROVE Goal
  <2>1. CASE CallServe(b)
    <3>1. call' = [call EXCEPT ![b].pc = IF AccessLives(call[b].bearer) THEN "ok" ELSE "refused"]
      BY <2>1 DEF CallServe
    <3>2. call'[c] = call[c] \/ call'[c].pc \in {"ok", "refused"}
      BY <1>0, <3>1 DEF CallRecord
    <3> QED
      BY <1>k, <3>2
  <2>2. CASE CallLost(b)
    <3>1. call' = [call EXCEPT ![b] = [NoCall EXCEPT !.pc = "Lost"]]
      BY <2>2 DEF CallLost
    <3>2. call'[c] = call[c] \/ call'[c].pc = "Lost"
      BY <1>0, <1>l, <3>1
    <3> QED
      BY <1>k, <3>2
  <2> QED
    BY <1>2, <2>1, <2>2
<1>3. ASSUME NEW b \in Calls, Answers(b) PROVE Goal
  <2>1. CASE CallRefused(b)
    <3>1. call[b].tab \in Tabs /\ (b = c => ~AccessLives(call[c].bearer))
      BY <2>1 DEF CallRefused, BrowserInv, ViewsOk, CallOk, Active
    <3>2. b = c
      BY <1>o, <1>p, <1>q, <2>1, <3>1 DEF CallRefused, LogOut
    <3> QED
      BY <3>1, <3>2 DEF Goal
  <2>2. CASE UnitsArrive(b)
    <3>1. b = c
      BY <1>k, <1>o, <2>2 DEF UnitsArrive
    <3> QED
      BY <1>0, <1>x, <2>2, <3>1 DEF UnitsArrive, TabRecord, Goal
  <2>3. CASE SubmitAnswered(b)
    <3>1. call[b].tab \in Tabs
      BY <2>3 DEF SubmitAnswered, BrowserInv, ViewsOk, CallOk, Active
    <3>2. PICK view \in Views : Push(call[b].tab, tab[call[b].tab].session, view, Done(b))
      BY <2>3 DEF SubmitAnswered, Views
    <3>3. b = c /\ tab'[call[b].tab].session = tab[call[b].tab].session
      BY <1>0, <1>o, <1>p, <1>q, <3>1, <3>2
    <3> QED
      BY <3>3 DEF Goal
  <2> QED
    BY <1>3, <2>1, <2>2, <2>3 DEF Answers
<1>4. ASSUME NEW r \in TabLogins, LoginAnswered(r) \/ LoginRefused(r) PROVE Goal
  <2>1. form[r] \in Tabs /\ r \in Session
    BY <1>4, RequestsOfTabs DEF LoginAnswered, LoginRefused, BrowserInv, BrowserTypeOK, Session
  <2> QED
    BY <1>4, <1>o, <1>p, <1>q, <2>1 DEF LoginAnswered, LoginRefused, LogOut
<1>5. ~(Server /\ UNCHANGED browserVars) /\ ~UNCHANGED allVars
  BY <1>k DEF browserVars, allVars
<1> QED
  BY <1>1, <1>2, <1>3, <1>4, <1>5 DEF BrowserNext

(* The interceptor of the API client logs out whoever uses the tab, but    *)
(* only for an answer to a call whose access token has expired.            *)
THEOREM LateAnswers == BrowserSpec => LiveCallsEndNoSession
<1>1. BrowserInv /\ [BrowserNext]_allVars =>
        [\A c \in Calls :
           /\ call[c].pc \in {"ok", "refused"} /\ call'[c].pc = "done"
           /\ call[c].bearer # None
           /\ \A a \in access : a.token = call[c].bearer => clock < a.expiresAt
           => tab'[call[c].tab].session = tab[call[c].tab].session]_allVars
  BY DoneCalls DEF AccessLives
<1> QED
  BY BrowserReachable, <1>1, PTL DEF BrowserSpec, LiveCallsEndNoSession
=============================================================================
