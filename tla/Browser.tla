------------------------------- MODULE Browser -------------------------------
(***************************************************************************)
(* The browser client over Sessions: tabs of one browser, each with the    *)
(* tokens its store read when it was loaded, the localStorage they share,  *)
(* and the requests they await.  A pair of tokens is named by the login    *)
(* that issued it, since the store only ever sets both at once; the client *)
(* never calls refresh.                                                    *)
(*                                                                         *)
(* A request that a tab sends may be lost on its way, and is when none of  *)
(* the bounded requests is left.                                           *)
(***************************************************************************)
EXTENDS Sessions

CONSTANTS Tabs,
          Calls,       \* calls of the protected API that tabs may send: a bound
          TabLogins,   \* logins sent by tabs; the others are of other clients
          TabLogouts   \* and logouts

ASSUME RequestsOfTabs == TabLogins \subseteq LoginReq /\ TabLogouts \subseteq LogoutReq
ASSUME CallsAssumption == None \notin Calls

VARIABLES
  storage,   \* localStorage
  tab,
  call,
  form,      \* form[r]: the tab that awaits the answer of login r
  ended      \* history: the sessions that some tab has logged out

browserVars == <<storage, tab, call, form, ended>>
allVars == <<vars, browserVars>>

Session == LoginReq \cup {None}

(* "login" stands for the public views, "form" for those that submit.      *)
(* shown: the session whose units are displayed.  awaits: the call whose   *)
(* answer the mounted view displays.  overlaid is a history variable: the  *)
(* session the view was mounted with, if another was logged in over it.    *)
Views == {"login", "units", "form"}
TabRecord == [view: Views \cup {"unopened", "closed"}, session: Session, shown: Session,
              awaits: Calls \cup {None}, overlaid: Session]
CallRecord == [pc: {"idle", "sent", "ok", "refused", "done", "Lost"}, tab: Tabs \cup {None},
               bearer: Session, kind: {"getMyUnits", "submit"}]

Unopened == [view |-> "unopened", session |-> None, shown |-> None, awaits |-> None,
             overlaid |-> None]
NoCall == [pc |-> "idle", tab |-> None, bearer |-> None, kind |-> "submit"]

BrowserInit == /\ Init
               /\ storage = None
               /\ tab = [x \in Tabs |-> Unopened]
               /\ call = [c \in Calls |-> NoCall]
               /\ form = [r \in TabLogins |-> None]
               /\ ended = {}

-----------------------------------------------------------------------------
(* Requests and views.  Calls are alike: the next unused one is taken.     *)

IdleCalls(calls) == {c \in Calls : calls[c].pc = "idle"}
NextCall(calls) == CHOOSE c \in IdleCalls(calls) : TRUE

\* Mutant: calls carry the tokens of localStorage.
SentWithStorage(x, session, kind) ==
  [pc |-> "sent", tab |-> x, bearer |-> storage, kind |-> kind]

(* The request interceptor adds the bearer token of the tab.               *)
SentBy(x, session, kind) == [pc |-> "sent", tab |-> x, bearer |-> session, kind |-> kind]

(* router.beforeEach                                                       *)
Landing(session, view) == IF session = None THEN "login" ELSE view

(* A view that is mounted shows nothing yet; MyUnitsView asks for its data.*)
Mount(x, session, view, calls) ==
  LET mounted == [Unopened EXCEPT !.view = view, !.session = session]
      c == NextCall(calls)
  IN \/ tab' = [tab EXCEPT ![x] = mounted] /\ call' = calls
     \/ /\ view = "units" /\ IdleCalls(calls) # {}
        /\ tab' = [tab EXCEPT ![x] = [mounted EXCEPT !.awaits = c]]
        /\ call' = [calls EXCEPT ![c] = SentBy(x, session, "getMyUnits")]

(* The session x was mounted with, once another is logged in over it.      *)
Overlaid(x, session) == IF session \in {None, tab[x].session} \/ tab[x].overlaid # None
                        THEN tab[x].overlaid ELSE tab[x].session

(* router.push: a push to the view that is shown mounts nothing.           *)
Push(x, session, view, calls) ==
  LET to == Landing(session, view) IN
  \/ to # tab[x].view /\ Mount(x, session, to, calls)
  \/ /\ to = tab[x].view
     /\ tab' = [tab EXCEPT ![x].session = session, ![x].overlaid = Overlaid(x, session)]
     /\ call' = calls

\* Mutant: the store forgets its tokens and leaves localStorage as it is.
LogOutMemoryOnly(x, calls) ==
  LET s == tab[x].session IN
  /\ storage' = storage
  /\ ended' = ended \cup ({s} \ {None})
  /\ Push(x, None, "login", calls)
  /\ \/ UNCHANGED vars
     \/ s # None /\ \E g \in TabLogouts : LogoutArrive(g, s)

(* The store's logout, then the push to the login view that both of its    *)
(* callers do: the tokens are cleared whoever wrote them, and revoking     *)
(* those of the tab is tried once.                                         *)
LogOut(x, calls) ==
  LET s == tab[x].session IN
  /\ storage' = None
  /\ ended' = ended \cup ({s} \ {None})
  /\ Push(x, None, "login", calls)
  /\ \/ UNCHANGED vars
     \/ s # None /\ \E g \in TabLogouts : LogoutArrive(g, s)

-----------------------------------------------------------------------------
(* What the user does *)

IsOpen(x) == tab[x].view \in Views

(* A page load makes a new store; what the page before it awaited is       *)
(* dropped.                                                                *)
Dropped(x) == [c \in Calls |-> IF call[c].tab = x THEN [NoCall EXCEPT !.pc = "Lost"]
                                                  ELSE call[c]]
FormsWithout(x) == [r \in TabLogins |-> IF form[r] = x THEN None ELSE form[r]]

Load(x, view) ==
  /\ tab[x].view # "closed"
  /\ Mount(x, storage, Landing(storage, view), Dropped(x))
  /\ form' = FormsWithout(x)
  /\ UNCHANGED <<storage, ended, vars>>

Close(x) ==
  /\ IsOpen(x)
  /\ tab' = [tab EXCEPT ![x] = [Unopened EXCEPT !.view = "closed"]]
  /\ call' = Dropped(x)
  /\ form' = FormsWithout(x)
  /\ UNCHANGED <<storage, ended, vars>>

(* A link, the back button.                                                *)
Navigate(x, view) ==
  /\ IsOpen(x) /\ view # tab[x].view
  /\ Push(x, tab[x].session, view, call)
  /\ UNCHANGED <<storage, form, ended, vars>>

SubmitLogin(x, r, credentials) ==
  /\ tab[x].view = "login"
  /\ LoginArrive(r, credentials)
  /\ form' = [form EXCEPT ![r] = x]
  /\ UNCHANGED <<storage, tab, call, ended>>

Submit(x) ==
  /\ tab[x].view = "form" /\ IdleCalls(call) # {}
  /\ call' = [call EXCEPT ![NextCall(call)] = SentBy(x, tab[x].session, "submit")]
  /\ UNCHANGED <<storage, tab, form, ended, vars>>

ClickLogout(x) == /\ IsOpen(x) /\ tab[x].session # None
                  /\ LogOut(x, call)
                  /\ UNCHANGED form

-----------------------------------------------------------------------------
(* The server's side of a call, and answers.  An error that is not a 401   *)
(* changes nothing in the client: it is like a lost answer.                *)

\* Mutant: a token is refused one unit of time early.
AccessLivesShorter(session) ==
  session # None /\ \A a \in access : a.token = session => clock + 1 < a.expiresAt

(* The access token of the client is the first its session issued.         *)
AccessLives(session) ==
  session # None /\ \A a \in access : a.token = session => clock < a.expiresAt

CallServe(c) ==
  /\ call[c].pc = "sent"
  /\ call' = [call EXCEPT ![c].pc = IF AccessLives(call[c].bearer) THEN "ok" ELSE "refused"]
  /\ UNCHANGED <<storage, tab, form, ended, vars>>

CallLost(c) == /\ call[c].pc \in {"sent", "ok", "refused"}
               /\ call' = [call EXCEPT ![c] = [NoCall EXCEPT !.pc = "Lost"]]
               /\ UNCHANGED <<storage, tab, form, ended, vars>>

Done(c) == [call EXCEPT ![c] = [NoCall EXCEPT !.pc = "done"]]

(* The response interceptor logs out whoever uses the tab by now.          *)
CallRefused(c) == /\ call[c].pc = "refused"
                  /\ LogOut(call[c].tab, Done(c))
                  /\ UNCHANGED form

UnitsArrive(c) ==
  LET x == call[c].tab IN
  /\ call[c].pc = "ok" /\ call[c].kind = "getMyUnits"
  /\ tab' = IF tab[x].awaits = c
            THEN [tab EXCEPT ![x].shown = call[c].bearer, ![x].awaits = None]
            ELSE tab
  /\ call' = Done(c)
  /\ UNCHANGED <<storage, form, ended, vars>>

(* The handler of a form pushes whatever is shown by now: to my-units, or  *)
(* to the community it has created.                                        *)
SubmitAnswered(c) ==
  LET x == call[c].tab IN
  /\ call[c].pc = "ok" /\ call[c].kind = "submit"
  /\ \E view \in {"units", "form"} : Push(x, tab[x].session, view, Done(c))
  /\ UNCHANGED <<storage, form, ended, vars>>

(* setTokens, over the tokens of whatever session there is.                *)
LoginAnswered(r) ==
  /\ login[r].pc = "LoggedIn" /\ form[r] # None
  /\ storage' = r
  /\ Push(form[r], r, "units", call)
  /\ form' = [form EXCEPT ![r] = None]
  /\ UNCHANGED <<ended, vars>>

LoginRefused(r) ==
  /\ login[r].pc = "InvalidCredentials" /\ form[r] # None
  /\ LogOut(form[r], call)
  /\ form' = [form EXCEPT ![r] = None]

-----------------------------------------------------------------------------
(* The system: the tabs, other clients, and the server.                    *)

UserSteps(x) ==
  \/ \E view \in Views : Load(x, view) \/ Navigate(x, view)
  \/ Close(x) \/ Submit(x) \/ ClickLogout(x)
  \/ \E r \in TabLogins, credentials \in {"right", "wrong"} : SubmitLogin(x, r, credentials)

Answers(c) == CallRefused(c) \/ UnitsArrive(c) \/ SubmitAnswered(c)

OtherClients ==
  \/ \E r \in LoginReq \ TabLogins, credentials \in {"right", "wrong"} :
       LoginArrive(r, credentials)
  \/ \E r \in RefreshReq, t \in Sendable : RefreshArrive(r, t)
  \/ \E r \in LogoutReq \ TabLogouts, t \in Sendable : LogoutArrive(r, t)

Server == \/ Tick \/ Losses \/ OtherClients
          \/ \E r \in LoginReq : LoginProgress(r)
          \/ \E r \in RefreshReq : RefreshProgress(r)
          \/ \E r \in LogoutReq : LogoutProgress(r)

BrowserNext ==
  \/ Server /\ UNCHANGED browserVars
  \/ \E x \in Tabs : UserSteps(x)
  \/ \E c \in Calls : CallServe(c) \/ CallLost(c) \/ Answers(c)
  \/ \E r \in TabLogins : LoginAnswered(r) \/ LoginRefused(r)

BrowserSpec == BrowserInit /\ [][BrowserNext]_allVars /\ Fairness
-----------------------------------------------------------------------------
(* Properties *)

(* Every variable keeps its type, those of the server included.            *)
BrowserTypeOK ==
  /\ TypeOK
  /\ storage \in Session
  /\ tab \in [Tabs -> TabRecord]
  /\ call \in [Calls -> CallRecord]
  /\ form \in [TabLogins -> Tabs \cup {None}]
  /\ ended \subseteq LoginReq

(* "The user is logged out client-side regardless": once any tab has       *)
(* logged a session out, localStorage never holds it again, whatever the   *)
(* other tabs do, so no page loaded later resumes it.                      *)
StorageForgetsLoggedOut == storage \notin ended

(* MyUnitsView displays what was asked for with the tokens the tab has     *)
(* now, and a tab without tokens displays nothing.  The exception is a     *)
(* login answered after its form was left for my-units: the push mounts    *)
(* nothing, and the units of the session the view was mounted with stay,   *)
(* or come late; never those of any other.                                 *)
StrangersSeeNothing ==
  \A x \in Tabs :
    \/ tab[x].shown \in {None, tab[x].session}
    \/ tab[x].session # None /\ tab[x].shown = tab[x].overlaid

(* The answer to a call whose access token still lives ends nobody's       *)
(* session, however late it comes and whoever uses the tab by then.  Of    *)
(* the answers to calls, only those to expired ones do, and a login that   *)
(* is refused, which is no such call.                                      *)
LiveCallsEndNoSession ==
  [][\A c \in Calls :
       /\ call[c].pc \in {"ok", "refused"} /\ call'[c].pc = "done"
       /\ call[c].bearer # None
       /\ \A a \in access : a.token = call[c].bearer => clock < a.expiresAt
       => tab'[call[c].tab].session = tab[call[c].tab].session]_allVars
=============================================================================
