----------------------------- MODULE MCBrowser -----------------------------
(***************************************************************************)
(* Instances of Browser for TLC, from four scenarios.                      *)
(***************************************************************************)
EXTENDS Browser, TLC

CONSTANTS w1, w2, c1, c2, t0, t1, t2, g1, g2, h1, f1

(* The tabs that may be opened, at a time, and the requests that may come. *)
Scenario(tabs, requests, now) ==
  LET pc(q) == IF q \in requests THEN "idle" ELSE "Lost" IN
  /\ clock = now
  /\ tokens = [t \in LoginReq |-> None]
  /\ access = {}
  /\ login = [r \in LoginReq |-> [pc |-> pc(r), credentials |-> "right", expiresAt |-> 0]]
  /\ refresh = [r \in RefreshReq |->
       [pc |-> pc(r), token |-> None, read |-> None, late |-> "intime"]]
  /\ logout = [r \in LogoutReq |-> [pc |-> pc(r), token |-> None, was |-> "usable"]]
  /\ storage = None
  /\ tab = [z \in Tabs |->
       [Unopened EXCEPT !.view = IF z \in tabs THEN "unopened" ELSE "closed"]]
  /\ call = [c \in Calls |-> [NoCall EXCEPT !.pc = pc(c)]]
  /\ form = [r \in TabLogins |-> None]
  /\ ended = {}

(* Other clients exchange and log out one token while it expires; a tab    *)
(* has two sessions one after the other, and calls of both; two tabs share *)
(* a session that one of them logs out; two tabs have two sessions.        *)
MCInit == \/ Scenario({}, {t0, f1, g1, g2}, 0)
          \/ Scenario({w1}, {t1, t2, c1, c2}, MaxTime - 1)
          \/ Scenario({w1, w2}, {t1, c1, h1}, MaxTime - 1)
          \/ Scenario({w1, w2}, {t1, t2, h1}, MaxTime)

MCSpec == MCInit /\ [][BrowserNext]_allVars /\ Fairness
=============================================================================
