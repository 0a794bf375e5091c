\* Two tabs with two logins and two calls, or, without tabs, a refresh and two
\* logouts of one token, or of none, while it expires.
SPECIFICATION MCSpec
CONSTANTS
  LoginReq = {t0, t1, t2}
  TabLogins = {t1, t2}
  RefreshReq = {f1}
  LogoutReq = {g1, g2, h1}
  TabLogouts = {h1}
  Tabs = {w1, w2}
  Calls = {c1, c2}
  AccessTTL = 1
  RefreshTTL = 2
  MaxTime = 3
  None = None
  w1 = w1
  w2 = w2
  c1 = c1
  c2 = c2
  t0 = t0
  t1 = t1
  t2 = t2
  g1 = g1
  g2 = g2
  h1 = h1
  f1 = f1
INVARIANTS
  BrowserTypeOK
  LoggedOutTokensStayOut
  AccessDiesWithItsToken
  StorageForgetsLoggedOut
  StrangersSeeNothing
PROPERTIES
  RevokedForEver
  LogoutsTakeEffect
  LiveCallsEndNoSession
CHECK_DEADLOCK FALSE
