\* A logout of an expired token is answered 204.
SPECIFICATION Spec
CONSTANTS
  LoginReq = {t1}
  RefreshReq = {f1}
  LogoutReq = {g1}
  AccessTTL = 1
  RefreshTTL = 2
  MaxTime = 3
  None = None
INVARIANT DeadTokensAreRefused
CHECK_DEADLOCK FALSE
