\* A registration runs out while a sign-in under it is being finished.
CONSTANTS
  c1 = c1
  Flow = {f1, f2}
  Client = {c1}
  ClientOf <- MCClientOf
  Request = {r1, r2}
  f1 = f1
  Offered <- MCOffered
  First = {"authorize", "screen"}
  Second = {"authorize"}
  FLOW_TTL = 1  AUTH_CODE_TTL = 1  REFRESH_TOKEN_TTL = 1
  UNUSED_CLIENT_TTL = 1  IDLE_CLIENT_TTL = 1
  SWEEP_LIMIT = 1
  MaxClock = 2
  Faults = {}
  None = None
SPECIFICATION Spec
INVARIANT PasswordAccounted
CHECK_DEADLOCK FALSE
