\* A connection is ended, and whoever ended it dies before Nextcloud was asked.
CONSTANTS
  c1 = c1
  Flow = {f1, f2}
  Client = {c1}
  ClientOf <- MCClientOf
  Request = {r1, r2}
  f1 = f1
  Offered <- MCOffered
  First = {"authorize", "screen", "approve", "disconnect"}
  Second = {"authorize"}
  FLOW_TTL = 1  AUTH_CODE_TTL = 1  REFRESH_TOKEN_TTL = 1
  UNUSED_CLIENT_TTL = 9  IDLE_CLIENT_TTL = 9
  SWEEP_LIMIT = 1
  MaxClock = 3
  Faults = {"crash"}
  None = None
SPECIFICATION Spec
INVARIANT NotedIsSwept
CHECK_DEADLOCK FALSE
