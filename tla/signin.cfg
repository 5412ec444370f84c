\* Custody: every path of an app password, under a registration that runs out; any fault.
\* Decision: two presses of both buttons while the switch turns and a sweep runs.
CONSTANTS
  c1 = c1
  Flow = {f1, f2}
  Client = {c1}
  ClientOf <- MCClientOf
  Request = {r1, r2}
  f1 = f1
  Offered <- MCOffered
  First = {"authorize", "screen", "approve", "deny", "exchange", "disconnect", "purge"}
  Second = {"authorize"}
  Pressed = {"authorize", "screen", "approve", "deny", "pause"}
  FLOW_TTL = 1  AUTH_CODE_TTL = 1  REFRESH_TOKEN_TTL = 1
  UNUSED_CLIENT_TTL = 1  IDLE_CLIENT_TTL = 1
  CodeLasts = 3  ClientLasts = 9
  SWEEP_LIMIT = 1
  MaxClock = 2
  Faults = {"crash", "lost", "unreadable"}
  None = None
SPECIFICATION SceneSpec
INVARIANTS TypeOK LostOnlyUnseen OneDecision
PROPERTIES GrantedIsKept DoomedIsForgotten
CHECK_DEADLOCK FALSE
