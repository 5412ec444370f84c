\* Two enrollments of one account are settled at the same time.
CONSTANTS
  f1 = f1  f2 = f2  b1 = b1  b2 = b2  owner = owner  other = other
  Flow = {f1, f2}
  AccountOf <- MCAccountOf
  Browser = {b1}
  SignsInAs <- MCSignsInAs
  Tx = {x1, x2}
  Binding = {d1, d2}
  Request = {r1, r2}
  Offered = {"begin", "resume"}
  FLOW_TTL = 1  OIDC_TTL = 1  IDLE_CLIENT_TTL = 1  UNUSED_CLIENT_TTL = 1
  PER_BROWSER = 2
  Faults = {}
  MaxClock = 0
  None = None
SPECIFICATION Spec
SYMMETRY MCSymmetry
INVARIANT OneLivingBinding
CHECK_DEADLOCK FALSE
