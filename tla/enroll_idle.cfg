\* A binding nobody withdraws, in a deployment where nobody enrolls for long.
CONSTANTS
  f1 = f1  f2 = f2  b1 = b1  b2 = b2  owner = owner  other = other
  Flow = {f1}
  AccountOf <- MCAccountOf
  Browser = {b1}
  SignsInAs <- MCSignsInAs
  Tx = {x1}
  Binding = {d1}
  Request = {r1}
  Offered = {"begin", "resume", "sweep"}
  FLOW_TTL = 1  OIDC_TTL = 1  IDLE_CLIENT_TTL = 1  UNUSED_CLIENT_TTL = 1
  PER_BROWSER = 1
  Faults = {}
  MaxClock = 3
  None = None
SPECIFICATION Spec
SYMMETRY MCSymmetry
INVARIANT OnlyItsOwnerEnds
CHECK_DEADLOCK FALSE
