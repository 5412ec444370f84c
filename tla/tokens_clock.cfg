\* Two rotations of the same token across the turn of a second, nobody dies.
CONSTANTS
  w1 = w1  w2 = w2
  Auth = {a1}
  Family = {f1}
  Refresh = {t1, t2}
  Access = {k1}
  Worker = {w1, w2}
  Request = {r1, r2}
  WorkerOf <- MCWorkerOf
  Offered = {"code", "refresh"}
  GRACE = 2  CODE_TTL = 2  ACCESS_TTL = 2  REFRESH_TTL = 4  CACHE_TTL = 1
  HELD_LIMIT = 2  CACHE_LIMIT = 2
  MaxClock = 1
  Crashes = FALSE
  None = None
SPECIFICATION Spec
INVARIANT RetryIsNoAttack
CHECK_DEADLOCK FALSE
