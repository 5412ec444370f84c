\* One connection is used, replayed and ended from several sides; nobody dies.
CONSTANTS
  w1 = w1  w2 = w2
  Auth = {a1}
  Family = {f1}
  Refresh = {t1, t2}
  Access = {k1, k2}
  Worker = {w1, w2}
  Request = {r1, r2}
  WorkerOf <- MCWorkerOf
  Offered = {"code", "refresh", "disconnect", "verify"}
  GRACE = 0  CODE_TTL = 1  ACCESS_TTL = 2  REFRESH_TTL = 2  CACHE_TTL = 1
  HELD_LIMIT = 1  CACHE_LIMIT = 1
  MaxClock = 1
  Crashes = FALSE
  None = None
SPECIFICATION FairSpec
INVARIANTS TypeOK NoLateAdmission EndedIsAccounted DeadFamilyIsEnded
PROPERTIES NoteIsHonest ReplayEndsTheConnection
CHECK_DEADLOCK FALSE
