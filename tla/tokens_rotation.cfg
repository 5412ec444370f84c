\* Two workers rotate, replay and end the tokens of one connection; either may die.
CONSTANTS
  w1 = w1  w2 = w2
  Auth = {a1}
  Family = {f1, f2}
  Refresh = {t1, t2, t3}
  Access = {k1, k2}
  Worker = {w1, w2}
  Request = {r1, r2}
  WorkerOf <- MCWorkerOf
  Offered = {"code", "refresh", "revoke"}
  GRACE = 1  CODE_TTL = 1  ACCESS_TTL = 2  REFRESH_TTL = 2  CACHE_TTL = 1
  HELD_LIMIT = 1  CACHE_LIMIT = 1
  MaxClock = 2
  Crashes = TRUE
  None = None
SPECIFICATION Spec
SYMMETRY MCSymmetry
INVARIANTS SingleBranch OneFamily GraceRepeatsTheAnswer
PROPERTIES EndIsFinal ImplementsChain
CHECK_DEADLOCK FALSE
