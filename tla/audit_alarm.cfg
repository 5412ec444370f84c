\* A check while a sweep commits between its statements.
CONSTANTS
  alice = alice
  User = {alice}
  Instance = instance
  Exchange = exchange
  Rank <- MCRank
  Task = {t1, t2}
  Scenario = {{"call", "drift", "check"}}
  RETENTION_DAYS = 1  USER_SILENCE_DAYS = 0
  SIZE_LIMIT = 4
  SWEEP_EVERY = 2  SWEEP_USER_CHECK_EVERY = 2  SWEEP_BATCH_ROWS = 2  SWEEP_MAX_ROUNDS = 2
  REFUSAL_WINDOW_SECONDS = 1
  MaxClock = 1  MaxSeq = 6  MaxSwallowed = 1
SPECIFICATION Spec
SYMMETRY MCSymmetry
INVARIANT CheckIsHonest
