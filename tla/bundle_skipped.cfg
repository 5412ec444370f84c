\* A hit whose file the lookup does not find, in an answer that is complete otherwise.
CONSTANTS
  Hit <- TwoHits
  Provider <- OneProvider  Calendar <- NoNames  Account <- NoNames
  ProviderOf <- ProviderOfEach  KindOf <- KindOfEach  NeedOf <- NeedOfEach  FlawOf <- AnyFlaw
  Tagged <- NoNames  TaggedFolder = FALSE  Sandbox = TRUE
  Event <- NoSource  Rooms <- NoNames  Filed <- NoNames  Inbox <- NoSource
  SEARCH_LIMIT = 4  MAX_PER_BUCKET = 2  MAX_EVENTS = 1  MAX_CONVERSATIONS = 1  MAX_DIGEST = 1
  MAX_MAIL_ACCOUNTS = 1  MAX_EXCERPTS = 1
  Outcomes = {"ok"}
SPECIFICATION Spec
INVARIANTS SkippedIsTold
CHECK_DEADLOCK FALSE
