SPECIFICATION Spec
CONSTANTS
  Nil = Nil
  EvFlags = {"f", "g"}
  EvContexts = {"a"}
  EvVariations = {0, 1}
  Events <- FourEvents
  Trackers = {"t1", "t2"}
  MaxBatch = 2
  Tokens = {"x1", "x2", "x3"}
  Refreshers = {"r1", "r2"}
  Admin = "admin"
  NoToken = "none"
  NoUser = "nobody"
  LimitKeys = {"k1", "k2"}
  Burst = 3
  IdleLimit = 4
  NoEntry = NoEntry
  ItemKeys = {"p", "q"}
  Items = {1, 2}
  NoItem = NoItem
  NoSnap = NoSnap
  MaxVersion = 2
INVARIANTS
  NothingLost
  StoredOnce
  QueriesAgree
  SessionsNeverFork
  ForgettingIsInvisible
  ReadyMeansSnapshot
  PatchesFollow
PROPERTIES
  EventsGetStored
  CloseComesBack
  SelfHeals
CHECK_DEADLOCK FALSE
