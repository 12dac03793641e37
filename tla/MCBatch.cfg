SPECIFICATION FairSpec
CONSTANTS
  Handlers = {h1, h2, h3}
  Bids = {b1, b2, b3}
  LeavesAtOnce = TRUE
  MayEvict = TRUE
  LeaseLimit = 2
  MaxFailures = 1
INVARIANTS
  SemaphoreCovered
  WaitsAlone
PROPERTIES
  EveryBidProcessed
CHECK_DEADLOCK FALSE
