SPECIFICATION FairSpec
CONSTANTS
  Handlers = {h1, h2}
  Bids = {b1, b2, b3, b4}
  LeavesAtOnce = FALSE
  MayEvict = FALSE
  LeaseLimit = 4
  MaxFailures = 0
PROPERTIES
  EveryBidProcessed
CHECK_DEADLOCK FALSE
