SPECIFICATION FairSpec
CONSTANTS
  MaxSells = 1
  MaxFailures = 2
  NoThread = NoThread
INVARIANTS
  BlockersCounted
PROPERTIES
  NoSellWhileBlocked
  UnblockedWorkerOffered
  UnregisteredNotOffered
CHECK_DEADLOCK FALSE
