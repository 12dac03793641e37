SPECIFICATION FairSpec
CONSTANTS
  Buys = {b1, b2}
  Sells = {s1}
  Mandates = {m1}
  Requested = Requested
  NoTrade = NoTrade
  NoPrice = NoPrice
  NumUnmatchedBids = 1
  NumTransmittingBids = 1
  HistoryLength = 1
  MaxTradesLeft = 1
  MaxEvents = 1
  Limits = {{"trades", "time"}}
INVARIANTS
  TypeOK
  ClearedOnce
  MandateLimit
  FilesHeld
  UnmatchedBidsLimited
PROPERTIES
  ClearedTradesEnd
CHECK_DEADLOCK FALSE
