SPECIFICATION Spec
CONSTANTS
  Buys = {b1, b2, b3}
  Sells = {}
  Mandates = {}
  Requested = Requested
  NoTrade = NoTrade
  NoPrice = NoPrice
  NumUnmatchedBids = 1
  NumTransmittingBids = 1
  HistoryLength = 1
  MaxTradesLeft = 1
  MaxEvents = 1
  Limits = {{"trades", "time"}}
INVARIANT
  TransmittingBidsLimited
CHECK_DEADLOCK FALSE
