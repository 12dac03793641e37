SPECIFICATION FairSpec
CONSTANTS
  UpdateAttempts = 2
  MaxFaults = 1
  NoTx = NoTx
  MaxInt64 = 1000
  BidTimeout = 1
  EstablishTime = 1
  TransmitTime = 1
  WorkTime = 1
  VerifyTime = 1
INVARIANTS
  FairExchange
  PaidResultDecrypted
  NoStaleRead
PROPERTIES
  TradesEnd
CHECK_DEADLOCK FALSE
