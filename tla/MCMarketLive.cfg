SPECIFICATION FairSpec
CONSTANTS
  Participants = {p1, p2}
  Articles = {a1}
  Currencies = {BTC, EUR}
  DefaultCurrency = BTC
  BidIds = {b1, b2}
  TxIds = {t1}
  DepositUids = {u1, u2}
  Prices <- OnePriceMC
  Amounts <- AmountsSignedMC
  Messages <- LiveMessages
  NoBid = NoBid
  NoTx = NoTx
  NoDeposit = NoDeposit
  Redeliver = TRUE
  MaxInt64 = 1000
  BidTimeout = 1
  EstablishTime = 1
  TransmitTime = 1
  WorkTime = 1
  VerifyTime = 1
  LastEnqueue = 0
  MaxTime = 5
  MaxLag = 1
INVARIANTS
  MoneyConserved
  SettlementApplies
PROPERTIES
  EveryBidResolved
  EveryTxRetiredOrRefused
CHECK_DEADLOCK FALSE
