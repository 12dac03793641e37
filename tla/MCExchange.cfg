SPECIFICATION ExchangeSpec
CONSTANTS
  Participants = {p1}
  Articles = {a1}
  Currencies = {BTC}
  DefaultCurrency = BTC
  BidIds = {b1, b2}
  TxIds = {t1, t2}
  DepositUids = {u1}
  Prices <- ExchangePrices
  Amounts <- ExchangeAmounts
  Messages <- FirstMessages
  NoBid = NoBid
  NoTx = NoTx
  NoDeposit = NoDeposit
  NoTask = NoTask
  Redeliver = FALSE
  MaxInt64 = 1000
  BidTimeout = 1
  EstablishTime = 1
  TransmitTime = 1
  WorkTime = 1
  VerifyTime = 1
  LastEnqueue = 1
  MaxTime = 1
  MaxLag = 1
  Passes = {w1}
  LeaseTime = 1
  MaxLease = 3
  MaxMishaps = 1
SYMMETRY ExchangeSymmetry
PROPERTIES
  BookSpec
CHECK_DEADLOCK FALSE
