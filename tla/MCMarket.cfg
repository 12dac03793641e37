SPECIFICATION Spec
CONSTANTS
  Participants = {p1, p2}
  Articles = {a1}
  Currencies = {BTC}
  DefaultCurrency = BTC
  BidIds = {b1, b2, b3}
  TxIds = {t1, t2}
  DepositUids = {u1}
  Prices <- PricesMC
  Amounts <- AmountsMC
  Messages <- OutcomeMessages
  NoBid = NoBid
  NoTx = NoTx
  NoDeposit = NoDeposit
  Redeliver = FALSE
  MaxInt64 = 1000
  BidTimeout = 1
  EstablishTime = 1
  TransmitTime = 1
  WorkTime = 1
  VerifyTime = 1
  LastEnqueue = 0
  MaxTime = 5
  MaxLag = 1
SYMMETRY Symmetry
INVARIANTS
  TypeOK
  BlockedIsOwed
  BidsAndTxsLinked
  NoOvercharge
  RetirementScheduled
PROPERTIES
  EscrowSpec
CHECK_DEADLOCK FALSE
