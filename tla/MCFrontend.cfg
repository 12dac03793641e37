SPECIFICATION FrontendSpec
CONSTANTS
  Requests = {r1, r2}
  Infos = {i1, i2}
  Relations = {e1}
  NoNonce = NoNonce
  Handlers = {h1, h2}
  Lifetime = 1
  Wait = 2
  Deadline = 1
  MaxTime = 3
  Interval <- Interval_
  CoarsestOffset = 2
  FinestOffset = 1
  Trades = {t1, t2}
  Horizon = 6
  Expiry = 2
  Queriers = {q1, q2}
  Slack = 1
  IndexLag = 1
  Questions <- Questions_
  AskTimes = {15, 17, 23}
  Delays = {0, 1}
  LastTrade = 15
  MaxAsked = 3
  FirstTime = 15
  LastTime = 23
  TimeStep = 1
SYMMETRY Symmetry
INVARIANTS
  SlotsFitTogether
  AnswersComplete
PROPERTIES
  AppliedOnce
  AppliedInTime
  RequestsAnswered
CHECK_DEADLOCK FALSE
