SPECIFICATION HotSpec
CONSTANTS
  Keys = {k1, k2, k3}
  HotPrices <- TwoPrices
  Passes = {w1, w2}
  BidLife = 1
  LeaseTime = 1
  MaxLease = 2
  MaxMishaps = 1
  LastArrival = 1
  HotMaxTime = 1
  HotMaxLag = 0
SYMMETRY HotSymmetry
INVARIANTS
  NotCrossed
  NoLiveBidLost
  NoBidTwice
PROPERTIES
  PricePriority
CHECK_DEADLOCK FALSE
