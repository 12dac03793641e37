SPECIFICATION Spec
CONSTANTS
  Buys = {b1, b2, b3}
  NoBuy = NoBuy
  Nodes = {n1, n2}
  Files <- FilesMC
  MaxKey = 9
  NumTickets = 2
SYMMETRY Symmetry
INVARIANTS
  NoMatchMissed
  StoreReflectsBuys
  TicketsFit
CHECK_DEADLOCK FALSE
