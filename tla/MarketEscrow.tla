---------------------------- MODULE MarketEscrow ----------------------------
(***************************************************************************)
(* The market implements Escrow: a buy bid's money is held from EnqueueBid *)
(* on, through matching and the whole life of the transaction, until the   *)
(* bid expires or the transaction is retired.                              *)
(***************************************************************************)
EXTENDS Market

wallet == [p \in Participants |-> account[p].avail]

Holding(p, amount) == [state |-> "HELD", owner |-> p, amount |-> amount]

HoldOfTx(t) ==
  IF tx[t].state = "ACTIVE" THEN Holding(tx[t].buyer, Cost(tx[t]))
  ELSE [state |-> IF PaysSeller(tx[t]) THEN "PAID" ELSE "REFUNDED"]

\* Sell bids hold nothing.
HoldOf(b) ==
  IF ~Known(b) \/ bid[b].type = "SELL" THEN [state |-> "NONE"]
  ELSE IF Unmatched(bid[b]) THEN Holding(bid[b].participant, Cost(bid[b]))
  ELSE IF bid[b].state = "EXPIRED" THEN [state |-> "REFUNDED"]
  ELSE HoldOfTx(bid[b].tx)

hold == [b \in BidIds |-> HoldOf(b)]

Promise == INSTANCE Escrow WITH Holds <- BidIds

\* Every step of the market is a step of the escrow or leaves it as it is: the
\* money of a bid is held by its buyer's bid, then by the transaction, and is
\* given out once, to the buyer whole or to the seller less the fee.
EscrowSpec == Promise!Spec
=============================================================================
