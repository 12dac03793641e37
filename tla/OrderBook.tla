----------------------------- MODULE OrderBook -----------------------------
(***************************************************************************)
(* What the exchange promises to those who bid, without a queue, a hot     *)
(* zone or a batch: an offer stands until it is traded or withdrawn, and   *)
(* a trade is between an open buy and an open sell, at the price of one of *)
(* the two, which the other one accepts.                                   *)
(***************************************************************************)
EXTENDS Integers

CONSTANTS Offers, Prices, NoOffer

VARIABLES
  offer,     \* offer -> its type, price and state, or NoOffer
  trades     \* set of <<buy, sell, price>>

bookVars == <<offer, trades>>

IsOpen(o) == offer[o] # NoOffer /\ offer[o].state = "OPEN"

Init ==
  /\ offer = [o \in Offers |-> NoOffer]
  /\ trades = {}

Make(o) ==
  /\ offer[o] = NoOffer
  /\ \E type \in {"BUY", "SELL"}, price \in Prices :
       offer' = [offer EXCEPT ![o] = [type |-> type, price |-> price, state |-> "OPEN"]]
  /\ UNCHANGED trades

Withdraw(o) ==
  /\ IsOpen(o)
  /\ offer' = [offer EXCEPT ![o].state = "WITHDRAWN"]
  /\ UNCHANGED trades

Trade(buy, sell, price) ==
  /\ IsOpen(buy) /\ offer[buy].type = "BUY"
  /\ IsOpen(sell) /\ offer[sell].type = "SELL"
  /\ price \in {offer[buy].price, offer[sell].price}
  /\ offer[sell].price <= price /\ price <= offer[buy].price
  /\ offer' = [offer EXCEPT ![buy].state = "TRADED", ![sell].state = "TRADED"]
  /\ trades' = trades \cup {<<buy, sell, price>>}

Next ==
  \/ \E o \in Offers : Make(o) \/ Withdraw(o)
  \/ \E buy, sell \in Offers, price \in Prices : Trade(buy, sell, price)

Spec == Init /\ [][Next]_bookVars
=============================================================================
