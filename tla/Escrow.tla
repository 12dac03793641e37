------------------------------- MODULE Escrow -------------------------------
(***************************************************************************)
(* What the market promises its participants about their money             *)
(* (CONCEPTS.md, "Transaction Fees" and "Transaction Outcomes"): what a    *)
(* buy bid costs is taken out of the buyer's wallet when the bid is made   *)
(* and held.  It may be lowered to the cost of a transaction.  In the end  *)
(* it goes, once and for all, either back to the same buyer or, less a fee *)
(* for the site, to a seller.  Only exchanges with the outside world move  *)
(* money besides.                                                          *)
(***************************************************************************)
EXTENDS Integers

CONSTANTS Participants, Holds      \* one hold per bid

VARIABLES wallet, hold

vars == <<wallet, hold>>

Empty(state) == [state |-> state]
Held(p, amount) == [state |-> "HELD", owner |-> p, amount |-> amount]

IsHeld(h) == hold[h].state = "HELD"

Init ==
  /\ wallet = [p \in Participants |-> 0]
  /\ hold = [h \in Holds |-> Empty("NONE")]

\* A step moves money in or out of p's wallet and no other.
Moves(p) == wallet' = [wallet EXCEPT ![p] = wallet'[p]]
Gain(p) == wallet'[p] - wallet[p]

\* Money from or to the outside world.
Deal(p) ==
  /\ Moves(p)
  /\ wallet'[p] \in Nat
  /\ UNCHANGED hold

Take(h, p) ==
  /\ hold[h] = Empty("NONE")
  /\ Moves(p)
  /\ wallet'[p] \in 0 .. wallet[p]
  /\ hold' = [hold EXCEPT ![h] = Held(p, -Gain(p))]

Lower(h) ==
  LET p == hold[h].owner IN
  /\ IsHeld(h)
  /\ Moves(p)
  /\ Gain(p) \in 0 .. hold[h].amount
  /\ hold' = [hold EXCEPT ![h] = Held(p, hold[h].amount - Gain(p))]

Refund(h) ==
  LET p == hold[h].owner IN
  /\ IsHeld(h)
  /\ Moves(p)
  /\ Gain(p) = hold[h].amount
  /\ hold' = [hold EXCEPT ![h] = Empty("REFUNDED")]

Pay(h, seller) ==
  /\ IsHeld(h)
  /\ Moves(seller)
  /\ Gain(seller) \in 0 .. hold[h].amount
  /\ hold' = [hold EXCEPT ![h] = Empty("PAID")]

Next ==
  \/ \E p \in Participants : Deal(p)
  \/ \E h \in Holds :
       \/ \E p \in Participants : Take(h, p) \/ Pay(h, p)
       \/ Lower(h)
       \/ Refund(h)

Spec == Init /\ [][Next]_vars
=============================================================================
