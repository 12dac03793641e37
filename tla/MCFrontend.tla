----------------------------- MODULE MCFrontend -----------------------------
(***************************************************************************)
(* Statements and price queries are independent of one another, and so are *)
(* statements about an account and about a relation, but for the handlers  *)
(* they share.  A behaviour is about one of the three.                     *)
(*                                                                         *)
(* Prices: slots of two units of time and tiles of four and of eight.      *)
(* Queries ask for the last eight or four units, and once for the time from*)
(* 12 to 15, which is part of a tile.  Trades are matched in one tile, at  *)
(* the end of a slot and after it, and the first queries come in the middle*)
(* of this; the next can still find what they left in the cache, and the   *)
(* last come when that should no longer matter.                            *)
(***************************************************************************)
EXTENDS Statements, Prices

VARIABLE part

frontendVars == <<vars, pricesVars, part>>

Interval_ == <<8, 4, 2>>
Questions_ == {<<Now, 1, 3>>, <<Now, 2, 3>>, <<13, 3, 3>>}

Symmetry == Permutations(Requests) \cup Permutations(Infos) \cup Permutations(Handlers) \cup Permutations(Trades) \cup
  Permutations(Queriers)

FrontendInit == Init /\ PricesInit /\ part \in {"account", "relation", "prices"}

Unused == IF part = "account" THEN Relations ELSE Infos

FrontendNext ==
  /\ UNCHANGED part
  /\ \/ /\ part # "prices" /\ Next /\ UNCHANGED pricesVars
        /\ \A n \in Unused : nonce'[n].state = "new"
     \/ part = "prices" /\ PricesNext /\ UNCHANGED vars

FrontendSpec == FrontendInit /\ [][FrontendNext]_frontendVars
=============================================================================
