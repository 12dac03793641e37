------------------------------ MODULE MCMarket ------------------------------
(***************************************************************************)
(* Market for TLC: few participants, bids and transactions.                *)
(***************************************************************************)
EXTENDS MarketEscrow, TLC

PricesMC == {10, 40}
AmountsMC == {42}
AmountsSignedMC == {42, -31}
OnePriceMC == {40}
PaidMessages == {"acceptresult"}
AllMessages == MessageTypes
LiveMessages == {"workhash", "acceptresult"}
OutcomeMessages == {"workhash", "rejectwork", "workerurl", "acceptresult"}
Symmetry ==
  Permutations(Participants) \cup Permutations(BidIds) \cup Permutations(TxIds)
=============================================================================
