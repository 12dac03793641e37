----------------------------- MODULE MCExchange -----------------------------
(***************************************************************************)
(* Exchange for TLC: one article and currency, one participant who buys    *)
(* and sells.                                                              *)
(***************************************************************************)
EXTENDS Exchange, TLC

ExchangePrices == {10, 40}
ExchangeAmounts == {42}
FirstMessages == {"acceptresult"}
ExchangeSymmetry == Permutations(BidIds) \cup Permutations(TxIds) \cup Permutations(Passes)
=============================================================================
