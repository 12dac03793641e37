----------------------------- MODULE MCHotZone -----------------------------
(***************************************************************************)
(* HotZone for TLC: three bids at two prices, two handlers.                *)
(***************************************************************************)
EXTENDS HotZone

TwoPrices == {1, 2}
HotSymmetry == Permutations(Keys) \cup Permutations(Passes)
=============================================================================
