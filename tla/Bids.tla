-------------------------------- MODULE Bids --------------------------------
(***************************************************************************)
(* Bids: common/bitwrk/bid.go and the defaults of server/server_bid.go.    *)
(***************************************************************************)
EXTENDS Ledger

CONSTANTS
  MaxInt64,     (* the largest int64                                        *)
  BidTimeout,   (* newBidDefaults.Timeout, 120 s                            *)
  NoTx          (* nil: the bid belongs to no transaction                   *)

ASSUME BidAssumption ==
  /\ MaxInt64 \in Nat \ {0}
  /\ BidTimeout \in Nat \ {0}

FeeRatioNumerator == 3
FeeRatioDenominator == 100

BidTypes == {"BUY", "SELL"}
BidStates == {"INQUEUE", "PLACED", "MATCHED", "EXPIRED"}

\* NewBid refuses a negative price and one that is too high to compute a fee.
PriceAllowed(price) ==
  /\ price >= 0
  /\ price < MaxInt64 \div (FeeRatioNumerator + 1)

\* The fee, rounded up.
Fee(price) ==
  (FeeRatioNumerator * price + FeeRatioDenominator - 1) \div FeeRatioDenominator

NewBid(type, article, price, cur, participant, now) ==
  [type |-> type, state |-> "INQUEUE", article |-> article,
   price |-> price, fee |-> Fee(price), cur |-> cur,
   participant |-> participant, created |-> now, expires |-> now + BidTimeout,
   tx |-> NoTx]

\* A bid that became part of transaction t.
Matched(b, t) == [b EXCEPT !.state = "MATCHED", !.tx = t]

\* What a buyer pays for a bid: the price and the fee on top of it.
Cost(b) == b.price + b.fee

\* Bid.CheckBalance.  A seller is only refused when the account holds another
\* currency.
CheckBalance(accounts, b) ==
  CanApplyAvailable(accounts[b.participant],
                    IF b.type = "BUY" THEN -Cost(b) ELSE b.price, b.cur)

\* Bid.Book: buyers only.
BidMovement(b) ==
  Movement("BID", b.participant, -Cost(b), b.participant, Cost(b), 0, 0, b.cur)

\* Mutant: only bids that reached the hot zone are retired.
UnmatchedIfPlaced(b) == b.state = "PLACED"

\* Bid.Retire: an unmatched bid; sellers have nothing to get back.
Unmatched(b) == b.state \in {"PLACED", "INQUEUE"}

\* Mutant: the fee stays blocked.
ReimbursesPriceOnly(b) ==
  Movement("BID_REIMBURSE", b.participant, b.price, b.participant, -b.price, 0, 0, b.cur)

BidReimbursement(b) ==
  Movement("BID_REIMBURSE", b.participant, Cost(b), b.participant, -Cost(b), 0, 0, b.cur)
=============================================================================
