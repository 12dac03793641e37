---------------------------- MODULE Transactions ----------------------------
(***************************************************************************)
(* Transactions: common/bitwrk/transaction.go.  A transaction is created   *)
(* from two bids, advances from phase to phase as its two participants     *)
(* send messages, and is retired, which settles the buyer's money, once    *)
(* its timeout has passed.                                                 *)
(***************************************************************************)
EXTENDS Bids

CONSTANTS
  EstablishTime,   (* from the match: 60 s                                  *)
  TransmitTime,    (* granted on arrival in TRANSMITTING: 2 min             *)
  WorkTime,        (* granted on arrival in WORKING: 5 min                  *)
  VerifyTime       (* granted on arrival in UNVERIFIED: 15 min              *)

ASSUME TxAssumption ==
  /\ EstablishTime \in Nat \ {0}
  /\ TransmitTime \in Nat \ {0}
  /\ WorkTime \in Nat \ {0}
  /\ VerifyTime \in Nat \ {0}

Phases ==
  {"ESTABLISHING", "BUYER_ESTABLISHED", "SELLER_ESTABLISHED", "TRANSMITTING",
   "WORKING", "UNVERIFIED", "FINISHED", "WORK_DISPUTED", "RESULT_DISPUTED"}

Origins == {"BUYER", "SELLER"}

\* A message is known by the names of its arguments; each set of names belongs
\* to one sender.
MessageTypes ==
  {"workhash", "workerurl", "buyersecret", "rejectwork", "encresult",
   "rejectresult", "acceptresult"}

SentBy(m) ==
  IF m \in {"workhash", "rejectresult", "acceptresult"} THEN "BUYER" ELSE "SELLER"

\* The table phaseTransitionRules: message, phase before, phase after.
PhaseTransitionRules ==
  { <<"workhash",     "ESTABLISHING",       "BUYER_ESTABLISHED">>,
    <<"workhash",     "SELLER_ESTABLISHED", "TRANSMITTING">>,
    <<"workerurl",    "ESTABLISHING",       "SELLER_ESTABLISHED">>,
    <<"workerurl",    "BUYER_ESTABLISHED",  "TRANSMITTING">>,
    <<"buyersecret",  "BUYER_ESTABLISHED",  "WORKING">>,
    <<"buyersecret",  "TRANSMITTING",       "WORKING">>,
    <<"rejectwork",   "SELLER_ESTABLISHED", "WORK_DISPUTED">>,
    <<"rejectwork",   "TRANSMITTING",       "WORK_DISPUTED">>,
    <<"rejectwork",   "WORKING",            "WORK_DISPUTED">>,
    <<"encresult",    "WORKING",            "UNVERIFIED">>,
    <<"rejectresult", "UNVERIFIED",         "WORK_DISPUTED">>,
    <<"acceptresult", "ESTABLISHING",       "FINISHED">>,
    <<"acceptresult", "BUYER_ESTABLISHED",  "FINISHED">>,
    <<"acceptresult", "SELLER_ESTABLISHED", "FINISHED">>,
    <<"acceptresult", "TRANSMITTING",       "FINISHED">>,
    <<"acceptresult", "WORKING",            "FINISHED">>,
    <<"acceptresult", "UNVERIFIED",         "FINISHED">> }

\* phaseArrivalFuncs: three phases grant time, three end it at once.
TimeoutOnArrival(timeout, phase, now) ==
  CASE phase = "TRANSMITTING" -> timeout + TransmitTime
    [] phase = "WORKING"      -> timeout + WorkTime
    [] phase = "UNVERIFIED"   -> timeout + VerifyTime
    [] phase \in {"FINISHED", "WORK_DISPUTED", "RESULT_DISPUTED"} -> now
    [] OTHER -> timeout

\* Who a sender is to this transaction; both, when buyer and seller are one.
IsOrigin(tx, address, origin) ==
  address = (IF origin = "BUYER" THEN tx.buyer ELSE tx.seller)

\* SendMessage up to the call of the handler: the transaction is active, the
\* sender is entitled to the message and the table has a row for the phase.
MayAdvance(tx, now, address, m, post) ==
  /\ tx.state = "ACTIVE"
  /\ tx.timeout > now
  /\ IsOrigin(tx, address, SentBy(m))
  /\ <<m, tx.phase, post>> \in PhaseTransitionRules

\* SendMessage after the handler accepted.
Advanced(tx, now, post) ==
  [tx EXCEPT !.phase = post,
             !.timeout = TimeoutOnArrival(@, post, now),
             !.revision = @ + 1]

-----------------------------------------------------------------------------
\* Mutant: bids are matched whatever became of them.
TransactsAgain(now, newBid, oldBid) ==
  /\ oldBid.type # newBid.type
  /\ oldBid.cur = newBid.cur
  /\ oldBid.article = newBid.article
  /\ oldBid.expires > now
  /\ newBid.expires > now

\* NewTransaction's checks; now is the time the bids were matched.
MayTransact(now, newBid, oldBid) ==
  /\ oldBid.type # newBid.type
  /\ oldBid.cur = newBid.cur
  /\ oldBid.article = newBid.article
  /\ oldBid.state = "PLACED"
  /\ newBid.state = "INQUEUE"
  /\ oldBid.expires > now
  /\ newBid.expires > now

\* The older bid sets price and fee.
NewTransaction(now, newKey, oldKey, newBid, oldBid) ==
  LET newBuys == newBid.type = "BUY"
  IN  [state |-> "ACTIVE", phase |-> "ESTABLISHING", revision |-> 0,
       price |-> oldBid.price, fee |-> oldBid.fee, cur |-> oldBid.cur,
       buyerBid  |-> IF newBuys THEN newKey ELSE oldKey,
       sellerBid |-> IF newBuys THEN oldKey ELSE newKey,
       buyer  |-> IF newBuys THEN newBid.participant ELSE oldBid.participant,
       seller |-> IF newBuys THEN oldBid.participant ELSE newBid.participant,
       matched |-> now, timeout |-> now + EstablishTime]

\* Mutant: a negative delta counts as none.
DeltaOrNothing(tx, buyerBid) ==
  IF Cost(buyerBid) < Cost(tx) THEN 0 ELSE Cost(buyerBid) - Cost(tx)

\* Mutant: all of the bid is freed.
FreesBid(tx, buyerBid) == Cost(buyerBid)

\* Transaction.Book: what the buyer blocked beyond the transaction's price.
PriceDelta(tx, buyerBid) == Cost(buyerBid) - Cost(tx)

DeltaMovement(tx, buyerBid) ==
  LET delta == PriceDelta(tx, buyerBid)
  IN  Movement("TRANSACTION", tx.buyer, delta, tx.buyer, -delta, 0, 0, tx.cur)

\* Transaction.Retire: the seller is paid in two phases, the buyer reimbursed
\* in all others.
PaysSeller(tx) == tx.phase \in {"FINISHED", "UNVERIFIED"}

\* Mutant: what is not paid goes to the seller all the same.
ReimbursesSeller(tx) ==
  IF PaysSeller(tx)
  THEN Movement("TRANSACTION_FINISH", tx.seller, tx.price,
                tx.buyer, -Cost(tx), tx.fee, 0, tx.cur)
  ELSE Movement("TRANSACTION_REIMBURSE", tx.seller, Cost(tx),
                tx.buyer, -Cost(tx), 0, 0, tx.cur)

SettlementMovement(tx) ==
  IF PaysSeller(tx)
  THEN Movement("TRANSACTION_FINISH", tx.seller, tx.price,
                tx.buyer, -Cost(tx), tx.fee, 0, tx.cur)
  ELSE Movement("TRANSACTION_REIMBURSE", tx.buyer, Cost(tx),
                tx.buyer, -Cost(tx), 0, 0, tx.cur)

\* Mutant: at its timeout a transaction is still too young.
TooYoungAtTimeout(tx, now) == tx.timeout >= now

TooYoung(tx, now) == tx.timeout > now

Retired(tx) == [tx EXCEPT !.state = "RETIRED", !.revision = @ + 1]
=============================================================================
