------------------------------- MODULE Market -------------------------------
(***************************************************************************)
(* The server's database: accounts, bids, transactions, deposits and the   *)
(* retirement tasks (server/gae/gae_main.go, MatchBids of gae_matching.go, *)
(* the task handlers of server/server_queue.go, common/bitwrk/deposit.go). *)
(*                                                                         *)
(* Every operation is one cross-group datastore transaction, hence one     *)
(* action.  They are called by HTTP handlers and by task queues at any     *)
(* time, in any order and possibly twice.  MatchBids is called here with   *)
(* any two bids: what the matching passes to it is the subject of HotZone  *)
(* and Exchange, and nothing in this module relies on it.                  *)
(***************************************************************************)
EXTENDS Transactions, FiniteSets, Functions

CONSTANTS
  Participants, Articles, Currencies,
  BidIds, TxIds, DepositUids,      (* datastore keys                        *)
  Prices,                          (* prices bids are made with             *)
  Amounts,                         (* amounts of deposits; may be negative  *)
  Messages,                        (* message types the participants send   *)
  DefaultCurrency,                 (* currency of an account made on the fly*)
  NoBid, NoDeposit,                (* nil                                   *)
  Redeliver,                       (* whether a task done may run again     *)
  LastEnqueue,                     (* bound: no bid is made after this time *)
  MaxTime,                         (* bound: the clock stops here           *)
  MaxLag                           (* bound: age of a time stamp in use     *)

ASSUME MarketAssumption ==
  /\ DefaultCurrency \in Currencies
  /\ Prices \subseteq Int
  /\ Amounts \subseteq Int
  /\ Messages \subseteq MessageTypes
  /\ Redeliver \in BOOLEAN
  /\ LastEnqueue \in Nat /\ MaxTime \in Nat /\ MaxLag \in Nat

\* A key of the datastore is a number of 64 bits or a string of bounded length.
ASSUME KeysAssumption ==
  /\ IsFiniteSet(Participants) /\ IsFiniteSet(DepositUids)
  /\ IsFiniteSet(BidIds) /\ IsFiniteSet(TxIds)

VARIABLES
  now,             \* the clock all server instances share
  account,         \* participant -> account
  bid,             \* bid key -> bid or NoBid
  tx,              \* transaction key -> transaction or NoTx
  deposit,         \* deposit uid -> deposit or NoDeposit
  bidTasks,        \* "retire-bid" tasks: bid keys, due when the bid expires
  txTasks,         \* "retire-tx" tasks: transaction key and due time
  ledger           \* per currency, what the saved movements sum up to:
                   \* fees to the site, world: money of the rest of the world

vars == <<now, account, bid, tx, deposit, bidTasks, txTasks, ledger>>

-----------------------------------------------------------------------------
Bid == [type : BidTypes, state : BidStates, article : Articles,
        price : Nat, fee : Nat, cur : Currencies, participant : Participants,
        created : Nat, expires : Nat, tx : TxIds \cup {NoTx}]

Transaction ==
  [state : {"ACTIVE", "RETIRED"}, phase : Phases, revision : Nat,
   price : Nat, fee : Nat, cur : Currencies,
   buyerBid : BidIds, sellerBid : BidIds,
   buyer : Participants, seller : Participants,
   matched : Nat, timeout : Nat]

Account == [avail : Nat, blocked : Nat, cur : Currencies]

Deposit == [amount : Int, cur : Currencies, account : Participants]

ASSUME NilAssumption ==
  /\ NoBid \notin Bid
  /\ NoTx \notin TxIds \cup Transaction
  /\ NoDeposit \notin Deposit

TypeOK ==
  /\ now \in Nat
  /\ account \in [Participants -> Account]
  /\ bid \in [BidIds -> Bid \cup {NoBid}]
  /\ tx \in [TxIds -> Transaction \cup {NoTx}]
  /\ deposit \in [DepositUids -> Deposit \cup {NoDeposit}]
  /\ bidTasks \subseteq BidIds
  /\ txTasks \subseteq TxIds \X Nat
  /\ ledger \in [Currencies -> [fees : Int, world : Int]]

Known(b) == bid[b] # NoBid
Exists(t) == tx[t] # NoTx
ActiveTx(t) == Exists(t) /\ tx[t].state = "ACTIVE"

Init ==
  /\ now = 0
  /\ account = [p \in Participants |-> EmptyAccount(DefaultCurrency)]
  /\ bid = [b \in BidIds |-> NoBid]
  /\ tx = [t \in TxIds |-> NoTx]
  /\ deposit = [u \in DepositUids |-> NoDeposit]
  /\ bidTasks = {}
  /\ txTasks = {}
  /\ ledger = [c \in Currencies |-> [fees |-> 0, world |-> 0]]

\* PlaceAccountMovement inside a datastore transaction: guard and effect.
PlaceMovement(m) ==
  /\ CanPlace(account, m)
  /\ account' = Place(account, m)
  /\ ledger' = [ledger EXCEPT ![m.cur] = [fees |-> @.fees + m.fee,
                                          world |-> @.world + m.world]]

\* A task that has run is removed from its queue, or delivered once more.
Done(tasks, task) ==
  IF Redeliver THEN {tasks, tasks \ {task}} ELSE {tasks \ {task}}

\* addRetireTransactionTask: tasks have no name, so none replaces another.
AddRetirementTask(t, due) == txTasks \cup {<<t, due>>}

\* A time stamp taken before the datastore transaction it is used in.
Stamps == {t \in 0 .. now : now <= t + MaxLag}
-----------------------------------------------------------------------------
\* createDeposit: a uid is used once; the same deposit again changes nothing.
PlaceDeposit(u, d) ==
  /\ deposit[u] = NoDeposit
  /\ PlaceMovement(Movement(IF d.amount < 0 THEN "PAYOUT" ELSE "PAYIN",
                            d.account, d.amount, d.account, 0, 0, -d.amount, d.cur))
  /\ deposit' = [deposit EXCEPT ![u] = d]
  /\ UNCHANGED <<now, bid, tx, bidTasks, txTasks>>

\* EnqueueBid: balance check, booking and the task that will retire the bid.
\* The bid was made, with a time stamp, before the datastore transaction.
EnqueueBid(b, type, article, price, cur, p, stamp) ==
  LET new == NewBid(type, article, price, cur, p, stamp)
  IN  /\ ~Known(b)
      /\ now <= LastEnqueue
      /\ stamp \in Stamps
      /\ PriceAllowed(price)
      /\ CheckBalance(account, new)
      /\ IF type = "BUY" THEN PlaceMovement(BidMovement(new))
                         ELSE UNCHANGED <<account, ledger>>
      /\ bid' = [bid EXCEPT ![b] = new]
      /\ bidTasks' = bidTasks \cup {b}
      /\ UNCHANGED <<now, tx, deposit, txTasks>>

PlaceBid(b) ==
  /\ Known(b)
  /\ bid[b].state = "INQUEUE"
  /\ bid' = [bid EXCEPT ![b].state = "PLACED"]
  /\ UNCHANGED <<now, account, tx, deposit, bidTasks, txTasks, ledger>>

\* MatchBids: an older bid still in the queue counts as placed.
MatchBids(stamp, newKey, oldKey, t) ==
  LET newBid == bid[newKey]
      oldBid == [bid[oldKey] EXCEPT !.state = IF @ = "INQUEUE" THEN "PLACED" ELSE @]
      new == NewTransaction(stamp, newKey, oldKey, newBid, oldBid)
      buyerBid == IF newBid.type = "BUY" THEN newBid ELSE oldBid
  IN  /\ Known(newKey) /\ Known(oldKey)
      /\ stamp \in Stamps
      /\ stamp >= newBid.created /\ stamp >= oldBid.created
      /\ MayTransact(stamp, newBid, oldBid)
      /\ ~Exists(t)
      /\ PriceDelta(new, buyerBid) >= 0
      /\ IF PriceDelta(new, buyerBid) > 0
         THEN PlaceMovement(DeltaMovement(new, buyerBid))
         ELSE UNCHANGED <<account, ledger>>
      /\ tx' = [tx EXCEPT ![t] = new]
      /\ bid' = [bid EXCEPT ![newKey] = Matched(newBid, t), ![oldKey] = Matched(oldBid, t)]
      /\ txTasks' = AddRetirementTask(t, new.timeout)
      /\ UNCHANGED <<now, deposit, bidTasks>>

\* The "retire-bid" task.  A matched bid is left alone; an error leaves the
\* task in the queue, to be tried again.
RetireBid(b) ==
  /\ b \in bidTasks
  /\ now >= bid[b].expires
  /\ IF Unmatched(bid[b])
     THEN /\ IF bid[b].type = "BUY" THEN PlaceMovement(BidReimbursement(bid[b]))
                                    ELSE UNCHANGED <<account, ledger>>
          /\ bid' = [bid EXCEPT ![b].state = "EXPIRED"]
     ELSE UNCHANGED <<account, bid, ledger>>
  /\ bidTasks' \in Done(bidTasks, b)
  /\ UNCHANGED <<now, tx, deposit, txTasks>>

\* UpdateTransaction with a message its handler accepts.  The time stamp is
\* taken when the request comes in, before the datastore transaction.
UpdateTransaction(t, stamp, address, m, post) ==
  /\ Exists(t)
  /\ stamp \in Stamps
  /\ stamp >= tx[t].matched
  /\ MayAdvance(tx[t], stamp, address, m, post)
  /\ tx' = [tx EXCEPT ![t] = Advanced(tx[t], stamp, post)]
  /\ txTasks' = AddRetirementTask(t, tx'[t].timeout)
  /\ UNCHANGED <<now, account, bid, deposit, bidTasks, ledger>>

\* The "retire-tx" task.  Too young and already retired end the task as a
\* success does; any other error leaves it in the queue.
RetireTransaction(task) ==
  LET t == task[1] IN
  /\ task \in txTasks
  /\ now >= task[2]
  /\ IF tx[t].state = "ACTIVE" /\ ~TooYoung(tx[t], now)
     THEN /\ PlaceMovement(SettlementMovement(tx[t]))
          /\ tx' = [tx EXCEPT ![t] = Retired(tx[t])]
     ELSE UNCHANGED <<account, tx, ledger>>
  /\ txTasks' \in Done(txTasks, task)
  /\ UNCHANGED <<now, bid, deposit, bidTasks>>

Tick ==
  /\ now < MaxTime
  /\ now' = now + 1
  /\ UNCHANGED <<account, bid, tx, deposit, bidTasks, txTasks, ledger>>
-----------------------------------------------------------------------------
SomeDeposit ==
  \E u \in DepositUids, a \in Amounts, c \in Currencies, p \in Participants :
    PlaceDeposit(u, [amount |-> a, cur |-> c, account |-> p])

SomeBid ==
  \E b \in BidIds, type \in BidTypes, article \in Articles, price \in Prices,
     c \in Currencies, p \in Participants, stamp \in Stamps :
    EnqueueBid(b, type, article, price, c, p, stamp)

SomeMatch ==
  \E stamp \in Stamps, b1, b2 \in BidIds, t \in TxIds : MatchBids(stamp, b1, b2, t)

SomeMessage ==
  \E t \in TxIds, stamp \in Stamps, p \in Participants, m \in Messages, post \in Phases :
    UpdateTransaction(t, stamp, p, m, post)

Next ==
  \/ SomeDeposit
  \/ SomeBid
  \/ \E b \in BidIds : PlaceBid(b)
  \/ SomeMatch
  \/ SomeMessage
  \/ \E b \in bidTasks : RetireBid(b)
  \/ \E task \in txTasks : RetireTransaction(task)
  \/ Tick

Spec == Init /\ [][Next]_vars

-----------------------------------------------------------------------------
(***************************************************************************)
(* Safety.                                                                 *)
(***************************************************************************)
OpenBuy(b) == Known(b) /\ bid[b].type = "BUY" /\ Unmatched(bid[b])

\* Whose money is held for a bid or a transaction, and how much.
HeldForBids(p) ==
  LET held == {b \in BidIds : OpenBuy(b) /\ bid[b].participant = p}
  IN  SumFunctionOnSet([b \in held |-> Cost(bid[b])], held)

HeldForTxs(p) ==
  LET held == {t \in TxIds : ActiveTx(t) /\ tx[t].buyer = p}
  IN  SumFunctionOnSet([t \in held |-> Cost(tx[t])], held)

\* A participant's blocked balance is at all times exactly what the open buy
\* bids and the active transactions of that buyer cost, and in their currency,
\* through any order of booking, matching at a lower price, expiry and
\* settlement: no amount stays blocked for good and none is freed twice.
BlockedIsOwed ==
  /\ \A p \in Participants : account[p].blocked = HeldForBids(p) + HeldForTxs(p)
  /\ \A b \in BidIds :
       OpenBuy(b) /\ Cost(bid[b]) > 0 => account[bid[b].participant].cur = bid[b].cur
  /\ \A t \in TxIds :
       ActiveTx(t) /\ Cost(tx[t]) > 0 => account[tx[t].buyer].cur = tx[t].cur

\* No operation creates or destroys money: in every currency, what the
\* participants have, the site's fees and the rest of the world sum up to zero,
\* and the world gave exactly the deposits recorded.
MoneyConserved ==
  \A c \in Currencies :
    LET holders == {p \in Participants : account[p].cur = c}
        balance == [p \in holders |-> account[p].avail + account[p].blocked]
        placed == {u \in DepositUids : deposit[u] # NoDeposit /\ deposit[u].cur = c}
        amount == [u \in placed |-> deposit[u].amount]
    IN  /\ SumFunctionOnSet(balance, holders) + ledger[c].fees + ledger[c].world = 0
        /\ ledger[c].world = -SumFunctionOnSet(amount, placed)

\* A bid is matched exactly when one transaction was made from it: the two
\* point at each other, so no bid ends up in two transactions and no
\* transaction is made from an expired or a half-matched pair.
BidsAndTxsLinked ==
  /\ \A b \in BidIds : Known(b) =>
       /\ bid[b].state = "MATCHED" <=> bid[b].tx # NoTx
       /\ bid[b].tx # NoTx =>
            Exists(bid[b].tx) /\ b \in {tx[bid[b].tx].buyerBid, tx[bid[b].tx].sellerBid}
  /\ \A t \in TxIds : Exists(t) =>
       /\ Known(tx[t].buyerBid) /\ Known(tx[t].sellerBid)
       /\ bid[tx[t].buyerBid].tx = t /\ bid[tx[t].sellerBid].tx = t
       /\ bid[tx[t].buyerBid].type = "BUY" /\ bid[tx[t].sellerBid].type = "SELL"

\* A transaction never costs its buyer more than was blocked for the bid.
NoOvercharge ==
  \A t \in TxIds : Exists(t) => Cost(tx[t]) <= Cost(bid[tx[t].buyerBid])

\* A task is only ever made for a key that is in the database, and nothing is
\* deleted from there: no task is run on nil.
TasksKnown ==
  /\ \A b \in bidTasks : Known(b)
  /\ \A task \in txTasks : Exists(task[1])

\* Nothing is left behind by the task queues: for every bid still open a
\* retirement task is waiting, and for every active transaction one that is
\* due at the timeout it has now, although tasks of earlier timeouts run too
\* early and are dropped.
RetirementScheduled ==
  /\ TasksKnown
  /\ \A b \in BidIds : Known(b) /\ Unmatched(bid[b]) => b \in bidTasks
  /\ \A t \in TxIds : ActiveTx(t) => <<t, tx[t].timeout>> \in txTasks

\* The seller's account is not in the currency of the transaction's price, so
\* the movement that pays the seller is refused (see RetireTransaction).
OtherCurrency(t) ==
  Exists(t) /\ ~CurrencyMutable(account[tx[t].seller])
            /\ account[tx[t].seller].cur # tx[t].cur

\* Whenever a bid may expire or a transaction may be retired, the movement it
\* takes is one the accounts can take, so the task succeeds at its first run.
\* The one settlement that is refused is that of a seller who is to be paid and
\* has money of another currency.
SettlementApplies ==
  /\ \A b \in BidIds : OpenBuy(b) => CanPlace(account, BidReimbursement(bid[b]))
  /\ \A t \in TxIds : ActiveTx(t) =>
       (CanPlace(account, SettlementMovement(tx[t]))
          <=> ~(PaysSeller(tx[t]) /\ tx[t].price > 0 /\ OtherCurrency(t)))

-----------------------------------------------------------------------------
(***************************************************************************)
(* Liveness.  The task queues run a task that is due, again and again      *)
(* until it succeeds, and time goes on.  The participants owe nothing:     *)
(* no fairness is assumed of deposits, bids, matches or messages.          *)
(***************************************************************************)
FairSpec ==
  /\ Spec
  /\ WF_vars(Tick)
  /\ \A b \in BidIds : WF_vars(RetireBid(b))
  /\ \A t \in TxIds, due \in 0 .. MaxTime : WF_vars(RetireTransaction(<<t, due>>))

\* Every bid is matched or expires.
EveryBidResolved ==
  \A b \in BidIds : Known(b) ~> Known(b) /\ bid[b].state \in {"MATCHED", "EXPIRED"}

\* Every transaction is retired, unless its seller has money of another
\* currency when it should be.
EveryTxRetiredOrRefused ==
  \A t \in TxIds : Exists(t) ~> Exists(t) /\ (tx[t].state = "RETIRED" \/ OtherCurrency(t))

=============================================================================
