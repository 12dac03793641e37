---------------------------- MODULE MarketProofs ----------------------------
(***************************************************************************)
(* Proofs about Market, for any number of participants, bids, deposits,    *)
(* transactions and currencies and any clock: types, links and tasks first,*)
(* then that the market implements Escrow, then its money: what is blocked *)
(* is what is owed, what is blocked can be given out, and no money appears *)
(* or vanishes.                                                            *)
(***************************************************************************)
EXTENDS MarketEscrow, FiniteSetTheorems, TLAPS

-----------------------------------------------------------------------------
(***************************************************************************)
(* Lemmas about the operators.                                             *)
(***************************************************************************)
\* A fee is a natural number, and a dearer bid never has a lower fee.
LEMMA FeeType == \A price \in Nat : Fee(price) \in Nat
  BY DEF Fee, FeeRatioNumerator, FeeRatioDenominator

LEMMA FeeMonotone ==
  \A p, q \in Nat : p <= q => Fee(p) <= Fee(q)
  BY DEF Fee, FeeRatioNumerator, FeeRatioDenominator

\* One application of a delta, to either part, keeps an account an account.
LEMMA ApplyType ==
  ASSUME NEW a \in Account, NEW delta \in Int, NEW cur \in Currencies
  PROVE  /\ CanApplyAvailable(a, delta, cur) => ApplyAvailable(a, delta, cur) \in Account
         /\ CanApplyBlocked(a, delta, cur) => ApplyBlocked(a, delta, cur) \in Account
<1>1. ASSUME CanApplyAvailable(a, delta, cur)
      PROVE  ApplyAvailable(a, delta, cur) \in Account
  <2>1. CASE delta = 0
    BY <2>1 DEF ApplyAvailable
  <2>2. CASE delta # 0
    <3>1. a.avail + delta \in Nat
      BY <1>1 DEF CanApplyAvailable, CanApply, Account
    <3>2. QED
      BY <2>2, <3>1 DEF ApplyAvailable, Account
  <2>3. QED
    BY <2>1, <2>2
<1>2. ASSUME CanApplyBlocked(a, delta, cur)
      PROVE  ApplyBlocked(a, delta, cur) \in Account
  <2>1. CASE delta = 0
    BY <2>1 DEF ApplyBlocked
  <2>2. CASE delta # 0
    <3>1. a.blocked + delta \in Nat
      BY <1>2 DEF CanApplyBlocked, CanApply, Account
    <3>2. QED
      BY <2>2, <3>1 DEF ApplyBlocked, Account
  <2>3. QED
    BY <2>1, <2>2
<1>3. QED
  BY <1>1, <1>2

\* A movement that can be placed leaves accounts: no balance gets negative.
LEMMA PlaceType ==
  ASSUME NEW accounts \in [Participants -> Account],
         NEW type, NEW to \in Participants, NEW toDelta \in Int,
         NEW from \in Participants, NEW fromDelta \in Int,
         NEW fee \in Int, NEW world \in Int, NEW cur \in Currencies,
         CanPlace(accounts, Movement(type, to, toDelta, from, fromDelta, fee, world, cur))
  PROVE  Place(accounts, Movement(type, to, toDelta, from, fromDelta, fee, world, cur))
           \in [Participants -> Account]
<1> DEFINE m == Movement(type, to, toDelta, from, fromDelta, fee, world, cur)
<1>1. /\ m.availAccount = to /\ m.availDelta = toDelta
      /\ m.blockedAccount = from /\ m.blockedDelta = fromDelta /\ m.cur = cur
  BY DEF Movement
<1> HIDE DEF m
<1>2. CanPlace(accounts, m)
  BY DEF m
<1>3. AfterAvailable(accounts, m) \in [Participants -> Account]
  BY <1>1, <1>2, ApplyType DEF CanPlace, AfterAvailable
<1>4. Place(accounts, m) \in [Participants -> Account]
  BY <1>1, <1>2, <1>3, ApplyType DEF CanPlace, Place
<1>5. QED
  BY <1>4 DEF m

-----------------------------------------------------------------------------
(***************************************************************************)
(* The movements of the market are typed, hence PlaceMovement keeps the    *)
(* accounts typed: every flow is an integer in a currency of the market.   *)
(***************************************************************************)
LEMMA PlaceMovementType ==
  ASSUME account \in [Participants -> Account],
         ledger \in [Currencies -> [fees : Int, world : Int]],
         NEW type, NEW to \in Participants, NEW toDelta \in Int,
         NEW from \in Participants, NEW fromDelta \in Int,
         NEW fee \in Int, NEW world \in Int, NEW cur \in Currencies,
         PlaceMovement(Movement(type, to, toDelta, from, fromDelta, fee, world, cur))
  PROVE  /\ account' \in [Participants -> Account]
         /\ ledger' \in [Currencies -> [fees : Int, world : Int]]
<1> DEFINE m == Movement(type, to, toDelta, from, fromDelta, fee, world, cur)
<1>1. CanPlace(account, m) /\ account' = Place(account, m)
  BY DEF PlaceMovement
<1>2. account' \in [Participants -> Account]
  BY <1>1, PlaceType
<1>3. m.cur = cur /\ m.fee = fee /\ m.world = world
  BY DEF Movement
<1>4. ledger' = [ledger EXCEPT ![m.cur] = [fees |-> @.fees + m.fee,
                                          world |-> @.world + m.world]]
  BY DEF PlaceMovement
<1> HIDE DEF m
<1>5. ledger' \in [Currencies -> [fees : Int, world : Int]]
  <2>1. ledger[cur] \in [fees : Int, world : Int]
    OBVIOUS
  <2>2. [fees |-> ledger[cur].fees + fee, world |-> ledger[cur].world + world]
          \in [fees : Int, world : Int]
    BY <2>1
  <2>3. QED
    BY <1>3, <1>4, <2>2
<1>6. QED
  BY <1>2, <1>5

LEMMA CostType ==
  /\ \A b \in Bid : Cost(b) \in Nat
  /\ \A t \in Transaction : Cost(t) \in Nat
  BY DEF Cost, Bid, Transaction

LEMMA NewBidType ==
  ASSUME NEW type \in BidTypes, NEW article \in Articles, NEW price \in Prices,
         NEW c \in Currencies, NEW p \in Participants, NEW stamp \in Nat, PriceAllowed(price)
  PROVE  NewBid(type, article, price, c, p, stamp) \in Bid
<1>1. price \in Nat
  BY MarketAssumption DEF PriceAllowed
<1>2. Fee(price) \in Nat
  BY <1>1, FeeType
<1>3. stamp + BidTimeout \in Nat
  BY BidAssumption
<1>4. QED
  BY <1>1, <1>2, <1>3 DEF NewBid, Bid, BidStates

LEMMA NewTransactionType ==
  ASSUME NEW stamp \in Nat, NEW b1 \in BidIds, NEW b2 \in BidIds,
         NEW newBid \in Bid, NEW oldBid \in Bid
  PROVE  NewTransaction(stamp, b1, b2, newBid, oldBid) \in Transaction
<1>1. stamp + EstablishTime \in Nat
  BY TxAssumption
<1>2. QED
  BY <1>1 DEF NewTransaction, Transaction, Bid, Phases

LEMMA AdvancedType ==
  ASSUME NEW t \in Transaction, NEW stamp \in Nat, NEW post \in Phases
  PROVE  Advanced(t, stamp, post) \in Transaction
<1>1. TimeoutOnArrival(t.timeout, post, stamp) \in Nat
  BY TxAssumption DEF TimeoutOnArrival, Transaction, Phases
<1>2. t.revision + 1 \in Nat
  BY DEF Transaction
<1>3. QED
  BY <1>1, <1>2 DEF Advanced, Transaction

LEMMA RetiredType ==
  ASSUME NEW t \in Transaction
  PROVE  Retired(t) \in Transaction
<1>1. t.revision + 1 \in Nat
  BY DEF Transaction
<1>2. QED
  BY <1>1 DEF Retired, Transaction

-----------------------------------------------------------------------------
(***************************************************************************)
(* Type correctness.  One step per operation.                              *)
(***************************************************************************)
LEMMA DepositTyped ==
  ASSUME TypeOK, NEW u \in DepositUids, NEW d \in Deposit, PlaceDeposit(u, d)
  PROVE  TypeOK'
<1> DEFINE type == IF d.amount < 0 THEN "PAYOUT" ELSE "PAYIN"
<1>1. /\ d.account \in Participants /\ d.amount \in Int /\ -d.amount \in Int
      /\ d.cur \in Currencies /\ 0 \in Int
  BY DEF Deposit
<1>2. PlaceMovement(Movement(type, d.account, d.amount, d.account, 0, 0, -d.amount, d.cur))
  BY DEF PlaceDeposit
<1> HIDE DEF type
<1>3. account \in [Participants -> Account] /\ ledger \in [Currencies -> [fees : Int, world : Int]]
  BY DEF TypeOK
<1>4. account' \in [Participants -> Account] /\ ledger' \in [Currencies -> [fees : Int, world : Int]]
  BY <1>1, <1>2, <1>3, PlaceMovementType
<1>5. QED
  BY <1>4 DEF TypeOK, PlaceDeposit

LEMMA EnqueueTyped ==
  ASSUME TypeOK, NEW b \in BidIds, NEW type \in BidTypes, NEW article \in Articles,
         NEW price \in Prices, NEW c \in Currencies, NEW p \in Participants,
         NEW stamp \in Stamps, EnqueueBid(b, type, article, price, c, p, stamp)
  PROVE  TypeOK'
<1> DEFINE new == NewBid(type, article, price, c, p, stamp)
<1>1. new \in Bid
  BY NewBidType DEF EnqueueBid, TypeOK, Stamps
<1>2. account' \in [Participants -> Account] /\ ledger' \in [Currencies -> [fees : Int, world : Int]]
  <2>1. CASE type = "BUY"
    <3>1. PlaceMovement(BidMovement(new))
      BY <2>1 DEF EnqueueBid
    <3> HIDE DEF new
    <3> DEFINE q == new.participant
               cost == Cost(new)
    <3>2. PlaceMovement(Movement("BID", q, -cost, q, cost, 0, 0, new.cur))
      BY <3>1 DEF BidMovement
    <3>3. q \in Participants /\ new.cur \in Currencies /\ cost \in Int /\ -cost \in Int /\ 0 \in Int
      BY <1>1, CostType DEF Bid
    <3>4. account \in [Participants -> Account] /\ ledger \in [Currencies -> [fees : Int, world : Int]]
      BY DEF TypeOK
    <3> HIDE DEF q, cost
    <3>5. QED
      BY <3>2, <3>3, <3>4, PlaceMovementType
  <2>2. CASE type # "BUY"
    BY <2>2 DEF EnqueueBid, TypeOK
  <2>3. QED
    BY <2>1, <2>2
<1>3. bid' = [bid EXCEPT ![b] = new] /\ bidTasks' = bidTasks \cup {b}
  BY DEF EnqueueBid
<1> HIDE DEF new
<1>4. QED
  BY <1>1, <1>2, <1>3 DEF TypeOK, EnqueueBid

LEMMA PlaceTyped ==
  ASSUME TypeOK, NEW b \in BidIds, PlaceBid(b)
  PROVE  TypeOK'
<1>1. bid[b] \in Bid
  BY DEF TypeOK, PlaceBid, Known
<1>2. [bid[b] EXCEPT !.state = "PLACED"] \in Bid
  BY <1>1 DEF Bid, BidStates
<1>3. QED
  BY <1>2 DEF TypeOK, PlaceBid

\* What MatchBids reads and writes, named once for the proofs that follow.
OldBid(b) == [bid[b] EXCEPT !.state = IF @ = "INQUEUE" THEN "PLACED" ELSE @]
NewTx(stamp, b1, b2) == NewTransaction(stamp, b1, b2, bid[b1], OldBid(b2))
BuyerBid(b1, b2) == IF bid[b1].type = "BUY" THEN bid[b1] ELSE OldBid(b2)

LEMMA MatchFacts ==
  ASSUME TypeOK, NEW stamp \in Stamps, NEW b1 \in BidIds, NEW b2 \in BidIds,
         NEW t \in TxIds, MatchBids(stamp, b1, b2, t)
  PROVE  /\ bid[b1] \in Bid /\ bid[b2] \in Bid /\ OldBid(b2) \in Bid
         /\ stamp \in Nat /\ b1 # b2 /\ tx[t] = NoTx
         /\ bid[b1].state = "INQUEUE" /\ bid[b2].state \in {"INQUEUE", "PLACED"}
         /\ bid[b1].type # bid[b2].type
         /\ NewTx(stamp, b1, b2) \in Transaction
         /\ bid' = [bid EXCEPT ![b1] = Matched(bid[b1], t), ![b2] = Matched(OldBid(b2), t)]
         /\ tx' = [tx EXCEPT ![t] = NewTx(stamp, b1, b2)]
         /\ txTasks' = txTasks \cup {<<t, NewTx(stamp, b1, b2).timeout>>}
         /\ PriceDelta(NewTx(stamp, b1, b2), BuyerBid(b1, b2)) >= 0
         /\ IF PriceDelta(NewTx(stamp, b1, b2), BuyerBid(b1, b2)) > 0
            THEN PlaceMovement(DeltaMovement(NewTx(stamp, b1, b2), BuyerBid(b1, b2)))
            ELSE UNCHANGED <<account, ledger>>
         /\ UNCHANGED <<now, deposit, bidTasks>>
<1>1. bid[b1] \in Bid /\ bid[b2] \in Bid
  BY DEF MatchBids, Known, TypeOK
<1>2. OldBid(b2) \in Bid
  BY <1>1 DEF OldBid, Bid, BidStates
<1>3. stamp \in Nat
  BY DEF Stamps, TypeOK
<1>4. NewTx(stamp, b1, b2) \in Transaction
  BY <1>1, <1>2, <1>3, NewTransactionType DEF NewTx
<1>5. MayTransact(stamp, bid[b1], OldBid(b2))
  BY DEF MatchBids, OldBid
<1>6. OldBid(b2).type = bid[b2].type
  BY <1>1 DEF OldBid, Bid
<1>7. bid[b2].state \in {"INQUEUE", "PLACED"}
  BY <1>1, <1>5 DEF OldBid, Bid, MayTransact
<1>8. /\ bid[b1].type # bid[b2].type /\ b1 # b2
      /\ bid[b1].state = "INQUEUE"
  BY <1>5, <1>6 DEF MayTransact
<1>9. tx[t] = NoTx
  BY DEF MatchBids, Exists
<1>10. QED
  BY <1>1, <1>2, <1>3, <1>4, <1>7, <1>8, <1>9 DEF MatchBids, OldBid, NewTx, BuyerBid,
     AddRetirementTask

LEMMA MatchTyped ==
  ASSUME TypeOK, NEW stamp \in Stamps, NEW b1 \in BidIds, NEW b2 \in BidIds,
         NEW t \in TxIds, MatchBids(stamp, b1, b2, t)
  PROVE  TypeOK'
<1> DEFINE new == NewTx(stamp, b1, b2)
           buyerBid == BuyerBid(b1, b2)
<1>1. new \in Transaction /\ buyerBid \in Bid
  BY MatchFacts DEF BuyerBid
<1>2. Matched(bid[b1], t) \in Bid /\ Matched(OldBid(b2), t) \in Bid
  <2>1. bid[b1] \in Bid /\ OldBid(b2) \in Bid
    BY MatchFacts
  <2>2. QED
    BY <2>1 DEF Matched, Bid, BidStates
<1>3. account \in [Participants -> Account] /\ ledger \in [Currencies -> [fees : Int, world : Int]]
  BY DEF TypeOK
<1>4. account' \in [Participants -> Account] /\ ledger' \in [Currencies -> [fees : Int, world : Int]]
  <2> DEFINE delta == PriceDelta(new, buyerBid)
  <2>1. CASE delta > 0
    <3>1. PlaceMovement(DeltaMovement(new, buyerBid))
      BY <2>1, MatchFacts
    <3> HIDE DEF new, buyerBid
    <3>2. PlaceMovement(Movement("TRANSACTION", new.buyer, delta, new.buyer, -delta,
                                 0, 0, new.cur))
      BY <3>1 DEF DeltaMovement
    <3>3. /\ new.buyer \in Participants /\ new.cur \in Currencies
          /\ delta \in Int /\ -delta \in Int /\ 0 \in Int
      BY <1>1, CostType DEF Transaction, PriceDelta
    <3> HIDE DEF delta
    <3>4. QED
      BY <1>3, <3>2, <3>3, PlaceMovementType
  <2>2. CASE ~(delta > 0)
    BY <1>3, <2>2, MatchFacts
  <2>3. QED
    BY <2>1, <2>2
<1>5. new.timeout \in Nat
  BY <1>1 DEF Transaction
<1>6. /\ bid' = [bid EXCEPT ![b1] = Matched(bid[b1], t), ![b2] = Matched(OldBid(b2), t)]
      /\ tx' = [tx EXCEPT ![t] = new]
      /\ txTasks' = txTasks \cup {<<t, new.timeout>>}
      /\ UNCHANGED <<now, deposit, bidTasks>>
  <2>1. tx' = [tx EXCEPT ![t] = new]
    BY MatchFacts
  <2>2. txTasks' = txTasks \cup {<<t, new.timeout>>}
    BY MatchFacts
  <2>3. bid' = [bid EXCEPT ![b1] = Matched(bid[b1], t), ![b2] = Matched(OldBid(b2), t)]
    BY MatchFacts
  <2>4. UNCHANGED <<now, deposit, bidTasks>>
    BY MatchFacts
  <2>5. QED
    BY <2>1, <2>2, <2>3, <2>4
<1> HIDE DEF new, buyerBid
<1>7. tx' \in [TxIds -> Transaction \cup {NoTx}]
  BY <1>1, <1>6 DEF TypeOK
<1>8. txTasks' \subseteq TxIds \X Nat
  BY <1>5, <1>6 DEF TypeOK
<1>9. bid' \in [BidIds -> Bid \cup {NoBid}]
  BY <1>2, <1>6 DEF TypeOK
<1>10. QED
  BY <1>4, <1>6, <1>7, <1>8, <1>9 DEF TypeOK

LEMMA RetireBidTyped ==
  ASSUME TypeOK, NEW b \in bidTasks, RetireBid(b), Known(b)
  PROVE  TypeOK'
<1>1. b \in BidIds /\ bid[b] \in Bid
  BY DEF TypeOK, Known
<1>2. account \in [Participants -> Account] /\ ledger \in [Currencies -> [fees : Int, world : Int]]
  BY DEF TypeOK
<1>3. account' \in [Participants -> Account] /\ ledger' \in [Currencies -> [fees : Int, world : Int]]
  <2>1. CASE Unmatched(bid[b]) /\ bid[b].type = "BUY"
    <3> DEFINE p == bid[b].participant
               cost == Cost(bid[b])
    <3>1. PlaceMovement(Movement("BID_REIMBURSE", p, cost, p, -cost, 0, 0, bid[b].cur))
      BY <2>1 DEF RetireBid, BidReimbursement
    <3>2. /\ p \in Participants /\ bid[b].cur \in Currencies
          /\ cost \in Int /\ -cost \in Int /\ 0 \in Int
      BY <1>1, CostType DEF Bid
    <3> HIDE DEF p, cost
    <3>3. QED
      BY <1>2, <3>1, <3>2, PlaceMovementType
  <2>2. CASE ~(Unmatched(bid[b]) /\ bid[b].type = "BUY")
    BY <1>2, <2>2 DEF RetireBid
  <2>3. QED
    BY <2>1, <2>2
<1>4. [bid[b] EXCEPT !.state = "EXPIRED"] \in Bid
  BY <1>1 DEF Bid, BidStates
<1>5. bid' \in [BidIds -> Bid \cup {NoBid}]
  BY <1>1, <1>4 DEF RetireBid, TypeOK
<1>6. bidTasks' \subseteq BidIds
  BY DEF RetireBid, Done, TypeOK
<1>7. QED
  BY <1>3, <1>5, <1>6 DEF RetireBid, TypeOK

LEMMA UpdateTyped ==
  ASSUME TypeOK, NEW t \in TxIds, NEW stamp \in Stamps, NEW p \in Participants,
         NEW m \in Messages, NEW post \in Phases, UpdateTransaction(t, stamp, p, m, post)
  PROVE  TypeOK'
<1> DEFINE new == Advanced(tx[t], stamp, post)
<1>1. new \in Transaction
  BY AdvancedType DEF TypeOK, UpdateTransaction, Exists, Stamps
<1>2. tx' = [tx EXCEPT ![t] = new] /\ txTasks' = txTasks \cup {<<t, tx'[t].timeout>>}
  BY DEF UpdateTransaction, AddRetirementTask
<1> HIDE DEF new
<1>3. tx' \in [TxIds -> Transaction \cup {NoTx}] /\ tx'[t] = new
  BY <1>1, <1>2 DEF TypeOK
<1>4. txTasks' \subseteq TxIds \X Nat
  BY <1>1, <1>2, <1>3 DEF TypeOK, Transaction
<1>5. QED
  BY <1>3, <1>4 DEF UpdateTransaction, TypeOK

LEMMA RetireTxTyped ==
  ASSUME TypeOK, NEW task \in txTasks, RetireTransaction(task), Exists(task[1])
  PROVE  TypeOK'
<1> DEFINE t == task[1]
           old == tx[t]
<1>1. t \in TxIds /\ old \in Transaction
  BY DEF TypeOK, Exists
<1>2. account \in [Participants -> Account] /\ ledger \in [Currencies -> [fees : Int, world : Int]]
  BY DEF TypeOK
<1>3. /\ old.price \in Int /\ Cost(old) \in Int /\ -Cost(old) \in Int /\ old.fee \in Int
      /\ old.buyer \in Participants /\ old.seller \in Participants
      /\ old.cur \in Currencies /\ 0 \in Int
  BY <1>1, CostType DEF Transaction
<1>4. txTasks' \subseteq TxIds \X Nat
  BY DEF RetireTransaction, Done, TypeOK
<1>5. CASE old.state = "ACTIVE" /\ ~TooYoung(old, now)
  <2>1. PlaceMovement(SettlementMovement(old)) /\ tx' = [tx EXCEPT ![t] = Retired(old)]
    BY <1>5 DEF RetireTransaction
  <2>2. Retired(old) \in Transaction
    BY <1>1, RetiredType
  <2> HIDE DEF old, t
  <2>3. \/ PlaceMovement(Movement("TRANSACTION_FINISH", old.seller, old.price,
                                  old.buyer, -Cost(old), old.fee, 0, old.cur))
        \/ PlaceMovement(Movement("TRANSACTION_REIMBURSE", old.buyer, Cost(old),
                                  old.buyer, -Cost(old), 0, 0, old.cur))
    BY <2>1 DEF SettlementMovement
  <2>4. /\ account' \in [Participants -> Account]
        /\ ledger' \in [Currencies -> [fees : Int, world : Int]]
    BY <1>2, <1>3, <2>3, PlaceMovementType
  <2>5. tx' \in [TxIds -> Transaction \cup {NoTx}]
    BY <1>1, <2>1, <2>2 DEF TypeOK
  <2>6. QED
    BY <1>4, <2>4, <2>5 DEF RetireTransaction, TypeOK
<1>6. CASE ~(old.state = "ACTIVE" /\ ~TooYoung(old, now))
  BY <1>2, <1>4, <1>6 DEF RetireTransaction, TypeOK
<1>7. QED
  BY <1>5, <1>6

-----------------------------------------------------------------------------
LEMMA InitTyped == Init => TypeOK /\ TasksKnown
<1> SUFFICES ASSUME Init PROVE TypeOK /\ TasksKnown
  OBVIOUS
<1>1. EmptyAccount(DefaultCurrency) \in Account
  BY MarketAssumption DEF EmptyAccount, Account
<1>2. QED
  BY <1>1 DEF Init, TypeOK, TasksKnown

LEMMA StepTyped == TypeOK /\ TasksKnown /\ [Next]_vars => TypeOK'
<1> SUFFICES ASSUME TypeOK, TasksKnown, [Next]_vars
             PROVE  TypeOK'
  OBVIOUS
<1>1. CASE SomeDeposit
  <2>1. PICK u \in DepositUids, a \in Amounts, c \in Currencies, p \in Participants :
          PlaceDeposit(u, [amount |-> a, cur |-> c, account |-> p])
    BY <1>1 DEF SomeDeposit
  <2>2. [amount |-> a, cur |-> c, account |-> p] \in Deposit
    BY MarketAssumption DEF Deposit
  <2>3. QED
    BY <2>1, <2>2, DepositTyped
<1>2. CASE SomeBid
  BY <1>2, EnqueueTyped DEF SomeBid
<1>3. CASE \E b \in BidIds : PlaceBid(b)
  BY <1>3, PlaceTyped
<1>4. CASE SomeMatch
  BY <1>4, MatchTyped DEF SomeMatch
<1>5. CASE SomeMessage
  BY <1>5, UpdateTyped DEF SomeMessage
<1>6. CASE \E b \in bidTasks : RetireBid(b)
  BY <1>6, RetireBidTyped DEF TasksKnown
<1>7. CASE \E task \in txTasks : RetireTransaction(task)
  BY <1>7, RetireTxTyped DEF TasksKnown
<1>8. CASE Tick
  BY <1>8 DEF Tick, TypeOK
<1>9. CASE UNCHANGED vars
  BY <1>9 DEF vars, TypeOK
<1>10. QED
  BY <1>1, <1>2, <1>3, <1>4, <1>5, <1>6, <1>7, <1>8, <1>9 DEF Next

-----------------------------------------------------------------------------
(***************************************************************************)
(* What each operation does to the bids, the transactions and the tasks.   *)
(* The money is left to the sections on Escrow and on sums below.          *)
(***************************************************************************)
SameDeal(n, o) ==
  /\ n.type = o.type /\ n.price = o.price /\ n.fee = o.fee
  /\ n.participant = o.participant /\ n.cur = o.cur /\ n.expires = o.expires

SameParties(n, o) ==
  /\ n.buyerBid = o.buyerBid /\ n.sellerBid = o.sellerBid
  /\ n.buyer = o.buyer /\ n.seller = o.seller
  /\ n.price = o.price /\ n.fee = o.fee /\ n.cur = o.cur

LEMMA EnqueueEffect ==
  ASSUME TypeOK, NEW b \in BidIds, NEW type \in BidTypes, NEW article \in Articles,
         NEW price \in Prices, NEW c \in Currencies, NEW p \in Participants,
         NEW stamp \in Stamps, EnqueueBid(b, type, article, price, c, p, stamp)
  PROVE  \E n \in Bid :
           /\ n.state = "INQUEUE" /\ n.tx = NoTx
           /\ ~Known(b)
           /\ bid' = [bid EXCEPT ![b] = n]
           /\ bidTasks' = bidTasks \cup {b}
           /\ UNCHANGED <<tx, txTasks>>
<1> DEFINE new == NewBid(type, article, price, c, p, stamp)
<1>1. new \in Bid
  BY NewBidType DEF EnqueueBid, TypeOK, Stamps
<1>2. new.state = "INQUEUE" /\ new.tx = NoTx
  BY DEF NewBid
<1>3. QED
  BY <1>1, <1>2 DEF EnqueueBid

LEMMA PlaceEffect ==
  ASSUME TypeOK, NEW b \in BidIds, PlaceBid(b)
  PROVE  \E n \in Bid :
           /\ n.state = "PLACED" /\ n.tx = bid[b].tx /\ SameDeal(n, bid[b])
           /\ Known(b) /\ bid[b] \in Bid /\ bid[b].state = "INQUEUE"
           /\ bid' = [bid EXCEPT ![b] = n]
           /\ UNCHANGED <<tx, txTasks, bidTasks>>
<1> DEFINE new == [bid[b] EXCEPT !.state = "PLACED"]
<1>1. bid[b] \in Bid /\ Known(b) /\ bid[b].state = "INQUEUE"
  BY DEF TypeOK, PlaceBid, Known
<1>2. /\ new \in Bid /\ new.state = "PLACED" /\ new.tx = bid[b].tx
      /\ SameDeal(new, bid[b])
  BY <1>1 DEF Bid, BidStates, SameDeal
<1>3. bid' = [bid EXCEPT ![b] = new] /\ UNCHANGED <<tx, txTasks, bidTasks>>
  BY DEF PlaceBid
<1> HIDE DEF new
<1>4. QED
  BY <1>1, <1>2, <1>3

LEMMA RetireBidEffect ==
  ASSUME TypeOK, NEW b \in bidTasks, RetireBid(b), Known(b)
  PROVE  /\ b \in BidIds /\ bid[b] \in Bid
         /\ \/ /\ Unmatched(bid[b])
               /\ \E n \in Bid :
                    /\ n.state = "EXPIRED" /\ n.tx = bid[b].tx /\ SameDeal(n, bid[b])
                    /\ bid' = [bid EXCEPT ![b] = n]
            \/ ~Unmatched(bid[b]) /\ bid' = bid
         /\ bidTasks' \in {bidTasks, bidTasks \ {b}}
         /\ UNCHANGED <<tx, txTasks>>
<1>1. b \in BidIds /\ bid[b] \in Bid
  BY DEF TypeOK, Known
<1>2. bidTasks' \in {bidTasks, bidTasks \ {b}} /\ UNCHANGED <<tx, txTasks>>
  BY DEF RetireBid, Done
<1>3. CASE Unmatched(bid[b])
  <2> DEFINE new == [bid[b] EXCEPT !.state = "EXPIRED"]
  <2>1. /\ new \in Bid /\ new.state = "EXPIRED" /\ new.tx = bid[b].tx
        /\ SameDeal(new, bid[b])
    BY <1>1 DEF Bid, BidStates, SameDeal
  <2>2. bid' = [bid EXCEPT ![b] = new]
    BY <1>3 DEF RetireBid
  <2> HIDE DEF new
  <2>3. QED
    BY <1>1, <1>2, <1>3, <2>1, <2>2
<1>4. CASE ~Unmatched(bid[b])
  BY <1>1, <1>2, <1>4 DEF RetireBid
<1>5. QED
  BY <1>3, <1>4

LEMMA MatchEffect ==
  ASSUME TypeOK, NEW stamp \in Stamps, NEW b1 \in BidIds, NEW b2 \in BidIds,
         NEW t \in TxIds, MatchBids(stamp, b1, b2, t)
  PROVE  \E n1, n2 \in Bid, new \in Transaction :
           /\ bid' = [bid EXCEPT ![b1] = n1, ![b2] = n2]
           /\ tx' = [tx EXCEPT ![t] = new]
           /\ txTasks' = txTasks \cup {<<t, new.timeout>>}
           /\ bidTasks' = bidTasks
           /\ n1.state = "MATCHED" /\ n1.tx = t /\ SameDeal(n1, bid[b1])
           /\ n2.state = "MATCHED" /\ n2.tx = t /\ SameDeal(n2, bid[b2])
           /\ new.state = "ACTIVE" /\ Cost(new) <= Cost(bid[new.buyerBid])
           /\ \/ /\ new.buyerBid = b1 /\ new.sellerBid = b2
                 /\ bid[b1].type = "BUY" /\ bid[b2].type = "SELL"
              \/ /\ new.buyerBid = b2 /\ new.sellerBid = b1
                 /\ bid[b2].type = "BUY" /\ bid[b1].type = "SELL"
<1> DEFINE n1 == Matched(bid[b1], t)
           n2 == Matched(OldBid(b2), t)
           new == NewTx(stamp, b1, b2)
<1>1. /\ bid[b1] \in Bid /\ bid[b2] \in Bid /\ OldBid(b2) \in Bid
      /\ new \in Transaction /\ bid[b1].type # bid[b2].type
  BY MatchFacts
<1>2. bid' = [bid EXCEPT ![b1] = n1, ![b2] = n2]
  BY MatchFacts
<1>3. /\ tx' = [tx EXCEPT ![t] = new]
      /\ txTasks' = txTasks \cup {<<t, new.timeout>>}
      /\ bidTasks' = bidTasks
  BY MatchFacts
<1>4. n1 \in Bid /\ n1.state = "MATCHED" /\ n1.tx = t /\ SameDeal(n1, bid[b1])
  BY <1>1 DEF Matched, Bid, BidStates, SameDeal
<1>5. SameDeal(OldBid(b2), bid[b2])
  BY <1>1 DEF OldBid, Bid, SameDeal
<1>6. n2 \in Bid /\ n2.state = "MATCHED" /\ n2.tx = t /\ SameDeal(n2, OldBid(b2))
  BY <1>1 DEF Matched, Bid, BidStates, SameDeal
<1>7. SameDeal(n2, bid[b2])
  BY <1>5, <1>6 DEF SameDeal
<1>8. /\ new.state = "ACTIVE"
      /\ \/ /\ new.buyerBid = b1 /\ new.sellerBid = b2
            /\ bid[b1].type = "BUY" /\ bid[b2].type = "SELL"
         \/ /\ new.buyerBid = b2 /\ new.sellerBid = b1
            /\ bid[b2].type = "BUY" /\ bid[b1].type = "SELL"
  BY <1>1 DEF NewTx, NewTransaction, Bid, BidTypes
<1>9. Cost(new) <= Cost(bid[new.buyerBid])
  <2>1. PriceDelta(new, BuyerBid(b1, b2)) >= 0
    BY MatchFacts
  <2>2. Cost(BuyerBid(b1, b2)) = Cost(bid[new.buyerBid])
    BY <1>5, <1>8 DEF BuyerBid, SameDeal, Cost
  <2>3. Cost(new) \in Nat /\ Cost(BuyerBid(b1, b2)) \in Nat
    BY <1>1, CostType DEF BuyerBid
  <2> HIDE DEF new
  <2>4. QED
    BY <2>1, <2>2, <2>3 DEF PriceDelta
<1> HIDE DEF new, n1, n2
<1>10. QED
  BY <1>1, <1>2, <1>3, <1>4, <1>6, <1>7, <1>8, <1>9

LEMMA UpdateEffect ==
  ASSUME TypeOK, NEW t \in TxIds, NEW stamp \in Stamps, NEW p \in Participants,
         NEW m \in Messages, NEW post \in Phases, UpdateTransaction(t, stamp, p, m, post)
  PROVE  \E n \in Transaction :
           /\ Exists(t) /\ tx[t] \in Transaction
           /\ tx[t].state = "ACTIVE" /\ n.state = "ACTIVE" /\ SameParties(n, tx[t])
           /\ tx' = [tx EXCEPT ![t] = n]
           /\ txTasks' = txTasks \cup {<<t, n.timeout>>}
           /\ UNCHANGED <<bid, bidTasks>>
<1> DEFINE new == Advanced(tx[t], stamp, post)
<1>1. Exists(t) /\ tx[t] \in Transaction /\ tx[t].state = "ACTIVE"
  BY DEF TypeOK, UpdateTransaction, Exists, MayAdvance
<1>2. new \in Transaction
  BY <1>1, AdvancedType DEF TypeOK, Stamps
<1>3. new.state = "ACTIVE" /\ SameParties(new, tx[t])
  BY <1>1 DEF Advanced, SameParties, Transaction
<1>4. tx' = [tx EXCEPT ![t] = new] /\ txTasks' = txTasks \cup {<<t, tx'[t].timeout>>}
  BY DEF UpdateTransaction, AddRetirementTask
<1>5. UNCHANGED <<bid, bidTasks>>
  BY DEF UpdateTransaction
<1> HIDE DEF new
<1>6. tx'[t] = new
  BY <1>4 DEF TypeOK
<1>7. QED
  BY <1>1, <1>2, <1>3, <1>4, <1>5, <1>6

LEMMA RetireTxEffect ==
  ASSUME TypeOK, NEW task \in txTasks, RetireTransaction(task), Exists(task[1])
  PROVE  /\ task[1] \in TxIds /\ tx[task[1]] \in Transaction
         /\ task = <<task[1], task[2]>> /\ task[2] \in Nat
         /\ \/ \E n \in Transaction :
                 /\ tx[task[1]].state = "ACTIVE"
                 /\ n.state = "RETIRED" /\ n.phase = tx[task[1]].phase
                 /\ SameParties(n, tx[task[1]])
                 /\ tx' = [tx EXCEPT ![task[1]] = n]
            \/ /\ tx' = tx
               /\ tx[task[1]].state = "ACTIVE" => tx[task[1]].timeout # task[2]
         /\ txTasks' \in {txTasks, txTasks \ {task}}
         /\ UNCHANGED <<bid, bidTasks>>
<1> DEFINE t == task[1]
           old == tx[t]
           new == Retired(old)
<1>1. /\ t \in TxIds /\ old \in Transaction
      /\ task = <<task[1], task[2]>> /\ task[2] \in Nat
  BY DEF TypeOK, Exists
<1>2. txTasks' \in {txTasks, txTasks \ {task}} /\ UNCHANGED <<bid, bidTasks>>
  BY DEF RetireTransaction, Done
<1>3. CASE old.state = "ACTIVE" /\ ~TooYoung(old, now)
  <2>1. new \in Transaction
    BY <1>1, RetiredType
  <2>2. new.state = "RETIRED" /\ new.phase = old.phase /\ SameParties(new, old)
    BY <1>1 DEF Retired, SameParties, Transaction
  <2>3. tx' = [tx EXCEPT ![t] = new]
    BY <1>3 DEF RetireTransaction
  <2> HIDE DEF new
  <2>4. QED
    BY <1>1, <1>2, <1>3, <2>1, <2>2, <2>3
<1>4. CASE ~(old.state = "ACTIVE" /\ ~TooYoung(old, now))
  <2>1. now >= task[2] /\ tx' = tx
    BY <1>4 DEF RetireTransaction
  <2>2. old.state = "ACTIVE" => old.timeout > now
    BY <1>4 DEF TooYoung
  <2>3. now \in Nat /\ old.timeout \in Nat
    BY <1>1 DEF TypeOK, Transaction
  <2>4. old.state = "ACTIVE" => old.timeout # task[2]
    BY <1>1, <2>1, <2>2, <2>3
  <2>5. QED
    BY <1>1, <1>2, <2>1, <2>4
<1>5. QED
  BY <1>3, <1>4

-----------------------------------------------------------------------------
(***************************************************************************)
(* The inductive invariant.  TypeOK alone is not inductive: that a task is *)
(* not run on nil needs TasksKnown, which is part of RetirementScheduled.  *)
(* Nor is NoOvercharge: that the bid a transaction refers to is not made   *)
(* anew needs BidsAndTxsLinked.                                            *)
(***************************************************************************)
IInv == TypeOK /\ RetirementScheduled /\ BidsAndTxsLinked /\ NoOvercharge

\* The cases of the proofs below: a step that changes no bid, no transaction
\* and no task, or one of six operations.
Inert == UNCHANGED <<bid, tx, bidTasks, txTasks>>

LEMMA StepCases ==
  ASSUME TypeOK, TasksKnown, [Next]_vars
  PROVE  \/ Inert
         \/ SomeBid
         \/ \E b \in BidIds : PlaceBid(b)
         \/ SomeMatch
         \/ SomeMessage
         \/ \E b \in bidTasks : RetireBid(b) /\ Known(b)
         \/ \E task \in txTasks : RetireTransaction(task) /\ Exists(task[1])
<1>1. CASE SomeDeposit
  BY <1>1 DEF SomeDeposit, PlaceDeposit, Inert
<1>2. CASE Tick
  BY <1>2 DEF Tick, Inert
<1>3. CASE UNCHANGED vars
  BY <1>3 DEF vars, Inert
<1>4. QED
  BY <1>1, <1>2, <1>3 DEF Next, TasksKnown

LEMMA ScheduledStep ==
  ASSUME TypeOK, RetirementScheduled, [Next]_vars
  PROVE  RetirementScheduled'
<1> USE DEF RetirementScheduled, TasksKnown, Known, Exists, ActiveTx, Unmatched
<1>1. CASE Inert
  BY <1>1 DEF Inert
<1>2. CASE SomeBid
  <2>1. PICK b \in BidIds, n \in Bid :
          /\ n.state = "INQUEUE" /\ ~Known(b)
          /\ bid' = [bid EXCEPT ![b] = n] /\ bidTasks' = bidTasks \cup {b}
          /\ UNCHANGED <<tx, txTasks>>
    BY <1>2, EnqueueEffect DEF SomeBid
  <2>2. n # NoBid
    BY NilAssumption
  <2>3. QED
    BY <2>1, <2>2 DEF TypeOK
<1>3. CASE \E b \in BidIds : PlaceBid(b)
  <2>1. PICK b \in BidIds, n \in Bid :
          /\ Known(b) /\ bid[b].state = "INQUEUE"
          /\ bid' = [bid EXCEPT ![b] = n] /\ UNCHANGED <<tx, txTasks, bidTasks>>
    BY <1>3, PlaceEffect
  <2>2. n # NoBid
    BY NilAssumption
  <2>3. QED
    BY <2>1, <2>2 DEF TypeOK
<1>4. CASE SomeMatch
  <2>1. PICK b1 \in BidIds, b2 \in BidIds, t \in TxIds, n1 \in Bid, n2 \in Bid,
             new \in Transaction :
          /\ bid' = [bid EXCEPT ![b1] = n1, ![b2] = n2]
          /\ tx' = [tx EXCEPT ![t] = new]
          /\ txTasks' = txTasks \cup {<<t, new.timeout>>}
          /\ bidTasks' = bidTasks
          /\ n1.state = "MATCHED" /\ n2.state = "MATCHED"
    <3>1. PICK stamp \in Stamps, b1 \in BidIds, b2 \in BidIds, t \in TxIds :
            MatchBids(stamp, b1, b2, t)
      BY <1>4 DEF SomeMatch
    <3>2. QED
      BY <3>1, MatchEffect
  <2>2. n1 # NoBid /\ n2 # NoBid /\ new # NoTx
    BY NilAssumption
  <2>3. \A b \in BidIds : bid'[b] = bid[b] \/ bid'[b] = n1 \/ bid'[b] = n2
    BY <2>1 DEF TypeOK
  <2>4. \A u \in TxIds : tx'[u] = IF u = t THEN new ELSE tx[u]
    BY <2>1 DEF TypeOK
  <2>5. \A b \in BidIds : Known(b)' /\ Unmatched(bid'[b]) => b \in bidTasks'
    BY <2>1, <2>3
  <2>6. \A u \in TxIds : ActiveTx(u)' => <<u, tx'[u].timeout>> \in txTasks'
    BY <2>1, <2>4
  <2>7. \A b \in bidTasks' : Known(b)'
    BY <2>1, <2>2, <2>3 DEF TypeOK
  <2>8. \A task \in txTasks' : Exists(task[1])'
    BY <2>1, <2>2, <2>4 DEF TypeOK
  <2>9. QED
    BY <2>5, <2>6, <2>7, <2>8
<1>5. CASE SomeMessage
  <2>1. PICK t \in TxIds, n \in Transaction :
          /\ tx' = [tx EXCEPT ![t] = n] /\ txTasks' = txTasks \cup {<<t, n.timeout>>}
          /\ UNCHANGED <<bid, bidTasks>>
    <3>1. PICK t \in TxIds, stamp \in Stamps, p \in Participants, m \in Messages,
               post \in Phases : UpdateTransaction(t, stamp, p, m, post)
      BY <1>5 DEF SomeMessage
    <3>2. QED
      BY <3>1, UpdateEffect
  <2>2. n # NoTx
    BY NilAssumption
  <2>3. \A u \in TxIds : tx'[u] = IF u = t THEN n ELSE tx[u]
    BY <2>1 DEF TypeOK
  <2>4. \A u \in TxIds : ActiveTx(u)' => <<u, tx'[u].timeout>> \in txTasks'
    BY <2>1, <2>3
  <2>5. \A task \in txTasks' : Exists(task[1])'
    BY <2>1, <2>2, <2>3 DEF TypeOK
  <2>6. QED
    BY <2>1, <2>4, <2>5
<1>6. CASE \E b \in bidTasks : RetireBid(b) /\ Known(b)
  <2>1. PICK b \in bidTasks : RetireBid(b) /\ Known(b)
    BY <1>6
  <2>2. /\ b \in BidIds
        /\ bidTasks' \in {bidTasks, bidTasks \ {b}} /\ UNCHANGED <<tx, txTasks>>
    BY <2>1, RetireBidEffect
  <2>3. CASE ~Unmatched(bid[b]) /\ bid' = bid
    BY <2>2, <2>3
  <2>4. CASE \E n \in Bid : n.state = "EXPIRED" /\ bid' = [bid EXCEPT ![b] = n]
    BY <2>2, <2>4, NilAssumption DEF TypeOK
  <2>5. QED
    BY <2>1, <2>3, <2>4, RetireBidEffect
<1>7. CASE \E task \in txTasks : RetireTransaction(task) /\ Exists(task[1])
  <2>1. PICK task \in txTasks : RetireTransaction(task) /\ Exists(task[1])
    BY <1>7
  <2>2. /\ task[1] \in TxIds /\ task = <<task[1], task[2]>>
        /\ txTasks' \in {txTasks, txTasks \ {task}}
        /\ UNCHANGED <<bid, bidTasks>>
    BY <2>1, RetireTxEffect
  <2>3. CASE \E n \in Transaction :
               n.state = "RETIRED" /\ tx' = [tx EXCEPT ![task[1]] = n]
    <3>1. PICK n \in Transaction :
            n.state = "RETIRED" /\ tx' = [tx EXCEPT ![task[1]] = n]
      BY <2>3
    <3>2. n # NoTx
      BY NilAssumption
    <3>3. \A u \in TxIds : tx'[u] = IF u = task[1] THEN n ELSE tx[u]
      BY <2>2, <3>1 DEF TypeOK
    <3>4. \A u \in TxIds : ActiveTx(u)' => <<u, tx'[u].timeout>> \in txTasks'
      BY <2>2, <3>1, <3>3
    <3>5. \A k \in txTasks' : Exists(k[1])'
      BY <2>2, <3>2, <3>3 DEF TypeOK
    <3>6. QED
      BY <2>2, <3>4, <3>5
  <2>4. CASE tx' = tx /\ (tx[task[1]].state = "ACTIVE" => tx[task[1]].timeout # task[2])
    BY <2>2, <2>4
  <2>5. QED
    BY <2>1, <2>3, <2>4, RetireTxEffect
<1>8. QED
  BY <1>1, <1>2, <1>3, <1>4, <1>5, <1>6, <1>7, StepCases

-----------------------------------------------------------------------------
\* An operation that keeps what the links are made of keeps them: bids stay
\* known, of the same type and in the same transaction or in none, a matched
\* bid stays matched and no other becomes so.
LEMMA LinkedFrame ==
  ASSUME BidsAndTxsLinked, NoOvercharge,
         \A b \in BidIds :
           \/ bid'[b] = bid[b]
           \/ /\ bid[b] # NoBid /\ bid'[b] # NoBid
              /\ bid'[b].state # "MATCHED" /\ bid[b].state # "MATCHED"
              /\ bid'[b].tx = bid[b].tx /\ SameDeal(bid'[b], bid[b])
           \/ /\ bid[b] = NoBid /\ bid'[b].state # "MATCHED" /\ bid'[b].tx = NoTx,
         \A t \in TxIds :
           \/ tx'[t] = tx[t]
           \/ tx[t] # NoTx /\ tx'[t] # NoTx /\ SameParties(tx'[t], tx[t]),
         TypeOK
  PROVE  BidsAndTxsLinked' /\ NoOvercharge'
<1>1. ASSUME NEW b \in BidIds, Known(b)'
      PROVE  /\ bid'[b].state = "MATCHED" <=> bid'[b].tx # NoTx
             /\ bid'[b].tx # NoTx =>
                  /\ tx'[bid'[b].tx] # NoTx
                  /\ b \in {tx'[bid'[b].tx].buyerBid, tx'[bid'[b].tx].sellerBid}
  <2>1. CASE bid'[b].tx = NoTx
    BY <1>1, <2>1 DEF BidsAndTxsLinked, Known
  <2>2. CASE bid'[b].tx # NoTx
    <3>1. Known(b) /\ bid'[b].tx = bid[b].tx /\ bid[b] \in Bid
      BY <1>1, <2>2 DEF Known, TypeOK
    <3>2. /\ bid[b].state = "MATCHED" /\ Exists(bid[b].tx) /\ bid[b].tx \in TxIds
          /\ b \in {tx[bid[b].tx].buyerBid, tx[bid[b].tx].sellerBid}
      BY <2>2, <3>1 DEF BidsAndTxsLinked, Bid
    <3>3. bid'[b] = bid[b]
      BY <3>1, <3>2 DEF Known
    <3>4. /\ tx'[bid[b].tx] # NoTx
          /\ tx'[bid[b].tx].buyerBid = tx[bid[b].tx].buyerBid
          /\ tx'[bid[b].tx].sellerBid = tx[bid[b].tx].sellerBid
      BY <3>2 DEF Exists, SameParties
    <3>5. bid'[b].state = "MATCHED" /\ bid'[b].tx = bid[b].tx
      BY <3>2, <3>3
    <3>6. QED
      BY <2>2, <3>2, <3>4, <3>5
  <2>3. QED
    BY <2>1, <2>2
<1>2. ASSUME NEW t \in TxIds, Exists(t)'
      PROVE  /\ bid'[tx'[t].buyerBid] # NoBid /\ bid'[tx'[t].sellerBid] # NoBid
             /\ bid'[tx'[t].buyerBid].tx = t /\ bid'[tx'[t].sellerBid].tx = t
             /\ bid'[tx'[t].buyerBid].type = "BUY" /\ bid'[tx'[t].sellerBid].type = "SELL"
             /\ Cost(tx'[t]) <= Cost(bid'[tx'[t].buyerBid])
  <2>1. /\ Exists(t) /\ tx[t] \in Transaction
        /\ tx'[t].buyerBid = tx[t].buyerBid /\ tx'[t].sellerBid = tx[t].sellerBid
        /\ Cost(tx'[t]) = Cost(tx[t])
    BY <1>2 DEF Exists, SameParties, TypeOK, Cost
  <2>2. tx[t].buyerBid \in BidIds /\ tx[t].sellerBid \in BidIds
    BY <2>1 DEF Transaction
  <2>3. /\ Known(tx[t].buyerBid) /\ Known(tx[t].sellerBid)
        /\ bid[tx[t].buyerBid].tx = t /\ bid[tx[t].sellerBid].tx = t
        /\ bid[tx[t].buyerBid].type = "BUY" /\ bid[tx[t].sellerBid].type = "SELL"
        /\ Cost(tx[t]) <= Cost(bid[tx[t].buyerBid])
    BY <2>1 DEF BidsAndTxsLinked, NoOvercharge
  <2>4. \A b \in BidIds : Known(b) /\ bid[b].tx = t => bid'[b] = bid[b]
    BY NilAssumption DEF BidsAndTxsLinked, Known
  <2>5. QED
    BY <2>1, <2>2, <2>3, <2>4 DEF Known
<1>3. QED
  BY <1>1, <1>2 DEF BidsAndTxsLinked, NoOvercharge, Known, Exists

LEMMA MatchLinked ==
  ASSUME TypeOK, BidsAndTxsLinked, NoOvercharge, SomeMatch
  PROVE  BidsAndTxsLinked' /\ NoOvercharge'
<1>1. PICK stamp \in Stamps, b1 \in BidIds, b2 \in BidIds, t \in TxIds :
        MatchBids(stamp, b1, b2, t)
  BY DEF SomeMatch
<1>2. PICK n1 \in Bid, n2 \in Bid, new \in Transaction :
        /\ bid' = [bid EXCEPT ![b1] = n1, ![b2] = n2]
        /\ tx' = [tx EXCEPT ![t] = new]
        /\ n1.state = "MATCHED" /\ n1.tx = t /\ SameDeal(n1, bid[b1])
        /\ n2.state = "MATCHED" /\ n2.tx = t /\ SameDeal(n2, bid[b2])
        /\ Cost(new) <= Cost(bid[new.buyerBid])
        /\ \/ /\ new.buyerBid = b1 /\ new.sellerBid = b2
              /\ bid[b1].type = "BUY" /\ bid[b2].type = "SELL"
           \/ /\ new.buyerBid = b2 /\ new.sellerBid = b1
              /\ bid[b2].type = "BUY" /\ bid[b1].type = "SELL"
  BY <1>1, MatchEffect
<1>3. b1 # b2 /\ ~Exists(t) /\ Known(b1) /\ Known(b2)
  <2>1. b1 # b2 /\ tx[t] = NoTx
    BY <1>1, MatchFacts
  <2>2. Known(b1) /\ Known(b2)
    BY <1>1 DEF MatchBids
  <2>3. QED
    BY <2>1, <2>2 DEF Exists
<1>4. bid[b1].tx = NoTx /\ bid[b2].tx = NoTx
  <2>1. bid[b1].state \in {"INQUEUE", "PLACED"} /\ bid[b2].state \in {"INQUEUE", "PLACED"}
    BY <1>1, MatchFacts
  <2>2. QED
    BY <1>3, <2>1 DEF BidsAndTxsLinked
<1>5. n1 # NoBid /\ n2 # NoBid /\ new # NoTx /\ t # NoTx
  BY NilAssumption
<1>6. /\ bid'[b1] = n1 /\ bid'[b2] = n2
      /\ \A b \in BidIds \ {b1, b2} : bid'[b] = bid[b]
  BY <1>2, <1>3 DEF TypeOK
<1>7. tx'[t] = new /\ \A u \in TxIds \ {t} : tx'[u] = tx[u]
  BY <1>2 DEF TypeOK
<1>8. ASSUME NEW b \in BidIds, Known(b)'
      PROVE  /\ bid'[b].state = "MATCHED" <=> bid'[b].tx # NoTx
             /\ bid'[b].tx # NoTx =>
                  /\ tx'[bid'[b].tx] # NoTx
                  /\ b \in {tx'[bid'[b].tx].buyerBid, tx'[bid'[b].tx].sellerBid}
  <2>1. CASE b \in {b1, b2}
    BY <1>2, <1>5, <1>6, <1>7, <2>1 DEF Exists
  <2>2. CASE b \notin {b1, b2}
    <3>1. bid'[b] = bid[b] /\ Known(b) /\ bid[b] \in Bid
      BY <1>6, <1>8, <2>2 DEF Known, TypeOK
    <3>2. /\ bid[b].state = "MATCHED" <=> bid[b].tx # NoTx
          /\ bid[b].tx # NoTx =>
               /\ Exists(bid[b].tx) /\ bid[b].tx \in TxIds
               /\ b \in {tx[bid[b].tx].buyerBid, tx[bid[b].tx].sellerBid}
      BY <3>1 DEF BidsAndTxsLinked, Bid
    <3>3. bid[b].tx # t
      BY <1>3, <1>5, <3>2
    <3>4. QED
      BY <1>7, <3>1, <3>2, <3>3 DEF Exists
  <2>3. QED
    BY <2>1, <2>2
<1>9. ASSUME NEW u \in TxIds, Exists(u)'
      PROVE  /\ bid'[tx'[u].buyerBid] # NoBid /\ bid'[tx'[u].sellerBid] # NoBid
             /\ bid'[tx'[u].buyerBid].tx = u /\ bid'[tx'[u].sellerBid].tx = u
             /\ bid'[tx'[u].buyerBid].type = "BUY" /\ bid'[tx'[u].sellerBid].type = "SELL"
             /\ Cost(tx'[u]) <= Cost(bid'[tx'[u].buyerBid])
  <2>1. CASE u = t
    BY <1>2, <1>5, <1>6, <1>7, <2>1 DEF Known, SameDeal, Cost
  <2>2. CASE u # t
    <3>1. tx'[u] = tx[u] /\ Exists(u) /\ tx[u] \in Transaction
      BY <1>7, <1>9, <2>2 DEF Exists, TypeOK
    <3>2. tx[u].buyerBid \in BidIds /\ tx[u].sellerBid \in BidIds
      BY <3>1 DEF Transaction
    <3>3. /\ Known(tx[u].buyerBid) /\ Known(tx[u].sellerBid)
          /\ bid[tx[u].buyerBid].tx = u /\ bid[tx[u].sellerBid].tx = u
          /\ bid[tx[u].buyerBid].type = "BUY" /\ bid[tx[u].sellerBid].type = "SELL"
          /\ Cost(tx[u]) <= Cost(bid[tx[u].buyerBid])
      BY <3>1 DEF BidsAndTxsLinked, NoOvercharge
    <3>4. u # NoTx
      BY NilAssumption
    <3>5. tx[u].buyerBid \notin {b1, b2} /\ tx[u].sellerBid \notin {b1, b2}
      BY <1>4, <3>3, <3>4
    <3>6. QED
      BY <1>6, <3>1, <3>2, <3>3, <3>5 DEF Known
  <2>3. QED
    BY <2>1, <2>2
<1>10. QED
  BY <1>8, <1>9 DEF BidsAndTxsLinked, NoOvercharge, Known, Exists

LEMMA LinkedStep ==
  ASSUME TypeOK, TasksKnown, BidsAndTxsLinked, NoOvercharge, [Next]_vars
  PROVE  BidsAndTxsLinked' /\ NoOvercharge'
<1>1. CASE Inert
  BY <1>1, LinkedFrame DEF Inert
<1>2. CASE SomeBid
  <2>1. PICK b \in BidIds, n \in Bid :
          /\ n.state = "INQUEUE" /\ n.tx = NoTx /\ ~Known(b)
          /\ bid' = [bid EXCEPT ![b] = n] /\ tx' = tx
    BY <1>2, EnqueueEffect DEF SomeBid
  <2>2. /\ bid[b] = NoBid /\ bid'[b] = n
        /\ \A c \in BidIds \ {b} : bid'[c] = bid[c]
    BY <2>1 DEF Known, TypeOK
  <2>3. QED
    BY <2>1, <2>2, LinkedFrame
<1>3. CASE \E b \in BidIds : PlaceBid(b)
  <2>1. PICK b \in BidIds, n \in Bid :
          /\ n.state = "PLACED" /\ n.tx = bid[b].tx /\ SameDeal(n, bid[b])
          /\ Known(b) /\ bid[b].state = "INQUEUE"
          /\ bid' = [bid EXCEPT ![b] = n] /\ tx' = tx
    BY <1>3, PlaceEffect
  <2>2. /\ bid[b] # NoBid /\ bid'[b] = n /\ n # NoBid
        /\ \A c \in BidIds \ {b} : bid'[c] = bid[c]
    BY <2>1, NilAssumption DEF Known, TypeOK
  <2>3. QED
    BY <2>1, <2>2, LinkedFrame
<1>4. CASE SomeMatch
  BY <1>4, MatchLinked
<1>5. CASE SomeMessage
  <2>1. PICK t \in TxIds, n \in Transaction :
          /\ Exists(t) /\ SameParties(n, tx[t])
          /\ tx' = [tx EXCEPT ![t] = n] /\ bid' = bid
    <3>1. PICK t \in TxIds, stamp \in Stamps, p \in Participants, m \in Messages,
               post \in Phases : UpdateTransaction(t, stamp, p, m, post)
      BY <1>5 DEF SomeMessage
    <3>2. QED
      BY <3>1, UpdateEffect
  <2>2. /\ tx[t] # NoTx /\ tx'[t] = n /\ n # NoTx
        /\ \A u \in TxIds \ {t} : tx'[u] = tx[u]
    BY <2>1, NilAssumption DEF Exists, TypeOK
  <2>3. QED
    BY <2>1, <2>2, LinkedFrame
<1>6. CASE \E b \in bidTasks : RetireBid(b) /\ Known(b)
  <2>1. PICK b \in bidTasks : RetireBid(b) /\ Known(b)
    BY <1>6
  <2>2. b \in BidIds /\ tx' = tx
    BY <2>1, RetireBidEffect
  <2>3. CASE bid' = bid
    BY <2>2, <2>3, LinkedFrame
  <2>4. CASE Unmatched(bid[b]) /\ bid' # bid
    <3>1. PICK n \in Bid :
            /\ n.state = "EXPIRED" /\ n.tx = bid[b].tx /\ SameDeal(n, bid[b])
            /\ bid' = [bid EXCEPT ![b] = n]
      BY <2>1, <2>4, RetireBidEffect
    <3>2. /\ bid[b] # NoBid /\ bid'[b] = n /\ n # NoBid
          /\ \A c \in BidIds \ {b} : bid'[c] = bid[c]
      BY <2>1, <2>2, <3>1, NilAssumption DEF Known, TypeOK
    <3>3. bid[b].state # "MATCHED"
      BY <2>4 DEF Unmatched
    <3>4. QED
      BY <2>2, <3>1, <3>2, <3>3, LinkedFrame
  <2>5. QED
    BY <2>1, <2>3, <2>4, RetireBidEffect
<1>7. CASE \E task \in txTasks : RetireTransaction(task) /\ Exists(task[1])
  <2>1. PICK task \in txTasks : RetireTransaction(task) /\ Exists(task[1])
    BY <1>7
  <2>2. task[1] \in TxIds /\ bid' = bid
    BY <2>1, RetireTxEffect
  <2>3. CASE tx' = tx
    BY <2>2, <2>3, LinkedFrame
  <2>4. CASE tx' # tx
    <3>1. PICK n \in Transaction :
            SameParties(n, tx[task[1]]) /\ tx' = [tx EXCEPT ![task[1]] = n]
      BY <2>1, <2>4, RetireTxEffect
    <3>2. /\ tx[task[1]] # NoTx /\ tx'[task[1]] = n /\ n # NoTx
          /\ \A u \in TxIds \ {task[1]} : tx'[u] = tx[u]
      BY <2>1, <2>2, <3>1, NilAssumption DEF Exists, TypeOK
    <3>3. QED
      BY <2>2, <3>1, <3>2, LinkedFrame
  <2>5. QED
    BY <2>3, <2>4
<1>8. QED
  BY <1>1, <1>2, <1>3, <1>4, <1>5, <1>6, <1>7, StepCases

-----------------------------------------------------------------------------
\* IInv holds initially and is kept by every step.
LEMMA InitIInv == Init => IInv
<1> SUFFICES ASSUME Init PROVE IInv
  OBVIOUS
<1>1. TypeOK /\ TasksKnown
  BY InitTyped
<1>2. (\A b \in BidIds : ~Known(b)) /\ (\A t \in TxIds : ~Exists(t))
  BY DEF Init, Known, Exists
<1>3. QED
  BY <1>1, <1>2 DEF IInv, RetirementScheduled, BidsAndTxsLinked, NoOvercharge, ActiveTx

LEMMA StepIInv == IInv /\ [Next]_vars => IInv'
<1> SUFFICES ASSUME IInv, [Next]_vars PROVE IInv'
  OBVIOUS
<1>1. TypeOK /\ TasksKnown /\ RetirementScheduled /\ BidsAndTxsLinked /\ NoOvercharge
  BY DEF IInv, RetirementScheduled
<1>2. TypeOK'
  BY <1>1, StepTyped
<1>3. RetirementScheduled'
  BY <1>1, ScheduledStep
<1>4. BidsAndTxsLinked' /\ NoOvercharge'
  BY <1>1, LinkedStep
<1>5. QED
  BY <1>2, <1>3, <1>4 DEF IInv

THEOREM IInvHolds == Spec => []IInv
<1>1. Init => IInv
  BY InitIInv
<1>2. IInv /\ [Next]_vars => IInv'
  BY StepIInv
<1>3. QED
  BY <1>1, <1>2, PTL DEF Spec

\* Whatever the operations and their order, every account stays one with two
\* balances that are not negative, and every bid, transaction and task has its
\* type.
THEOREM TypeCorrect == Spec => []TypeOK
<1>1. IInv => TypeOK
  BY DEF IInv
<1>2. QED
  BY <1>1, IInvHolds, PTL

\* Bids and transactions always point at each other: no bid is sold twice.
THEOREM Linked == Spec => []BidsAndTxsLinked
<1>1. IInv => BidsAndTxsLinked
  BY DEF IInv
<1>2. QED
  BY <1>1, IInvHolds, PTL

\* A transaction never costs its buyer more than was blocked for the bid.
THEOREM NeverOvercharged == Spec => []NoOvercharge
<1>1. IInv => NoOvercharge
  BY DEF IInv
<1>2. QED
  BY <1>1, IInvHolds, PTL

\* Every open bid and every active transaction always has a task waiting that
\* will find it due.
THEOREM TasksWaiting == Spec => []RetirementScheduled
<1>1. IInv => RetirementScheduled
  BY DEF IInv
<1>2. QED
  BY <1>1, IInvHolds, PTL

-----------------------------------------------------------------------------
(***************************************************************************)
(* The market implements Escrow.  A movement changes the wallet of the     *)
(* account it makes available money in or out of, and no other.            *)
(***************************************************************************)
LEMMA PlaceAvailable ==
  ASSUME NEW accounts \in [Participants -> Account],
         NEW type, NEW to \in Participants, NEW toDelta \in Int,
         NEW from \in Participants, NEW fromDelta \in Int,
         NEW fee \in Int, NEW world \in Int, NEW cur \in Currencies,
         CanPlace(accounts, Movement(type, to, toDelta, from, fromDelta, fee, world, cur))
  PROVE  LET after == Place(accounts,
                            Movement(type, to, toDelta, from, fromDelta, fee, world, cur))
         IN  /\ after[to].avail = accounts[to].avail + toDelta
             /\ after[to].avail \in Nat
             /\ \A p \in Participants \ {to} : after[p].avail = accounts[p].avail
<1> DEFINE m == Movement(type, to, toDelta, from, fromDelta, fee, world, cur)
           mid == AfterAvailable(accounts, m)
           after == Place(accounts, m)
<1>1. /\ m.availAccount = to /\ m.availDelta = toDelta
      /\ m.blockedAccount = from /\ m.blockedDelta = fromDelta /\ m.cur = cur
  BY DEF Movement
<1>2. after \in [Participants -> Account]
  BY PlaceType
<1> HIDE DEF m
<1>3. CanPlace(accounts, m)
  BY DEF m
<1>4. mid \in [Participants -> Account]
  BY <1>1, <1>3, ApplyType DEF CanPlace, AfterAvailable
<1>5. /\ mid[to].avail = accounts[to].avail + toDelta
      /\ \A p \in Participants \ {to} : mid[p].avail = accounts[p].avail
  BY <1>1 DEF AfterAvailable, ApplyAvailable, Account
<1>6. after = [mid EXCEPT ![from] = ApplyBlocked(mid[from], fromDelta, cur)]
  BY <1>1 DEF Place
<1> HIDE DEF mid, after
<1>7. \A p \in Participants : after[p].avail = mid[p].avail
  BY <1>4, <1>6 DEF ApplyBlocked, Account
<1>8. /\ after[to].avail = accounts[to].avail + toDelta
      /\ after[to].avail \in Nat
      /\ \A p \in Participants \ {to} : after[p].avail = accounts[p].avail
  BY <1>2, <1>5, <1>7 DEF Account
<1>9. QED
  BY <1>8 DEF after, m

LEMMA WalletType ==
  ASSUME TypeOK
  PROVE  wallet \in [Participants -> Nat]
  BY DEF TypeOK, wallet, Account

LEMMA PlaceWallet ==
  ASSUME TypeOK,
         NEW type, NEW to \in Participants, NEW toDelta \in Int,
         NEW from \in Participants, NEW fromDelta \in Int,
         NEW fee \in Int, NEW world \in Int, NEW cur \in Currencies,
         PlaceMovement(Movement(type, to, toDelta, from, fromDelta, fee, world, cur))
  PROVE  /\ wallet' = [wallet EXCEPT ![to] = wallet[to] + toDelta]
         /\ wallet'[to] = wallet[to] + toDelta
         /\ wallet'[to] \in Nat
<1>1. account \in [Participants -> Account]
  BY DEF TypeOK
<1>2. /\ CanPlace(account, Movement(type, to, toDelta, from, fromDelta, fee, world, cur))
      /\ account' = Place(account,
                          Movement(type, to, toDelta, from, fromDelta, fee, world, cur))
  BY DEF PlaceMovement
<1>3. /\ account'[to].avail = account[to].avail + toDelta
      /\ account'[to].avail \in Nat
      /\ \A p \in Participants \ {to} : account'[p].avail = account[p].avail
  BY <1>1, <1>2, PlaceAvailable
<1>4. /\ wallet = [p \in Participants |-> account[p].avail]
      /\ wallet' = [p \in Participants |-> account'[p].avail]
  BY DEF wallet
<1>5. QED
  BY <1>3, <1>4

-----------------------------------------------------------------------------
(***************************************************************************)
(* Holds.                                                                  *)
(***************************************************************************)
\* A hold is made of its bid and, once matched, the bid's transaction.
LEMMA HoldFrame ==
  ASSUME IInv, NEW c \in BidIds, bid'[c] = bid[c],
         \A t \in TxIds : t = bid[c].tx /\ Exists(t) => tx'[t] = tx[t]
  PROVE  HoldOf(c)' = HoldOf(c)
<1>1. CASE ~Known(c) \/ bid[c].type = "SELL"
  BY <1>1 DEF HoldOf, Known
<1>2. CASE Known(c) /\ bid[c].type # "SELL" /\ bid[c].state # "MATCHED"
  <2>1. bid[c].state \in {"INQUEUE", "PLACED", "EXPIRED"}
    BY <1>2 DEF IInv, TypeOK, Known, Bid, BidStates
  <2>2. QED
    BY <1>2, <2>1 DEF HoldOf, Known, Unmatched, Holding, Cost
<1>3. CASE Known(c) /\ bid[c].type # "SELL" /\ bid[c].state = "MATCHED"
  <2>1. Exists(bid[c].tx) /\ bid[c].tx \in TxIds
    BY <1>3 DEF IInv, TypeOK, BidsAndTxsLinked, Known, Bid
  <2>2. tx'[bid[c].tx] = tx[bid[c].tx]
    BY <2>1
  <2>3. HoldOfTx(bid[c].tx)' = HoldOfTx(bid[c].tx)
    BY <2>2 DEF HoldOfTx, Holding, PaysSeller, Cost
  <2>4. QED
    BY <2>2 DEF HoldOf, Known, Unmatched, Holding, Cost, HoldOfTx, PaysSeller
<1>4. QED
  BY <1>1, <1>2, <1>3

\* A step that changes one hold only.
LEMMA OneHold ==
  ASSUME NEW b \in BidIds, NEW value,
         HoldOf(b)' = value,
         \A c \in BidIds \ {b} : HoldOf(c)' = HoldOf(c)
  PROVE  hold' = [hold EXCEPT ![b] = value]
  BY DEF hold

LEMMA NoHold ==
  ASSUME \A c \in BidIds : HoldOf(c)' = HoldOf(c)
  PROVE  UNCHANGED hold
  BY DEF hold

-----------------------------------------------------------------------------
(***************************************************************************)
(* Every operation is a step of Escrow.                                    *)
(***************************************************************************)
EscrowStep == Promise!Next \/ UNCHANGED Promise!vars

LEMMA Moved ==
  ASSUME NEW p \in Participants, NEW d \in Int, wallet[p] \in Nat,
         wallet' = [wallet EXCEPT ![p] = wallet[p] + d],
         wallet'[p] = wallet[p] + d
  PROVE  Promise!Moves(p) /\ Promise!Gain(p) = d
<1>1. Promise!Moves(p)
  BY DEF Promise!Moves
<1>2. Promise!Gain(p) = (wallet[p] + d) - wallet[p]
  BY DEF Promise!Gain
<1>3. QED
  BY <1>1, <1>2

LEMMA DepositEscrow ==
  ASSUME IInv, SomeDeposit
  PROVE  EscrowStep
<1>1. PICK u \in DepositUids, a \in Amounts, c \in Currencies, p \in Participants :
        PlaceDeposit(u, [amount |-> a, cur |-> c, account |-> p])
  BY DEF SomeDeposit
<1>2. TypeOK /\ a \in Int /\ -a \in Int /\ 0 \in Int
  BY MarketAssumption DEF IInv
<1> DEFINE type == IF a < 0 THEN "PAYOUT" ELSE "PAYIN"
<1>3. PlaceMovement(Movement(type, p, a, p, 0, 0, -a, c)) /\ bid' = bid /\ tx' = tx
  BY <1>1 DEF PlaceDeposit
<1> HIDE DEF type
<1>4. wallet' = [wallet EXCEPT ![p] = wallet[p] + a] /\ wallet'[p] \in Nat
      /\ wallet'[p] = wallet[p] + a
  BY <1>2, <1>3, PlaceWallet
<1>5. \A b \in BidIds : HoldOf(b)' = HoldOf(b)
  BY <1>3, HoldFrame
<1>6. UNCHANGED hold
  BY <1>5, NoHold
<1>7. Promise!Deal(p)
  BY <1>4, <1>6 DEF Promise!Deal, Promise!Moves
<1>8. QED
  BY <1>7 DEF EscrowStep, Promise!Next

LEMMA EnqueueEscrow ==
  ASSUME IInv, SomeBid
  PROVE  EscrowStep
<1>1. PICK b \in BidIds, type \in BidTypes, article \in Articles, price \in Prices,
           c \in Currencies, p \in Participants, stamp \in Stamps :
             EnqueueBid(b, type, article, price, c, p, stamp)
  BY DEF SomeBid
<1> DEFINE new == NewBid(type, article, price, c, p, stamp)
           cost == Cost(new)
<1>2. TypeOK /\ new \in Bid
  BY <1>1, NewBidType DEF EnqueueBid, IInv, TypeOK, Stamps
<1>3. new.type = type /\ new.state = "INQUEUE" /\ new.participant = p /\ new.cur = c
  BY DEF NewBid
<1>4. ~Known(b) /\ bid' = [bid EXCEPT ![b] = new] /\ tx' = tx
  BY <1>1 DEF EnqueueBid
<1>5. type = "BUY" => PlaceMovement(BidMovement(new))
  BY <1>1 DEF EnqueueBid
<1>6. type # "BUY" => account' = account
  BY <1>1 DEF EnqueueBid
<1> HIDE DEF new
<1>7. bid'[b] = new /\ new # NoBid /\ \A d \in BidIds \ {b} : bid'[d] = bid[d]
  BY <1>2, <1>4, NilAssumption DEF TypeOK
<1>8. \A d \in BidIds \ {b} : HoldOf(d)' = HoldOf(d)
  BY <1>4, <1>7, HoldFrame
<1>9. HoldOf(b) = [state |-> "NONE"]
  BY <1>4 DEF HoldOf
<1>10. cost \in Nat /\ cost \in Int /\ -cost \in Int /\ 0 \in Int
  BY <1>2, CostType
<1>11. CASE type = "BUY"
  <2>1. HoldOf(b)' = Holding(p, cost)
    BY <1>3, <1>7, <1>11 DEF HoldOf, Known, Unmatched, Holding, Cost
  <2>2. hold' = [hold EXCEPT ![b] = Holding(p, cost)]
    BY <1>8, <2>1, OneHold
  <2>3. PlaceMovement(Movement("BID", p, -cost, p, cost, 0, 0, c))
    BY <1>3, <1>5, <1>11 DEF BidMovement
  <2> HIDE DEF cost
  <2>4. /\ wallet' = [wallet EXCEPT ![p] = wallet[p] + (-cost)]
        /\ wallet'[p] = wallet[p] + (-cost) /\ wallet'[p] \in Nat
    BY <1>2, <1>10, <2>3, PlaceWallet
  <2>5. wallet[p] \in Nat
    BY <1>2, WalletType
  <2>6. /\ Promise!Moves(p) /\ -Promise!Gain(p) = cost
        /\ wallet'[p] \in 0 .. wallet[p]
    <3>1. Promise!Moves(p) /\ Promise!Gain(p) = -cost
      BY <1>10, <2>4, <2>5, Moved
    <3>2. wallet[p] + (-cost) <= wallet[p]
      BY <1>10, <2>5
    <3>3. wallet'[p] \in 0 .. wallet[p]
      BY <2>4, <2>5, <3>2
    <3>4. QED
      BY <1>10, <3>1, <3>3
  <2>7. hold[b] = Promise!Empty("NONE")
    BY <1>9 DEF hold, Promise!Empty
  <2>8. hold' = [hold EXCEPT ![b] = Promise!Held(p, -Promise!Gain(p))]
    BY <2>2, <2>6 DEF Promise!Held, Holding
  <2>9. Promise!Take(b, p)
    BY <2>6, <2>7, <2>8 DEF Promise!Take
  <2>10. QED
    BY <2>9 DEF EscrowStep, Promise!Next
<1>12. CASE type # "BUY"
  <2>1. HoldOf(b)' = HoldOf(b)
    BY <1>3, <1>7, <1>9, <1>12 DEF HoldOf, BidTypes
  <2>2. UNCHANGED hold
    BY <1>8, <2>1, NoHold
  <2>3. UNCHANGED wallet
    BY <1>6, <1>12 DEF wallet
  <2>4. QED
    BY <2>2, <2>3 DEF EscrowStep, Promise!vars
<1>13. QED
  BY <1>11, <1>12

LEMMA PlaceEscrow ==
  ASSUME IInv, NEW b \in BidIds, PlaceBid(b)
  PROVE  EscrowStep
<1>1. TypeOK
  BY DEF IInv
<1>2. PICK n \in Bid :
        /\ n.state = "PLACED" /\ SameDeal(n, bid[b])
        /\ Known(b) /\ bid[b] \in Bid /\ bid[b].state = "INQUEUE"
        /\ bid' = [bid EXCEPT ![b] = n] /\ tx' = tx
  BY <1>1, PlaceEffect
<1>3. bid'[b] = n /\ n # NoBid /\ \A d \in BidIds \ {b} : bid'[d] = bid[d]
  BY <1>1, <1>2, NilAssumption DEF TypeOK
<1>4. HoldOf(b)' = HoldOf(b)
  BY <1>2, <1>3 DEF HoldOf, Known, Unmatched, Holding, Cost, SameDeal
<1>5. UNCHANGED hold
  BY <1>2, <1>3, <1>4, HoldFrame, NoHold
<1>6. UNCHANGED wallet
  BY DEF PlaceBid, wallet
<1>7. QED
  BY <1>5, <1>6 DEF EscrowStep, Promise!vars

LEMMA RetireBidEscrow ==
  ASSUME IInv, NEW b \in bidTasks, RetireBid(b), Known(b)
  PROVE  EscrowStep
<1>1. TypeOK
  BY DEF IInv
<1>2. b \in BidIds /\ bid[b] \in Bid /\ tx' = tx
  BY <1>1, RetireBidEffect
<1>3. CASE bid' = bid
  <2>1. ~Unmatched(bid[b])
    BY <1>1, <1>2, <1>3 DEF RetireBid, Unmatched, TypeOK, Bid
  <2>2. UNCHANGED wallet
    BY <2>1 DEF RetireBid, wallet
  <2>3. UNCHANGED hold
    BY <1>2, <1>3, HoldFrame, NoHold
  <2>4. QED
    BY <2>2, <2>3 DEF EscrowStep, Promise!vars
<1>4. CASE bid' # bid
  <2>1. PICK n \in Bid :
          /\ Unmatched(bid[b]) /\ n.state = "EXPIRED" /\ SameDeal(n, bid[b])
          /\ bid' = [bid EXCEPT ![b] = n]
    BY <1>1, <1>4, RetireBidEffect
  <2>2. bid'[b] = n /\ n # NoBid /\ \A d \in BidIds \ {b} : bid'[d] = bid[d]
    BY <1>1, <1>2, <2>1, NilAssumption DEF TypeOK
  <2>3. \A d \in BidIds \ {b} : HoldOf(d)' = HoldOf(d)
    BY <1>2, <2>2, HoldFrame
  <2>4. CASE bid[b].type = "BUY"
    <3> DEFINE p == bid[b].participant
               cost == Cost(bid[b])
    <3>1. hold[b] = Holding(p, cost)
      BY <1>2, <2>1, <2>4 DEF hold, HoldOf, Known
    <3>2. HoldOf(b)' = [state |-> "REFUNDED"]
      BY <2>1, <2>2, <2>4 DEF HoldOf, Known, Unmatched, SameDeal
    <3>3. hold' = [hold EXCEPT ![b] = Promise!Empty("REFUNDED")]
      BY <1>2, <2>3, <3>2, OneHold DEF Promise!Empty
    <3>4. PlaceMovement(Movement("BID_REIMBURSE", p, cost, p, -cost, 0, 0, bid[b].cur))
      BY <2>1, <2>4 DEF RetireBid, BidReimbursement
    <3>5. p \in Participants /\ bid[b].cur \in Currencies /\ cost \in Nat
          /\ cost \in Int /\ -cost \in Int /\ 0 \in Int
      BY <1>2, CostType DEF Bid
    <3> HIDE DEF p, cost
    <3>6. /\ wallet' = [wallet EXCEPT ![p] = wallet[p] + cost]
          /\ wallet'[p] = wallet[p] + cost
      BY <1>1, <3>4, <3>5, PlaceWallet
    <3>7. wallet[p] \in Nat
      BY <1>1, <3>5, WalletType
    <3>8. /\ hold[b].state = "HELD" /\ hold[b].owner = p /\ hold[b].amount = cost
      BY <3>1 DEF Holding
    <3>9. Promise!Moves(p) /\ Promise!Gain(p) = cost
      BY <3>5, <3>6, <3>7, Moved
    <3>10. Promise!Refund(b)
      BY <3>3, <3>8, <3>9 DEF Promise!Refund, Promise!IsHeld
    <3>11. QED
      BY <1>2, <3>10 DEF EscrowStep, Promise!Next
  <2>5. CASE bid[b].type # "BUY"
    <3>1. bid[b].type = "SELL"
      BY <1>2, <2>5 DEF Bid, BidTypes
    <3>2. HoldOf(b)' = HoldOf(b)
      BY <2>1, <2>2, <3>1 DEF HoldOf, SameDeal
    <3>3. UNCHANGED hold
      BY <2>3, <3>2, NoHold
    <3>4. UNCHANGED wallet
      BY <2>5 DEF RetireBid, wallet
    <3>5. QED
      BY <3>3, <3>4 DEF EscrowStep, Promise!vars
  <2>6. QED
    BY <2>4, <2>5
<1>5. QED
  BY <1>3, <1>4

\* What a match does to the buyer's money, in terms of the transaction made.
LEMMA MatchMoney ==
  ASSUME IInv, NEW stamp \in Stamps, NEW b1 \in BidIds, NEW b2 \in BidIds,
         NEW t \in TxIds, MatchBids(stamp, b1, b2, t)
  PROVE  LET new == tx'[t]
             p == new.buyer
             delta == Cost(bid[new.buyerBid]) - Cost(new)
         IN  /\ new \in Transaction /\ new.buyerBid \in {b1, b2}
             /\ new.state = "ACTIVE"
             /\ p = bid[new.buyerBid].participant
             /\ Cost(new) \in Nat /\ delta \in Nat
             /\ \/ delta > 0 /\ wallet' = [wallet EXCEPT ![p] = wallet[p] + delta]
                             /\ wallet'[p] = wallet[p] + delta
                \/ delta = 0 /\ wallet' = wallet
<1>1. TypeOK
  BY DEF IInv
<1> DEFINE new == NewTx(stamp, b1, b2)
           buyerBid == BuyerBid(b1, b2)
           p == new.buyer
           delta == PriceDelta(new, buyerBid)
<1>2. /\ bid[b1] \in Bid /\ bid[b2] \in Bid /\ OldBid(b2) \in Bid
      /\ new \in Transaction /\ bid[b1].type # bid[b2].type
      /\ delta >= 0
  BY <1>1, MatchFacts
<1>3. SameDeal(OldBid(b2), bid[b2])
  BY <1>2 DEF OldBid, Bid, SameDeal
<1>4. tx'[t] = new
  <2>1. tx' = [tx EXCEPT ![t] = new]
    BY <1>1, MatchFacts
  <2> HIDE DEF new
  <2>2. QED
    BY <1>1, <2>1 DEF TypeOK
<1>5. /\ new.buyerBid \in {b1, b2} /\ new.state = "ACTIVE"
      /\ new.buyer = bid[new.buyerBid].participant
      /\ SameDeal(buyerBid, bid[new.buyerBid])
  BY <1>2, <1>3 DEF NewTx, NewTransaction, BuyerBid, SameDeal, Bid, BidTypes
<1>6. IF delta > 0 THEN PlaceMovement(DeltaMovement(new, buyerBid))
                   ELSE UNCHANGED <<account, ledger>>
  BY <1>1, MatchFacts
<1>7. buyerBid \in Bid
  BY <1>2 DEF BuyerBid
<1> HIDE DEF new, buyerBid
<1>8. Cost(new) \in Nat /\ Cost(buyerBid) \in Nat /\ Cost(buyerBid) = Cost(bid[new.buyerBid])
  BY <1>2, <1>5, <1>7, CostType DEF SameDeal, Cost
<1>9. delta = Cost(bid[new.buyerBid]) - Cost(new) /\ delta \in Nat /\ delta \in Int
      /\ -delta \in Int /\ 0 \in Int
  BY <1>2, <1>8 DEF PriceDelta
<1>10. p \in Participants /\ new.cur \in Currencies
  BY <1>2 DEF Transaction
<1>11. \/ delta > 0 /\ wallet' = [wallet EXCEPT ![p] = wallet[p] + delta]
                    /\ wallet'[p] = wallet[p] + delta
       \/ delta = 0 /\ wallet' = wallet
  <2>1. CASE delta > 0
    <3>1. PlaceMovement(Movement("TRANSACTION", p, delta, p, -delta, 0, 0, new.cur))
      BY <1>6, <2>1 DEF DeltaMovement
    <3>2. delta \in Int /\ -delta \in Int /\ 0 \in Int
      BY <1>9
    <3> DEFINE cur == new.cur
    <3> HIDE DEF delta, p, cur
    <3>3. PlaceMovement(Movement("TRANSACTION", p, delta, p, -delta, 0, 0, cur))
          /\ cur \in Currencies
      BY <1>10, <3>1 DEF cur
    <3>4. wallet' = [wallet EXCEPT ![p] = wallet[p] + delta]
          /\ wallet'[p] = wallet[p] + delta
      BY <1>1, <1>10, <3>2, <3>3, PlaceWallet
    <3>5. QED
      BY <2>1, <3>4
  <2>2. CASE ~(delta > 0)
    <3>1. account' = account
      BY <1>6, <2>2
    <3>2. QED
      BY <1>9, <2>2, <3>1 DEF wallet
  <2>3. QED
    BY <2>1, <2>2
<1> HIDE DEF delta
<1>12. QED
  BY <1>2, <1>4, <1>5, <1>8, <1>9, <1>11

LEMMA MatchEscrow ==
  ASSUME IInv, SomeMatch
  PROVE  EscrowStep
<1>1. TypeOK
  BY DEF IInv
<1>2. PICK stamp \in Stamps, b1 \in BidIds, b2 \in BidIds, t \in TxIds :
        MatchBids(stamp, b1, b2, t)
  BY DEF SomeMatch
<1>3. PICK n1 \in Bid, n2 \in Bid, new \in Transaction :
        /\ bid' = [bid EXCEPT ![b1] = n1, ![b2] = n2]
        /\ tx' = [tx EXCEPT ![t] = new]
        /\ n1.state = "MATCHED" /\ n1.tx = t /\ SameDeal(n1, bid[b1])
        /\ n2.state = "MATCHED" /\ n2.tx = t /\ SameDeal(n2, bid[b2])
        /\ \/ /\ new.buyerBid = b1 /\ new.sellerBid = b2
              /\ bid[b1].type = "BUY" /\ bid[b2].type = "SELL"
           \/ /\ new.buyerBid = b2 /\ new.sellerBid = b1
              /\ bid[b2].type = "BUY" /\ bid[b1].type = "SELL"
  BY <1>1, <1>2, MatchEffect
<1> DEFINE b == new.buyerBid
           s == new.sellerBid
           p == new.buyer
           delta == Cost(bid[b]) - Cost(new)
<1>4. b1 # b2 /\ ~Exists(t) /\ Known(b1) /\ Known(b2)
      /\ Unmatched(bid[b1]) /\ Unmatched(bid[b2])
  <2>1. b1 # b2 /\ tx[t] = NoTx /\ bid[b1].state = "INQUEUE"
        /\ bid[b2].state \in {"INQUEUE", "PLACED"}
    BY <1>1, <1>2, MatchFacts
  <2>2. Known(b1) /\ Known(b2)
    BY <1>2 DEF MatchBids
  <2>3. QED
    BY <2>1, <2>2 DEF Exists, Unmatched
<1>5. /\ bid'[b1] = n1 /\ bid'[b2] = n2 /\ n1 # NoBid /\ n2 # NoBid
      /\ \A c \in BidIds \ {b1, b2} : bid'[c] = bid[c]
  BY <1>1, <1>3, <1>4, NilAssumption DEF TypeOK
<1>6. tx'[t] = new /\ \A u \in TxIds \ {t} : tx'[u] = tx[u]
  BY <1>1, <1>3 DEF TypeOK
<1>7. /\ new.state = "ACTIVE" /\ p = bid[b].participant
      /\ Cost(new) \in Nat /\ delta \in Nat
      /\ \/ delta > 0 /\ wallet' = [wallet EXCEPT ![p] = wallet[p] + delta]
                      /\ wallet'[p] = wallet[p] + delta
         \/ delta = 0 /\ wallet' = wallet
  BY <1>2, <1>6, MatchMoney
<1>8. \A c \in BidIds \ {b, s} : HoldOf(c)' = HoldOf(c)
  <2>1. ASSUME NEW c \in BidIds \ {b1, b2}
        PROVE  \A u \in TxIds : u = bid[c].tx /\ Exists(u) => tx'[u] = tx[u]
    BY <1>4, <1>6
  <2>2. \A c \in BidIds \ {b1, b2} : HoldOf(c)' = HoldOf(c)
    BY <1>5, <2>1, HoldFrame
  <2>3. QED
    BY <1>3, <2>2
<1>9. HoldOf(s)' = HoldOf(s)
  BY <1>3, <1>5 DEF HoldOf, SameDeal
<1>10. b \in BidIds /\ p \in Participants /\ b # s
  BY <1>3, <1>4 DEF Transaction
<1>11. hold[b] = Holding(p, Cost(bid[b])) /\ HoldOf(b) = Holding(p, Cost(bid[b]))
  BY <1>3, <1>4, <1>7, <1>10 DEF hold, HoldOf
<1>12. HoldOf(b)' = Holding(p, Cost(new))
  <2>1. /\ bid'[b] # NoBid /\ bid'[b].type = "BUY" /\ bid'[b].state = "MATCHED"
        /\ bid'[b].tx = t
    BY <1>3, <1>5 DEF SameDeal
  <2>2. QED
    BY <1>6, <1>7, <2>1 DEF HoldOf, HoldOfTx, Known, Unmatched, Holding, Cost
<1>13. CASE delta = 0
  <2>1. Cost(bid[b]) = Cost(new)
    <3>1. bid[b] \in Bid
      BY <1>1, <1>3, <1>4 DEF TypeOK, Known
    <3>2. Cost(bid[b]) \in Nat
      BY <3>1, CostType
    <3>3. QED
      BY <1>7, <1>13, <3>2
  <2>2. \A c \in BidIds : HoldOf(c)' = HoldOf(c)
    BY <1>8, <1>9, <1>11, <1>12, <2>1
  <2>3. UNCHANGED hold
    BY <2>2, NoHold
  <2>4. UNCHANGED wallet
    BY <1>7, <1>13
  <2>5. QED
    BY <2>3, <2>4 DEF EscrowStep, Promise!vars
<1>14. CASE delta > 0
  <2>1. \A c \in BidIds \ {b} : HoldOf(c)' = HoldOf(c)
    BY <1>8, <1>9
  <2>2. hold' = [hold EXCEPT ![b] = Holding(p, Cost(new))]
    BY <1>10, <1>12, <2>1, OneHold
  <2>3. wallet[p] \in Nat
    BY <1>1, <1>10, WalletType
  <2>4. Promise!Moves(p) /\ Promise!Gain(p) = delta
    <3>1. /\ delta \in Int /\ wallet' = [wallet EXCEPT ![p] = wallet[p] + delta]
          /\ wallet'[p] = wallet[p] + delta
      BY <1>7, <1>14
    <3> HIDE DEF delta, p
    <3>2. QED
      BY <1>10, <2>3, <3>1, Moved
  <2>5. Cost(bid[b]) \in Nat
    BY <1>1, <1>3, <1>4, CostType DEF TypeOK, Known
  <2>6. /\ hold[b].state = "HELD" /\ hold[b].owner = p /\ hold[b].amount = Cost(bid[b])
    BY <1>11 DEF Holding
  <2>7. Promise!Gain(p) \in 0 .. hold[b].amount
        /\ hold[b].amount - Promise!Gain(p) = Cost(new)
    BY <1>7, <2>4, <2>5, <2>6
  <2>8. hold' = [hold EXCEPT ![b] = Promise!Held(p, hold[b].amount - Promise!Gain(p))]
    BY <2>2, <2>7 DEF Promise!Held, Holding
  <2>9. Promise!Lower(b)
    BY <2>4, <2>6, <2>7, <2>8 DEF Promise!Lower, Promise!IsHeld
  <2>10. QED
    BY <1>10, <2>9 DEF EscrowStep, Promise!Next
<1>15. QED
  BY <1>7, <1>13, <1>14

\* The hold of a bid whose transaction is another one stays as it is, and so
\* does the seller's: the only hold a transaction stands for is its buyer's.
LEMMA TxHold ==
  ASSUME IInv, NEW t \in TxIds, Exists(t), bid' = bid,
         \A u \in TxIds \ {t} : tx'[u] = tx[u]
  PROVE  /\ tx[t].buyerBid \in BidIds
         /\ \A c \in BidIds \ {tx[t].buyerBid} : HoldOf(c)' = HoldOf(c)
         /\ Known(tx[t].buyerBid) /\ bid[tx[t].buyerBid].tx = t
         /\ bid[tx[t].buyerBid].type = "BUY" /\ bid[tx[t].buyerBid].state = "MATCHED"
<1>1. TypeOK /\ BidsAndTxsLinked /\ t # NoTx
  BY NilAssumption DEF IInv
<1>2. tx[t] \in Transaction
  BY <1>1 DEF TypeOK, Exists
<1>3. /\ tx[t].buyerBid \in BidIds /\ tx[t].sellerBid \in BidIds
      /\ Known(tx[t].buyerBid) /\ bid[tx[t].buyerBid].tx = t
      /\ bid[tx[t].buyerBid].type = "BUY" /\ bid[tx[t].sellerBid].type = "SELL"
  BY <1>1, <1>2 DEF BidsAndTxsLinked, Transaction
<1>4. bid[tx[t].buyerBid].state = "MATCHED"
  BY <1>1, <1>3 DEF BidsAndTxsLinked
<1>5. ASSUME NEW c \in BidIds \ {tx[t].buyerBid}
      PROVE  HoldOf(c)' = HoldOf(c)
  <2>1. CASE ~Known(c) \/ bid[c].type = "SELL"
    BY <2>1 DEF HoldOf, Known
  <2>2. CASE Known(c) /\ bid[c].type # "SELL"
    <3>1. bid[c].tx # t
      BY <1>1, <1>3, <2>2 DEF BidsAndTxsLinked
    <3>2. \A u \in TxIds : u = bid[c].tx /\ Exists(u) => tx'[u] = tx[u]
      BY <3>1
    <3>3. QED
      BY <3>2, HoldFrame
  <2>3. QED
    BY <2>1, <2>2
<1>6. QED
  BY <1>3, <1>4, <1>5

LEMMA UpdateEscrow ==
  ASSUME IInv, SomeMessage
  PROVE  EscrowStep
<1>1. TypeOK
  BY DEF IInv
<1>2. PICK t \in TxIds, stamp \in Stamps, q \in Participants, m \in Messages,
           post \in Phases : UpdateTransaction(t, stamp, q, m, post)
  BY DEF SomeMessage
<1>3. PICK n \in Transaction :
        /\ Exists(t) /\ tx[t] \in Transaction /\ tx[t].state = "ACTIVE"
        /\ n.state = "ACTIVE" /\ SameParties(n, tx[t])
        /\ tx' = [tx EXCEPT ![t] = n] /\ bid' = bid
  BY <1>1, <1>2, UpdateEffect
<1>4. tx'[t] = n /\ \A u \in TxIds \ {t} : tx'[u] = tx[u]
  BY <1>1, <1>3 DEF TypeOK
<1>5. PICK b \in BidIds : b = tx[t].buyerBid
  BY <1>3, <1>4, TxHold
<1>6. /\ \A c \in BidIds \ {b} : HoldOf(c)' = HoldOf(c)
      /\ Known(b) /\ bid[b].tx = t /\ bid[b].type = "BUY" /\ bid[b].state = "MATCHED"
  BY <1>3, <1>4, <1>5, TxHold
<1>7. HoldOf(b)' = HoldOf(b)
  <2>1. HoldOf(b) = Holding(tx[t].buyer, Cost(tx[t]))
    BY <1>3, <1>6 DEF HoldOf, HoldOfTx, Unmatched
  <2>2. HoldOf(b)' = Holding(n.buyer, Cost(n))
    BY <1>3, <1>4, <1>6 DEF HoldOf, HoldOfTx, Unmatched, Known, Holding, Cost
  <2>3. n.buyer = tx[t].buyer /\ Cost(n) = Cost(tx[t])
    BY <1>3 DEF SameParties, Cost
  <2>4. QED
    BY <2>1, <2>2, <2>3
<1>8. UNCHANGED hold
  BY <1>6, <1>7, NoHold
<1>9. UNCHANGED wallet
  BY <1>2 DEF UpdateTransaction, wallet
<1>10. QED
  BY <1>8, <1>9 DEF EscrowStep, Promise!vars

LEMMA RetireTxEscrow ==
  ASSUME IInv, NEW task \in txTasks, RetireTransaction(task), Exists(task[1])
  PROVE  EscrowStep
<1> DEFINE t == task[1]
           old == tx[t]
           cost == Cost(old)
<1>1. TypeOK
  BY DEF IInv
<1>2. t \in TxIds /\ old \in Transaction /\ bid' = bid
  BY <1>1, RetireTxEffect
<1>3. CASE ~(old.state = "ACTIVE" /\ ~TooYoung(old, now))
  <2>1. tx' = tx /\ account' = account
    BY <1>3 DEF RetireTransaction
  <2>2. UNCHANGED hold
    BY <1>2, <2>1, HoldFrame, NoHold
  <2>3. UNCHANGED wallet
    BY <2>1 DEF wallet
  <2>4. QED
    BY <2>2, <2>3 DEF EscrowStep, Promise!vars
<1>4. CASE old.state = "ACTIVE" /\ ~TooYoung(old, now)
  <2> DEFINE n == Retired(old)
  <2>1. PlaceMovement(SettlementMovement(old)) /\ tx' = [tx EXCEPT ![t] = n]
    BY <1>4 DEF RetireTransaction
  <2>2. n \in Transaction /\ n.state = "RETIRED" /\ n.phase = old.phase
    BY <1>2, RetiredType DEF Retired, Transaction
  <2> HIDE DEF n
  <2>3. tx'[t] = n /\ \A u \in TxIds \ {t} : tx'[u] = tx[u]
    BY <1>1, <1>2, <2>1 DEF TypeOK
  <2>4. PICK b \in BidIds : b = old.buyerBid
    BY <1>2, <2>3, TxHold
  <2>5. /\ \A c \in BidIds \ {b} : HoldOf(c)' = HoldOf(c)
        /\ Known(b) /\ bid[b].tx = t /\ bid[b].type = "BUY" /\ bid[b].state = "MATCHED"
    BY <1>2, <2>3, <2>4, TxHold
  <2>6. hold[b] = Holding(old.buyer, cost)
    BY <1>4, <2>5 DEF hold, HoldOf, HoldOfTx, Unmatched
  <2>7. hold[b].state = "HELD" /\ hold[b].owner = old.buyer /\ hold[b].amount = cost
    BY <2>6 DEF Holding
  <2>8. HoldOf(b)' = [state |-> IF PaysSeller(old) THEN "PAID" ELSE "REFUNDED"]
    <3> HIDE DEF t
    <3>1. HoldOf(b)' = HoldOfTx(t)'
      BY <1>2, <2>5 DEF HoldOf, Known, Unmatched
    <3>2. HoldOfTx(t)' = [state |-> IF PaysSeller(n) THEN "PAID" ELSE "REFUNDED"]
      BY <2>2, <2>3 DEF HoldOfTx, PaysSeller
    <3>3. PaysSeller(n) = PaysSeller(old)
      BY <2>2 DEF PaysSeller
    <3>4. QED
      BY <3>1, <3>2, <3>3
  <2>9. /\ cost \in Nat /\ cost \in Int /\ -cost \in Int /\ 0 \in Int
        /\ old.price \in Nat /\ old.price \in Int /\ old.fee \in Int /\ old.price <= cost
        /\ old.buyer \in Participants /\ old.seller \in Participants
        /\ old.cur \in Currencies
    BY <1>2 DEF Transaction, Cost
  <2>10. wallet \in [Participants -> Nat]
    BY <1>1, WalletType
  <2>11. CASE PaysSeller(old)
    <3> DEFINE s == old.seller
               from == old.buyer
               price == old.price
               fee == old.fee
               cur == old.cur
    <3>1. PlaceMovement(Movement("TRANSACTION_FINISH", s, price, from, -cost, fee, 0, cur))
      BY <2>1, <2>11 DEF SettlementMovement
    <3>2. hold' = [hold EXCEPT ![b] = Promise!Empty("PAID")]
      BY <2>5, <2>8, <2>11, OneHold DEF Promise!Empty
    <3>3. /\ price \in Nat /\ price \in Int /\ price <= cost /\ s \in Participants
          /\ from \in Participants /\ fee \in Int /\ cur \in Currencies
          /\ -cost \in Int /\ 0 \in Int
      BY <2>9
    <3> HIDE DEF cost, s, price, from, fee, cur
    <3>4. /\ wallet' = [wallet EXCEPT ![s] = wallet[s] + price]
          /\ wallet'[s] = wallet[s] + price
      BY <1>1, <3>1, <3>3, PlaceWallet
    <3>5. Promise!Moves(s) /\ Promise!Gain(s) = price
      BY <2>10, <3>3, <3>4, Moved
    <3>6. Promise!Gain(s) \in 0 .. hold[b].amount
      BY <2>7, <2>9, <3>3, <3>5
    <3>7. Promise!Pay(b, s)
      BY <2>7, <3>2, <3>5, <3>6 DEF Promise!Pay, Promise!IsHeld
    <3>8. QED
      BY <2>5, <3>3, <3>7 DEF EscrowStep, Promise!Next
  <2>12. CASE ~PaysSeller(old)
    <3> DEFINE p == old.buyer
    <3>1. PlaceMovement(Movement("TRANSACTION_REIMBURSE", p, cost, p, -cost, 0, 0, old.cur))
      BY <2>1, <2>12 DEF SettlementMovement
    <3>2. hold' = [hold EXCEPT ![b] = Promise!Empty("REFUNDED")]
      BY <2>5, <2>8, <2>12, OneHold DEF Promise!Empty
    <3>3. p \in Participants
      BY <2>9
    <3> HIDE DEF cost, p
    <3>4. /\ wallet' = [wallet EXCEPT ![p] = wallet[p] + cost]
          /\ wallet'[p] = wallet[p] + cost
      BY <1>1, <2>9, <3>1, <3>3, PlaceWallet
    <3>5. Promise!Moves(p) /\ Promise!Gain(p) = cost
      BY <2>9, <2>10, <3>3, <3>4, Moved
    <3>6. hold[b].owner = p
      BY <2>7 DEF p
    <3>7. Promise!Refund(b)
      BY <2>7, <3>2, <3>5, <3>6 DEF Promise!Refund, Promise!IsHeld
    <3>8. QED
      BY <2>5, <3>7 DEF EscrowStep, Promise!Next
  <2>13. QED
    BY <2>11, <2>12
<1>5. QED
  BY <1>3, <1>4

-----------------------------------------------------------------------------
LEMMA InitEscrow == Init => Promise!Init
<1> SUFFICES ASSUME Init PROVE Promise!Init
  OBVIOUS
<1>1. wallet = [p \in Participants |-> 0]
  BY DEF Init, wallet, EmptyAccount
<1>2. \A b \in BidIds : HoldOf(b) = [state |-> "NONE"]
  BY DEF Init, HoldOf, Known
<1>3. QED
  BY <1>1, <1>2 DEF hold, Promise!Init, Promise!Empty

LEMMA StepEscrow == IInv /\ [Next]_vars => EscrowStep
<1> SUFFICES ASSUME IInv, [Next]_vars PROVE EscrowStep
  OBVIOUS
<1>1. TasksKnown
  BY DEF IInv, RetirementScheduled
<1>2. CASE \E b \in bidTasks : RetireBid(b)
  BY <1>1, <1>2, RetireBidEscrow DEF TasksKnown
<1>3. CASE \E task \in txTasks : RetireTransaction(task)
  BY <1>1, <1>3, RetireTxEscrow DEF TasksKnown
<1>4. CASE Tick \/ UNCHANGED vars
  <2>1. bid' = bid /\ tx' = tx /\ account' = account
    BY <1>4 DEF Tick, vars
  <2>2. UNCHANGED hold
    BY <2>1, HoldFrame, NoHold
  <2>3. UNCHANGED wallet
    BY <2>1 DEF wallet
  <2>4. QED
    BY <2>2, <2>3 DEF EscrowStep, Promise!vars
<1>5. QED
  BY <1>2, <1>3, <1>4, DepositEscrow, EnqueueEscrow, PlaceEscrow, MatchEscrow,
     UpdateEscrow DEF Next

\* What a buyer blocks is held for the whole life of bid and transaction, and
\* is given out exactly once: whole to the buyer, or to the seller less a fee.
THEOREM MarketImplementsEscrow == Spec => EscrowSpec
<1>1. Init => Promise!Init
  BY InitEscrow
<1>2. IInv /\ [Next]_vars => [Promise!Next]_(Promise!vars)
  BY StepEscrow DEF EscrowStep
<1>3. QED
  BY <1>1, <1>2, IInvHolds, PTL DEF Spec, EscrowSpec, Promise!Spec
-----------------------------------------------------------------------------
(***************************************************************************)
(* Sums.  The community modules define a sum by a recursive function that  *)
(* takes the elements in an order CHOOSE fixes.  Total counts instead: it  *)
(* is a difference of two cardinalities, so its laws follow from those of  *)
(* finite sets.  SumIsTotal says that the two agree.                       *)
(***************************************************************************)
\* Coins(f, S) holds f[x] coins for every x of S whose f[x] is positive.
Coins(f, S) == {c \in S \X Int : c[2] \in 1 .. f[c[1]]}
Negative(f, S) == [x \in S |-> -f[x]]
Total(f, S) == Cardinality(Coins(f, S)) - Cardinality(Coins(Negative(f, S), S))

\* A pile of n coins on top of x.
Pile(x, n) == {x} \X (1 .. n)
Positive(n) == IF n > 0 THEN n ELSE 0

\* A pile has as many coins as its height, and none below zero.
LEMMA PileSize ==
  ASSUME NEW x, NEW n \in Int
  PROVE  /\ IsFiniteSet(Pile(x, n))
         /\ Cardinality(Pile(x, n)) = Positive(n)
<1>1. /\ IsFiniteSet(1 .. n)
      /\ Cardinality(1 .. n) = IF 1 > n THEN 0 ELSE n - 1 + 1
  BY FS_Interval
<1>2. IsFiniteSet({x}) /\ Cardinality({x}) = 1
  BY FS_Singleton
<1>3. IsFiniteSet(Pile(x, n)) /\ Cardinality(Pile(x, n)) = 1 * Cardinality(1 .. n)
  BY <1>1, <1>2, FS_Product DEF Pile
<1>4. QED
  BY <1>1, <1>3 DEF Positive

LEMMA CoinsFinite ==
  ASSUME NEW S, IsFiniteSet(S), NEW f, \A x \in S : f[x] \in Int
  PROVE  IsFiniteSet(Coins(f, S)) /\ Cardinality(Coins(f, S)) \in Nat
<1> DEFINE pile == [x \in S |-> Pile(x, f[x])]
           piles == {pile[x] : x \in S}
<1>1. pile \in Surjection(S, piles)
  BY DEF Surjection
<1>2. IsFiniteSet(piles)
  BY <1>1, FS_Surjection
<1>3. \A T \in piles : IsFiniteSet(T)
  BY PileSize
<1>4. IsFiniteSet(UNION piles)
  BY <1>2, <1>3, FS_UNION
<1>5. Coins(f, S) = UNION piles
  BY DEF Coins, Pile
<1>6. QED
  BY <1>4, <1>5, FS_CardinalityType

\* The coins of a set are those of the set without z, and the pile of z.
LEMMA CoinsSplit ==
  ASSUME NEW S, IsFiniteSet(S), NEW f, \A x \in S : f[x] \in Int, NEW z \in S
  PROVE  Cardinality(Coins(f, S)) = Cardinality(Coins(f, S \ {z})) + Positive(f[z])
<1> DEFINE rest == Coins(f, S \ {z})
           pile == Pile(z, f[z])
<1>1. IsFiniteSet(S \ {z})
  BY FS_RemoveElement
<1>2. IsFiniteSet(rest) /\ Cardinality(rest) \in Nat
  BY <1>1, CoinsFinite
<1>3. IsFiniteSet(pile) /\ Cardinality(pile) = Positive(f[z])
  BY PileSize
<1>4. Coins(f, S) = rest \cup pile /\ rest \cap pile = {}
  BY DEF Coins, Pile
<1>5. Cardinality(rest \cup pile)
        = Cardinality(rest) + Cardinality(pile) - Cardinality(rest \cap pile)
  BY <1>2, <1>3, FS_Union
<1>6. Positive(f[z]) \in Nat /\ Cardinality({}) = 0
  BY FS_EmptySet DEF Positive
<1>7. Cardinality(rest \cap pile) = 0
  BY <1>4, <1>6
<1> HIDE DEF rest, pile
<1>8. Cardinality(Coins(f, S)) = Cardinality(rest) + Positive(f[z])
  BY <1>2, <1>3, <1>4, <1>5, <1>6, <1>7
<1>9. QED
  BY <1>8 DEF rest

-----------------------------------------------------------------------------
\* Laws of totals.
LEMMA TotalType ==
  ASSUME NEW S, IsFiniteSet(S), NEW f, \A x \in S : f[x] \in Int
  PROVE  Total(f, S) \in Int
<1>1. \A x \in S : Negative(f, S)[x] \in Int
  BY DEF Negative
<1>2. /\ Cardinality(Coins(f, S)) \in Nat
      /\ Cardinality(Coins(Negative(f, S), S)) \in Nat
  BY <1>1, CoinsFinite
<1>3. QED
  BY <1>2 DEF Total

\* Without debts the total is none, and no element is more than the total.
LEMMA TotalNat ==
  ASSUME NEW S, IsFiniteSet(S), NEW f, \A x \in S : f[x] \in Nat
  PROVE  Total(f, S) \in Nat
<1>1. Coins(Negative(f, S), S) = {}
  BY DEF Coins, Negative
<1>2. Cardinality(Coins(f, S)) \in Nat
  BY CoinsFinite
<1>3. QED
  BY <1>1, <1>2, FS_EmptySet DEF Total

LEMMA TotalEmpty == ASSUME NEW f PROVE Total(f, {}) = 0
<1>1. Coins(f, {}) = {} /\ Coins(Negative(f, {}), {}) = {}
  BY DEF Coins
<1>2. QED
  BY <1>1, FS_EmptySet DEF Total

\* The total of a set is that of the set without z, and f[z].
LEMMA TotalSplit ==
  ASSUME NEW S, IsFiniteSet(S), NEW f, \A x \in S : f[x] \in Int, NEW z \in S
  PROVE  Total(f, S) = Total(f, S \ {z}) + f[z]
<1> DEFINE neg == Negative(f, S)
           R == S \ {z}
<1>1. IsFiniteSet(R)
  BY FS_RemoveElement
<1>2. neg[z] = -f[z] /\ \A x \in S : neg[x] \in Int
  BY DEF Negative
<1>3. Coins(neg, R) = Coins(Negative(f, R), R)
  BY DEF Coins, Negative
<1> HIDE DEF neg
<1>4. Cardinality(Coins(f, S)) = Cardinality(Coins(f, R)) + Positive(f[z])
  BY CoinsSplit
<1>5. Cardinality(Coins(neg, S)) = Cardinality(Coins(neg, R)) + Positive(-f[z])
  BY <1>2, CoinsSplit
<1>6. Cardinality(Coins(f, R)) \in Nat /\ Cardinality(Coins(neg, R)) \in Nat
  BY <1>1, <1>2, CoinsFinite
<1>7. Positive(f[z]) - Positive(-f[z]) = f[z] /\ Positive(f[z]) \in Nat
      /\ Positive(-f[z]) \in Nat
  BY DEF Positive
<1>8. QED
  BY <1>3, <1>4, <1>5, <1>6, <1>7 DEF Total, neg

LEMMA TotalBound ==
  ASSUME NEW S, IsFiniteSet(S), NEW f, \A x \in S : f[x] \in Nat, NEW z \in S
  PROVE  f[z] <= Total(f, S)
<1>1. IsFiniteSet(S \ {z})
  BY FS_RemoveElement
<1>2. Total(f, S \ {z}) \in Nat
  BY <1>1, TotalNat
<1>3. Total(f, S) = Total(f, S \ {z}) + f[z]
  BY TotalSplit
<1>4. QED
  BY <1>2, <1>3

\* Only the values that are not zero count.
LEMMA TotalSame ==
  ASSUME NEW S, NEW T \in SUBSET S, NEW f, NEW g,
         \A x \in S : f[x] \in Int, \A x \in T : g[x] = f[x],
         \A x \in S \ T : f[x] = 0
  PROVE  Total(g, T) = Total(f, S)
<1>1. Coins(g, T) = Coins(f, S)
  BY DEF Coins
<1>2. Coins(Negative(g, T), T) = Coins(Negative(f, S), S)
  BY DEF Coins, Negative
<1>3. QED
  BY <1>1, <1>2 DEF Total

\* A change at one point changes the total by as much.
LEMMA TotalChange ==
  ASSUME NEW S, IsFiniteSet(S), NEW f, NEW g,
         \A x \in S : f[x] \in Int, \A x \in S : g[x] \in Int,
         NEW z \in S, \A x \in S \ {z} : g[x] = f[x]
  PROVE  Total(g, S) = Total(f, S) + g[z] - f[z]
<1> DEFINE R == S \ {z}
<1>1. IsFiniteSet(R)
  BY FS_RemoveElement
<1>2. Total(g, R) = Total(f, R)
  BY TotalSame
<1>3. Total(f, R) \in Int
  BY <1>1, TotalType
<1>4. Total(f, S) = Total(f, R) + f[z] /\ Total(g, S) = Total(g, R) + g[z]
  BY TotalSplit
<1>5. QED
  BY <1>2, <1>3, <1>4

-----------------------------------------------------------------------------
\* A function on the subsets of S that adds up f one element at a time.
AddsUp(iter, f, S) ==
  iter = [s \in SUBSET S |->
            IF s = {} THEN 0
            ELSE f[CHOOSE x \in s : TRUE] + iter[s \ {CHOOSE x \in s : TRUE}]]

\* Total is such a function, and there is no other: by induction on the subset,
\* the smallest one on which the two differ is neither empty nor has an element
\* to leave out.
LEMMA TotalAddsUp ==
  ASSUME NEW S, IsFiniteSet(S), NEW f, \A x \in S : f[x] \in Int
  PROVE  AddsUp([s \in SUBSET S |-> Total(f, s)], f, S)
<1> DEFINE total == [s \in SUBSET S |-> Total(f, s)]
<1>1. ASSUME NEW s \in SUBSET S, s # {}
      PROVE  total[s] = f[CHOOSE x \in s : TRUE] + total[s \ {CHOOSE x \in s : TRUE}]
  <2>1. PICK z \in s : z = CHOOSE x \in s : TRUE
    BY <1>1
  <2>2. IsFiniteSet(s) /\ s \ {z} \in SUBSET S /\ IsFiniteSet(s \ {z})
    BY FS_Subset
  <2>3. Total(f, s) = Total(f, s \ {z}) + f[z]
    BY <2>2, TotalSplit
  <2>4. Total(f, s \ {z}) \in Int
    BY <2>2, TotalType
  <2>5. total[s] = f[z] + total[s \ {z}]
    BY <2>2, <2>3, <2>4
  <2>6. QED
    BY <2>1, <2>5
<1>2. total[{}] = 0
  BY TotalEmpty
<1>3. QED
  BY <1>1, <1>2 DEF AddsUp

LEMMA AddsUpUnique ==
  ASSUME NEW S, IsFiniteSet(S), NEW f, NEW iter, NEW total,
         AddsUp(iter, f, S), AddsUp(total, f, S)
  PROVE  iter = total
<1> DEFINE wrong == {s \in SUBSET S : iter[s] # total[s]}
<1>1. iter = [s \in SUBSET S |-> iter[s]] /\ total = [s \in SUBSET S |-> total[s]]
  BY DEF AddsUp
<1>2. SUFFICES ASSUME wrong # {} PROVE FALSE
  BY <1>1
<1>3. /\ FiniteSubsetsOf(S) = SUBSET S
      /\ IsWellFoundedOn(StrictSubsetOrdering(S), FiniteSubsetsOf(S))
  BY FS_FiniteSubsetsOfFinite, FS_StrictSubsetOrderingWellFounded
<1>4. PICK s \in wrong : \A r \in wrong : ~(<<r, s>> \in StrictSubsetOrdering(S))
  <2> HIDE DEF wrong
  <2>1. wrong \subseteq FiniteSubsetsOf(S)
    BY <1>3 DEF wrong
  <2>2. QED
    BY <1>2, <1>3, <2>1, WFMin
<1>5. s # {}
  BY <1>4 DEF AddsUp
<1>6. PICK z \in s : z = CHOOSE x \in s : TRUE
  BY <1>5
<1>7. iter[s] = f[z] + iter[s \ {z}] /\ total[s] = f[z] + total[s \ {z}]
  BY <1>4, <1>5, <1>6 DEF AddsUp
<1>8. s \ {z} \notin wrong
  <2>1. <<s \ {z}, s>> \in StrictSubsetOrdering(S)
    BY <1>4, <1>6 DEF StrictSubsetOrdering
  <2>2. QED
    BY <1>4, <2>1
<1>9. iter[s \ {z}] = total[s \ {z}]
  BY <1>4, <1>8
<1>10. QED
  BY <1>4, <1>7, <1>9

\* The sum of the community modules, whatever order it takes the elements in.
LEMMA SumIsTotal ==
  ASSUME NEW S, IsFiniteSet(S), NEW f, \A x \in S : f[x] \in Int
  PROVE  SumFunctionOnSet(f, S) = Total(f, S)
<1> DEFINE total == [s \in SUBSET S |-> Total(f, s)]
           chosen == CHOOSE iter : AddsUp(iter, f, S)
<1>1. AddsUp(total, f, S)
  BY TotalAddsUp
<1>2. AddsUp(chosen, f, S)
  BY <1>1
<1>3. chosen = total
  BY <1>1, <1>2, AddsUpUnique
<1>4. SumFunctionOnSet(f, S) = chosen[S]
  BY DEF SumFunctionOnSet, FoldFunctionOnSet, MapThenFoldSet, AddsUp
<1>5. QED
  BY <1>3, <1>4

-----------------------------------------------------------------------------
(***************************************************************************)
(* Blocked money.  A movement changes the blocked balance of one account,  *)
(* and an account that has money blocked keeps its currency.               *)
(***************************************************************************)
\* From one state of the accounts to another the blocked balance of p changes
\* by d, in currency cur, and no other does.
ChangesBlocked(before, after, p, d, cur) ==
  /\ after[p].blocked = before[p].blocked + d
  /\ \A q \in Participants \ {p} : after[q].blocked = before[q].blocked
  /\ \A q \in Participants : before[q].blocked > 0 => after[q].cur = before[q].cur
  /\ d # 0 => after[p].cur = cur

\* The available part is applied first, which may change the currency the
\* blocked part finds, and the two accounts may be one.
LEMMA PlaceBlocked ==
  ASSUME NEW accounts \in [Participants -> Account],
         NEW type, NEW to \in Participants, NEW toDelta \in Int,
         NEW from \in Participants, NEW fromDelta \in Int,
         NEW fee \in Int, NEW world \in Int, NEW cur \in Currencies,
         CanPlace(accounts, Movement(type, to, toDelta, from, fromDelta, fee, world, cur))
  PROVE  ChangesBlocked(accounts,
           Place(accounts, Movement(type, to, toDelta, from, fromDelta, fee, world, cur)),
           from, fromDelta, cur)
<1> DEFINE m == Movement(type, to, toDelta, from, fromDelta, fee, world, cur)
           mid == AfterAvailable(accounts, m)
           after == Place(accounts, m)
<1>1. /\ m.availAccount = to /\ m.availDelta = toDelta
      /\ m.blockedAccount = from /\ m.blockedDelta = fromDelta /\ m.cur = cur
  BY DEF Movement
<1> HIDE DEF m
<1>2. CanPlace(accounts, m)
  BY DEF m
<1>3. mid \in [Participants -> Account]
  BY <1>1, <1>2, ApplyType DEF CanPlace, AfterAvailable
<1>4. /\ CanApplyAvailable(accounts[to], toDelta, cur)
      /\ CanApplyBlocked(mid[from], fromDelta, cur)
  BY <1>1, <1>2 DEF CanPlace
<1>5. mid = [accounts EXCEPT ![to] = ApplyAvailable(accounts[to], toDelta, cur)]
  BY <1>1 DEF AfterAvailable
<1>6. after = [mid EXCEPT ![from] = ApplyBlocked(mid[from], fromDelta, cur)]
  BY <1>1 DEF Place
<1> HIDE DEF mid, after
<1>7. ASSUME NEW p \in Participants
      PROVE  /\ mid[p].blocked = accounts[p].blocked
             /\ accounts[p].blocked > 0 => mid[p].cur = accounts[p].cur
  <2>1. accounts[p] \in Account
    OBVIOUS
  <2>2. CASE p # to
    BY <1>5, <2>2
  <2>3. CASE p = to /\ toDelta = 0
    BY <1>5, <2>3 DEF ApplyAvailable
  <2>4. CASE p = to /\ toDelta # 0
    <3>1. mid[p] = [accounts[p] EXCEPT !.avail = @ + toDelta, !.cur = cur]
      BY <1>5, <2>4 DEF ApplyAvailable
    <3>2. accounts[p].cur = cur \/ accounts[p].blocked = 0
      BY <1>4, <2>4 DEF CanApplyAvailable, CanApply, CurrencyMutable
    <3>3. QED
      BY <2>1, <3>1, <3>2 DEF Account
  <2>5. QED
    BY <2>2, <2>3, <2>4
<1>8. \A p \in Participants \ {from} : after[p] = mid[p]
  BY <1>3, <1>6
<1>9. /\ after[from].blocked = mid[from].blocked + fromDelta
      /\ mid[from].blocked > 0 => after[from].cur = mid[from].cur
      /\ fromDelta # 0 => after[from].cur = cur
  <2>1. mid[from] \in Account
    BY <1>3
  <2>2. CASE fromDelta = 0
    BY <1>3, <1>6, <2>1, <2>2 DEF ApplyBlocked, Account
  <2>3. CASE fromDelta # 0
    <3>1. after[from] = [mid[from] EXCEPT !.blocked = @ + fromDelta, !.cur = cur]
      BY <1>3, <1>6, <2>3 DEF ApplyBlocked
    <3>2. mid[from].cur = cur \/ mid[from].blocked = 0
      BY <1>4, <2>3 DEF CanApplyBlocked, CanApply, CurrencyMutable
    <3>3. QED
      BY <2>1, <3>1, <3>2 DEF Account
  <2>4. QED
    BY <2>2, <2>3
<1>10. ChangesBlocked(accounts, after, from, fromDelta, cur)
  BY <1>7, <1>8, <1>9 DEF ChangesBlocked
<1>11. QED
  BY <1>10 DEF after, m

LEMMA MovementBlocks ==
  ASSUME TypeOK,
         NEW type, NEW to \in Participants, NEW toDelta \in Int,
         NEW from \in Participants, NEW fromDelta \in Int,
         NEW fee \in Int, NEW world \in Int, NEW cur \in Currencies,
         PlaceMovement(Movement(type, to, toDelta, from, fromDelta, fee, world, cur))
  PROVE  ChangesBlocked(account, account', from, fromDelta, cur)
<1>1. account \in [Participants -> Account]
  BY DEF TypeOK
<1>2. /\ CanPlace(account, Movement(type, to, toDelta, from, fromDelta, fee, world, cur))
      /\ account' = Place(account,
                          Movement(type, to, toDelta, from, fromDelta, fee, world, cur))
  BY DEF PlaceMovement
<1>3. QED
  BY <1>1, <1>2, PlaceBlocked

LEMMA NothingBlocked ==
  ASSUME TypeOK, account' = account, NEW p \in Participants, NEW cur
  PROVE  ChangesBlocked(account, account', p, 0, cur)
  BY DEF TypeOK, Account, ChangesBlocked

-----------------------------------------------------------------------------
(***************************************************************************)
(* What is owed.  A share is what one bid or one transaction adds to what  *)
(* is held for p.                                                          *)
(***************************************************************************)
BidShare(b, p) == IF OpenBuy(b) /\ bid[b].participant = p THEN Cost(bid[b]) ELSE 0
TxShare(t, p) == IF ActiveTx(t) /\ tx[t].buyer = p THEN Cost(tx[t]) ELSE 0

BidShares(p) == [b \in BidIds |-> BidShare(b, p)]
TxShares(p) == [t \in TxIds |-> TxShare(t, p)]

Owed(p) == Total(BidShares(p), BidIds) + Total(TxShares(p), TxIds)

SharesNat ==
  \A p \in Participants :
    /\ \A b \in BidIds : BidShare(b, p) \in Nat
    /\ \A t \in TxIds : TxShare(t, p) \in Nat

LEMMA ShareType == TypeOK => SharesNat
<1> SUFFICES ASSUME TypeOK, NEW p \in Participants
             PROVE  /\ \A b \in BidIds : BidShare(b, p) \in Nat
                    /\ \A t \in TxIds : TxShare(t, p) \in Nat
  BY DEF SharesNat
<1>1. QED
  BY CostType DEF TypeOK, BidShare, TxShare, OpenBuy, Known, ActiveTx, Exists

LEMMA SharesType ==
  ASSUME TypeOK, NEW p \in Participants
  PROVE  /\ \A b \in BidIds : BidShares(p)[b] \in Nat
         /\ \A t \in TxIds : TxShares(p)[t] \in Nat
         /\ Total(BidShares(p), BidIds) \in Int
         /\ Total(TxShares(p), TxIds) \in Int
<1>1. /\ \A b \in BidIds : BidShares(p)[b] \in Nat
      /\ \A t \in TxIds : TxShares(p)[t] \in Nat
  BY ShareType DEF SharesNat, BidShares, TxShares
<1>2. QED
  BY <1>1, TotalType, KeysAssumption

\* The sums of the properties are totals over all keys.
LEMMA HeldIsOwed ==
  ASSUME TypeOK, NEW p \in Participants
  PROVE  HeldForBids(p) + HeldForTxs(p) = Owed(p)
<1> DEFINE bids == {b \in BidIds : OpenBuy(b) /\ bid[b].participant = p}
           bidCost == [b \in bids |-> Cost(bid[b])]
           txs == {t \in TxIds : ActiveTx(t) /\ tx[t].buyer = p}
           txCost == [t \in txs |-> Cost(tx[t])]
<1>1. IsFiniteSet(bids) /\ IsFiniteSet(txs)
  BY KeysAssumption, FS_Subset
<1>2. /\ \A b \in BidIds : BidShares(p)[b] \in Nat
      /\ \A t \in TxIds : TxShares(p)[t] \in Nat
  BY SharesType
<1>3. /\ \A b \in bids : bidCost[b] = BidShares(p)[b]
      /\ \A b \in BidIds \ bids : BidShares(p)[b] = 0
  BY DEF BidShares, BidShare
<1>4. /\ \A t \in txs : txCost[t] = TxShares(p)[t]
      /\ \A t \in TxIds \ txs : TxShares(p)[t] = 0
  BY DEF TxShares, TxShare
<1>5. HeldForBids(p) = SumFunctionOnSet(bidCost, bids)
      /\ HeldForTxs(p) = SumFunctionOnSet(txCost, txs)
  BY DEF HeldForBids, HeldForTxs
<1>6. bids \in SUBSET BidIds /\ txs \in SUBSET TxIds
  OBVIOUS
<1> HIDE DEF bids, bidCost, txs, txCost
<1>7. SumFunctionOnSet(bidCost, bids) = Total(bidCost, bids)
  BY <1>1, <1>2, <1>3, <1>6, SumIsTotal
<1>8. SumFunctionOnSet(txCost, txs) = Total(txCost, txs)
  BY <1>1, <1>2, <1>4, <1>6, SumIsTotal
<1>9. Total(bidCost, bids) = Total(BidShares(p), BidIds)
  BY <1>2, <1>3, <1>6, TotalSame
<1>10. Total(txCost, txs) = Total(TxShares(p), TxIds)
  BY <1>2, <1>4, <1>6, TotalSame
<1>11. QED
  BY <1>5, <1>7, <1>8, <1>9, <1>10 DEF Owed

-----------------------------------------------------------------------------
\* How what is owed changes with the shares of one bid and one transaction.
LEMMA BidsOwed ==
  ASSUME TypeOK, TypeOK', NEW p \in Participants, NEW b \in BidIds,
         \A c \in BidIds \ {b} : BidShare(c, p)' = BidShare(c, p)
  PROVE  Total(BidShares(p)', BidIds)
           = Total(BidShares(p), BidIds) + BidShare(b, p)' - BidShare(b, p)
<1>1. SharesNat /\ SharesNat'
  <2>1. SharesNat
    BY ShareType
  <2>2. SharesNat'
    BY ShareType, PTL
  <2>3. QED
    BY <2>1, <2>2
<1>2. /\ \A c \in BidIds : BidShares(p)[c] \in Int
      /\ \A c \in BidIds : BidShares(p)'[c] \in Int
  BY <1>1 DEF SharesNat, BidShares
<1>3. \A c \in BidIds \ {b} : BidShares(p)'[c] = BidShares(p)[c]
  BY DEF BidShares
<1>4. BidShares(p)[b] = BidShare(b, p) /\ BidShares(p)'[b] = BidShare(b, p)'
  BY DEF BidShares
<1>5. QED
  BY <1>2, <1>3, <1>4, TotalChange, KeysAssumption

LEMMA TxsOwed ==
  ASSUME TypeOK, TypeOK', NEW p \in Participants, NEW t \in TxIds,
         \A u \in TxIds \ {t} : TxShare(u, p)' = TxShare(u, p)
  PROVE  Total(TxShares(p)', TxIds)
           = Total(TxShares(p), TxIds) + TxShare(t, p)' - TxShare(t, p)
<1>1. SharesNat /\ SharesNat'
  <2>1. SharesNat
    BY ShareType
  <2>2. SharesNat'
    BY ShareType, PTL
  <2>3. QED
    BY <2>1, <2>2
<1>2. /\ \A u \in TxIds : TxShares(p)[u] \in Int
      /\ \A u \in TxIds : TxShares(p)'[u] \in Int
  BY <1>1 DEF SharesNat, TxShares
<1>3. \A u \in TxIds \ {t} : TxShares(p)'[u] = TxShares(p)[u]
  BY DEF TxShares
<1>4. TxShares(p)[t] = TxShare(t, p) /\ TxShares(p)'[t] = TxShare(t, p)'
  BY DEF TxShares
<1>5. QED
  BY <1>2, <1>3, <1>4, TotalChange, KeysAssumption

SameBidShares(p) == \A b \in BidIds : BidShare(b, p)' = BidShare(b, p)
SameTxShares(p) == \A t \in TxIds : TxShare(t, p)' = TxShare(t, p)

LEMMA BidsOwedSame ==
  ASSUME NEW p \in Participants, SameBidShares(p)
  PROVE  Total(BidShares(p)', BidIds) = Total(BidShares(p), BidIds)
<1>1. BidShares(p)' = BidShares(p)
  BY DEF SameBidShares, BidShares
<1>2. QED
  BY <1>1

LEMMA TxsOwedSame ==
  ASSUME NEW p \in Participants, SameTxShares(p)
  PROVE  Total(TxShares(p)', TxIds) = Total(TxShares(p), TxIds)
<1>1. TxShares(p)' = TxShares(p)
  BY DEF SameTxShares, TxShares
<1>2. QED
  BY <1>1

\* A share is covered by what is owed in total.
LEMMA ShareCovered ==
  ASSUME TypeOK, NEW p \in Participants
  PROVE  /\ \A b \in BidIds : BidShare(b, p) <= Owed(p)
         /\ \A t \in TxIds : TxShare(t, p) <= Owed(p)
         /\ Owed(p) \in Nat
<1>1. /\ \A b \in BidIds : BidShares(p)[b] \in Nat
      /\ \A t \in TxIds : TxShares(p)[t] \in Nat
  BY SharesType
<1>2. /\ Total(BidShares(p), BidIds) \in Nat
      /\ Total(TxShares(p), TxIds) \in Nat
  BY <1>1, TotalNat, KeysAssumption
<1>3. /\ \A b \in BidIds : BidShares(p)[b] <= Total(BidShares(p), BidIds)
      /\ \A t \in TxIds : TxShares(p)[t] <= Total(TxShares(p), TxIds)
  BY <1>1, TotalBound, KeysAssumption
<1>4. /\ \A b \in BidIds : BidShares(p)[b] = BidShare(b, p)
      /\ \A t \in TxIds : TxShares(p)[t] = TxShare(t, p)
  BY DEF BidShares, TxShares
<1>5. ASSUME NEW b \in BidIds PROVE BidShare(b, p) <= Owed(p)
  BY <1>1, <1>2, <1>3, <1>4 DEF Owed
<1>6. ASSUME NEW t \in TxIds PROVE TxShare(t, p) <= Owed(p)
  BY <1>1, <1>2, <1>3, <1>4 DEF Owed
<1>7. QED
  BY <1>2, <1>5, <1>6 DEF Owed

-----------------------------------------------------------------------------
(***************************************************************************)
(* The inductive invariant.  That the money of an open bid is in the       *)
(* account's currency is kept because the account has money blocked, which *)
(* follows from the balances being what is owed: the two are proved        *)
(* together.                                                               *)
(***************************************************************************)
BalancesOwed == \A p \in Participants : account[p].blocked = Owed(p)

CurrencyHeld ==
  /\ \A b \in BidIds :
       OpenBuy(b) /\ Cost(bid[b]) > 0 => account[bid[b].participant].cur = bid[b].cur
  /\ \A t \in TxIds :
       ActiveTx(t) /\ Cost(tx[t]) > 0 => account[tx[t].buyer].cur = tx[t].cur

MInv == IInv /\ BalancesOwed /\ CurrencyHeld

LEMMA MInvBlocked == MInv => BlockedIsOwed
<1> SUFFICES ASSUME MInv PROVE BlockedIsOwed
  OBVIOUS
<1>1. \A p \in Participants : account[p].blocked = HeldForBids(p) + HeldForTxs(p)
  BY HeldIsOwed DEF MInv, IInv, BalancesOwed
<1>2. QED
  BY <1>1 DEF MInv, BlockedIsOwed, CurrencyHeld

\* An account has at least as much blocked as one of its bids or transactions
\* holds.
LEMMA Covered ==
  ASSUME MInv
  PROVE  /\ \A b \in BidIds : OpenBuy(b) =>
              /\ bid[b] \in Bid /\ Cost(bid[b]) \in Nat
              /\ Cost(bid[b]) <= account[bid[b].participant].blocked
         /\ \A t \in TxIds : ActiveTx(t) =>
              /\ tx[t] \in Transaction /\ Cost(tx[t]) \in Nat
              /\ Cost(tx[t]) <= account[tx[t].buyer].blocked
<1>1. TypeOK /\ BalancesOwed
  BY DEF MInv, IInv
<1>2. ASSUME NEW b \in BidIds, OpenBuy(b)
      PROVE  /\ bid[b] \in Bid /\ Cost(bid[b]) \in Nat
             /\ Cost(bid[b]) <= account[bid[b].participant].blocked
  <2>1. bid[b] \in Bid
    BY <1>1, <1>2 DEF TypeOK, OpenBuy, Known
  <2>2. PICK p \in Participants : p = bid[b].participant
    BY <2>1 DEF Bid
  <2>3. BidShare(b, p) = Cost(bid[b])
    BY <1>2, <2>2 DEF BidShare
  <2>4. BidShare(b, p) <= Owed(p) /\ account[p].blocked = Owed(p)
    BY <1>1, ShareCovered DEF BalancesOwed
  <2>5. QED
    BY <2>1, <2>2, <2>3, <2>4, CostType
<1>3. ASSUME NEW t \in TxIds, ActiveTx(t)
      PROVE  /\ tx[t] \in Transaction /\ Cost(tx[t]) \in Nat
             /\ Cost(tx[t]) <= account[tx[t].buyer].blocked
  <2>1. tx[t] \in Transaction
    BY <1>1, <1>3 DEF TypeOK, ActiveTx, Exists
  <2>2. PICK p \in Participants : p = tx[t].buyer
    BY <2>1 DEF Transaction
  <2>3. TxShare(t, p) = Cost(tx[t])
    BY <1>3, <2>2 DEF TxShare
  <2>4. TxShare(t, p) <= Owed(p) /\ account[p].blocked = Owed(p)
    BY <1>1, ShareCovered DEF BalancesOwed
  <2>5. QED
    BY <2>1, <2>2, <2>3, <2>4, CostType
<1>4. QED
  BY <1>2, <1>3

-----------------------------------------------------------------------------
(***************************************************************************)
(* One step.  What it takes for the invariant to be kept, said once: the   *)
(* blocked balance and what is owed change alike, and a deal that is open  *)
(* after the step was open before it, is the one money was blocked for or  *)
(* comes from an open bid in the same currency.                            *)
(***************************************************************************)
OwedChanges(q, d) ==
  \A p \in Participants : Owed(p)' = Owed(p) + (IF p = q THEN d ELSE 0)

BidKept(b, q, d, cur) ==
  OpenBuy(b)' /\ Cost(bid'[b]) > 0 =>
    \/ OpenBuy(b) /\ SameDeal(bid'[b], bid[b])
    \/ d # 0 /\ bid'[b].participant = q /\ bid'[b].cur = cur

TxKept(t) ==
  ActiveTx(t)' /\ Cost(tx'[t]) > 0 =>
    \/ ActiveTx(t) /\ SameParties(tx'[t], tx[t])
    \/ \E b \in BidIds :
         /\ OpenBuy(b) /\ Cost(bid[b]) > 0
         /\ bid[b].participant = tx'[t].buyer /\ bid[b].cur = tx'[t].cur

\* With these the step keeps both parts of the invariant.
LEMMA MoneyStep ==
  ASSUME MInv, TypeOK', NEW q \in Participants, NEW d \in Int, NEW cur \in Currencies,
         ChangesBlocked(account, account', q, d, cur), OwedChanges(q, d),
         \A b \in BidIds : BidKept(b, q, d, cur), \A t \in TxIds : TxKept(t)
  PROVE  BalancesOwed' /\ CurrencyHeld'
<1>1. BalancesOwed'
  <2>1. ASSUME NEW p \in Participants PROVE account'[p].blocked = Owed(p)'
    <3>1. account[p].blocked = Owed(p) /\ Owed(p) \in Nat
      BY ShareCovered DEF MInv, IInv, BalancesOwed
    <3>2. Owed(p)' = Owed(p) + (IF p = q THEN d ELSE 0)
      BY DEF OwedChanges
    <3>3. CASE p = q
      BY <3>1, <3>2, <3>3 DEF ChangesBlocked
    <3>4. CASE p # q
      BY <3>1, <3>2, <3>4 DEF ChangesBlocked
    <3>5. QED
      BY <3>3, <3>4
  <2>2. QED
    BY <2>1 DEF BalancesOwed
<1>2. ASSUME NEW b \in BidIds, OpenBuy(b)', Cost(bid'[b]) > 0
      PROVE  account'[bid'[b].participant].cur = bid'[b].cur
  <2>1. CASE OpenBuy(b) /\ SameDeal(bid'[b], bid[b])
    <3>1. PICK p \in Participants : p = bid[b].participant
      BY <2>1, Covered DEF Bid
    <3>2. Cost(bid[b]) = Cost(bid'[b]) /\ bid'[b].participant = p /\ bid'[b].cur = bid[b].cur
      BY <2>1, <3>1 DEF SameDeal, Cost
    <3>3. Cost(bid[b]) \in Nat /\ Cost(bid[b]) <= account[p].blocked /\ Cost(bid[b]) > 0
      BY <1>2, <2>1, <3>1, <3>2, Covered
    <3>4. account[p].blocked \in Nat
      BY DEF MInv, IInv, TypeOK, Account
    <3>5. account[p].blocked > 0
      BY <3>3, <3>4
    <3>6. account'[p].cur = account[p].cur
      BY <3>5 DEF ChangesBlocked
    <3>7. account[p].cur = bid[b].cur
      BY <2>1, <3>1, <3>3 DEF MInv, CurrencyHeld
    <3>8. QED
      BY <3>2, <3>6, <3>7
  <2>2. CASE d # 0 /\ bid'[b].participant = q /\ bid'[b].cur = cur
    BY <2>2 DEF ChangesBlocked
  <2>3. QED
    BY <1>2, <2>1, <2>2 DEF BidKept
<1>3. ASSUME NEW t \in TxIds, ActiveTx(t)', Cost(tx'[t]) > 0
      PROVE  account'[tx'[t].buyer].cur = tx'[t].cur
  <2>1. CASE ActiveTx(t) /\ SameParties(tx'[t], tx[t])
    <3>1. PICK p \in Participants : p = tx[t].buyer
      BY <2>1, Covered DEF Transaction
    <3>2. Cost(tx[t]) = Cost(tx'[t]) /\ tx'[t].buyer = p /\ tx'[t].cur = tx[t].cur
      BY <2>1, <3>1 DEF SameParties, Cost
    <3>3. Cost(tx[t]) \in Nat /\ Cost(tx[t]) <= account[p].blocked /\ Cost(tx[t]) > 0
      BY <1>3, <2>1, <3>1, <3>2, Covered
    <3>4. account[p].blocked \in Nat
      BY DEF MInv, IInv, TypeOK, Account
    <3>5. account[p].blocked > 0
      BY <3>3, <3>4
    <3>6. account'[p].cur = account[p].cur
      BY <3>5 DEF ChangesBlocked
    <3>7. account[p].cur = tx[t].cur
      BY <2>1, <3>1, <3>3 DEF MInv, CurrencyHeld
    <3>8. QED
      BY <3>2, <3>6, <3>7
  <2>2. CASE \E b \in BidIds :
               /\ OpenBuy(b) /\ Cost(bid[b]) > 0
               /\ bid[b].participant = tx'[t].buyer /\ bid[b].cur = tx'[t].cur
    <3>1. PICK b \in BidIds :
            /\ OpenBuy(b) /\ Cost(bid[b]) > 0
            /\ bid[b].participant = tx'[t].buyer /\ bid[b].cur = tx'[t].cur
      BY <2>2
    <3>2. PICK p \in Participants : p = bid[b].participant
      BY <3>1, Covered DEF Bid
    <3>3. Cost(bid[b]) \in Nat /\ Cost(bid[b]) <= account[p].blocked
      BY <3>1, <3>2, Covered
    <3>4. account[p].blocked \in Nat
      BY DEF MInv, IInv, TypeOK, Account
    <3>5. account[p].blocked > 0
      BY <3>1, <3>3, <3>4
    <3>6. account'[p].cur = account[p].cur
      BY <3>5 DEF ChangesBlocked
    <3>7. account[p].cur = bid[b].cur
      BY <3>1, <3>2 DEF MInv, CurrencyHeld
    <3>8. QED
      BY <3>1, <3>2, <3>6, <3>7
  <2>3. QED
    BY <1>3, <2>1, <2>2 DEF TxKept
<1>4. QED
  BY <1>1, <1>2, <1>3 DEF CurrencyHeld

\* The shares of a bid or a transaction that a step leaves as it is.
LEMMA BidFrame ==
  ASSUME NEW b \in BidIds, bid'[b] = bid[b]
  PROVE  /\ \A p \in Participants : BidShare(b, p)' = BidShare(b, p)
         /\ \A q, d, cur : BidKept(b, q, d, cur)
  BY DEF BidShare, OpenBuy, Known, Unmatched, Cost, BidKept, SameDeal

LEMMA TxFrame ==
  ASSUME NEW t \in TxIds, tx'[t] = tx[t]
  PROVE  /\ \A p \in Participants : TxShare(t, p)' = TxShare(t, p)
         /\ TxKept(t)
  BY DEF TxShare, ActiveTx, Exists, Cost, TxKept, SameParties

LEMMA OwedByBid ==
  ASSUME TypeOK, TypeOK', NEW q \in Participants, NEW d \in Int, NEW b \in BidIds,
         \A c \in BidIds \ {b} : bid'[c] = bid[c], tx' = tx,
         \A p \in Participants :
           BidShare(b, p)' = BidShare(b, p) + (IF p = q THEN d ELSE 0)
  PROVE  OwedChanges(q, d)
<1> SUFFICES ASSUME NEW p \in Participants
             PROVE  Owed(p)' = Owed(p) + (IF p = q THEN d ELSE 0)
  BY DEF OwedChanges
<1>1. Total(BidShares(p)', BidIds)
        = Total(BidShares(p), BidIds) + BidShare(b, p)' - BidShare(b, p)
  <2>1. \A c \in BidIds \ {b} : BidShare(c, p)' = BidShare(c, p)
    BY BidFrame
  <2>2. QED
    BY <2>1, BidsOwed
<1>2. Total(TxShares(p)', TxIds) = Total(TxShares(p), TxIds)
  <2>1. SameTxShares(p)
    BY TxFrame DEF SameTxShares
  <2>2. QED
    BY <2>1, TxsOwedSame
<1>3. BidShare(b, p) \in Nat /\ Total(BidShares(p), BidIds) \in Int
      /\ Total(TxShares(p), TxIds) \in Int
  BY ShareType, SharesType DEF SharesNat
<1>4. BidShare(b, p)' = BidShare(b, p) + (IF p = q THEN d ELSE 0)
  OBVIOUS
<1>5. Owed(p) = Total(BidShares(p), BidIds) + Total(TxShares(p), TxIds)
      /\ Owed(p)' = Total(BidShares(p)', BidIds) + Total(TxShares(p)', TxIds)
  BY DEF Owed
<1>6. QED
  BY <1>1, <1>2, <1>3, <1>4, <1>5

LEMMA OwedByTx ==
  ASSUME TypeOK, TypeOK', NEW q \in Participants, NEW d \in Int, NEW t \in TxIds,
         \A u \in TxIds \ {t} : tx'[u] = tx[u], bid' = bid,
         \A p \in Participants :
           TxShare(t, p)' = TxShare(t, p) + (IF p = q THEN d ELSE 0)
  PROVE  OwedChanges(q, d)
<1> SUFFICES ASSUME NEW p \in Participants
             PROVE  Owed(p)' = Owed(p) + (IF p = q THEN d ELSE 0)
  BY DEF OwedChanges
<1>1. Total(TxShares(p)', TxIds)
        = Total(TxShares(p), TxIds) + TxShare(t, p)' - TxShare(t, p)
  <2>1. \A u \in TxIds \ {t} : TxShare(u, p)' = TxShare(u, p)
    BY TxFrame
  <2>2. QED
    BY <2>1, TxsOwed
<1>2. Total(BidShares(p)', BidIds) = Total(BidShares(p), BidIds)
  <2>1. SameBidShares(p)
    BY BidFrame DEF SameBidShares
  <2>2. QED
    BY <2>1, BidsOwedSame
<1>3. TxShare(t, p) \in Nat /\ Total(BidShares(p), BidIds) \in Int
      /\ Total(TxShares(p), TxIds) \in Int
  BY ShareType, SharesType DEF SharesNat
<1>4. TxShare(t, p)' = TxShare(t, p) + (IF p = q THEN d ELSE 0)
  OBVIOUS
<1>5. Owed(p) = Total(BidShares(p), BidIds) + Total(TxShares(p), TxIds)
      /\ Owed(p)' = Total(BidShares(p)', BidIds) + Total(TxShares(p)', TxIds)
  BY DEF Owed
<1>6. QED
  BY <1>1, <1>2, <1>3, <1>4, <1>5

LEMMA OwedByNone ==
  ASSUME TypeOK, bid' = bid, tx' = tx, NEW p \in Participants
  PROVE  Owed(p)' = Owed(p)
<1>1. SameBidShares(p) /\ SameTxShares(p)
  BY BidFrame, TxFrame DEF SameBidShares, SameTxShares
<1>2. QED
  BY <1>1, BidsOwedSame, TxsOwedSame DEF Owed

-----------------------------------------------------------------------------
(***************************************************************************)
(* The operations.                                                         *)
(***************************************************************************)
LEMMA IdleMoney ==
  ASSUME MInv, TypeOK', account' = account, bid' = bid, tx' = tx
  PROVE  BalancesOwed' /\ CurrencyHeld'
<1>1. BalancesOwed'
  BY OwedByNone DEF MInv, IInv, BalancesOwed
<1>2. CurrencyHeld'
  BY DEF MInv, CurrencyHeld, OpenBuy, ActiveTx, Known, Exists, Unmatched, Cost
<1>3. QED
  BY <1>1, <1>2

LEMMA DepositMoney ==
  ASSUME MInv, TypeOK', SomeDeposit
  PROVE  BalancesOwed' /\ CurrencyHeld'
<1>1. PICK u \in DepositUids, a \in Amounts, c \in Currencies, p \in Participants :
        PlaceDeposit(u, [amount |-> a, cur |-> c, account |-> p])
  BY DEF SomeDeposit
<1>2. TypeOK /\ a \in Int /\ -a \in Int /\ 0 \in Int
  BY MarketAssumption DEF MInv, IInv
<1> DEFINE type == IF a < 0 THEN "PAYOUT" ELSE "PAYIN"
<1>3. PlaceMovement(Movement(type, p, a, p, 0, 0, -a, c)) /\ bid' = bid /\ tx' = tx
  BY <1>1 DEF PlaceDeposit
<1> HIDE DEF type
<1>4. ChangesBlocked(account, account', p, 0, c)
  BY <1>2, <1>3, MovementBlocks
<1>5. OwedChanges(p, 0)
  <2>1. \A q \in Participants : Owed(q)' = Owed(q) /\ Owed(q) \in Nat
    BY <1>2, <1>3, OwedByNone, ShareCovered
  <2>2. QED
    BY <2>1 DEF OwedChanges
<1>6. (\A b \in BidIds : BidKept(b, p, 0, c)) /\ (\A t \in TxIds : TxKept(t))
  BY <1>3, BidFrame, TxFrame
<1>7. QED
  BY <1>2, <1>4, <1>5, <1>6, MoneyStep

LEMMA EnqueueMoney ==
  ASSUME MInv, TypeOK', SomeBid
  PROVE  BalancesOwed' /\ CurrencyHeld'
<1>1. PICK b \in BidIds, type \in BidTypes, article \in Articles, price \in Prices,
           c \in Currencies, p \in Participants, stamp \in Stamps :
             EnqueueBid(b, type, article, price, c, p, stamp)
  BY DEF SomeBid
<1> DEFINE new == NewBid(type, article, price, c, p, stamp)
           cost == Cost(new)
<1>2. TypeOK /\ new \in Bid
  BY <1>1, NewBidType DEF EnqueueBid, MInv, IInv, TypeOK, Stamps
<1>3. new.type = type /\ new.state = "INQUEUE" /\ new.participant = p /\ new.cur = c
  BY DEF NewBid
<1>4. ~Known(b) /\ bid' = [bid EXCEPT ![b] = new] /\ tx' = tx
  BY <1>1 DEF EnqueueBid
<1>5. type = "BUY" => PlaceMovement(BidMovement(new))
  BY <1>1 DEF EnqueueBid
<1>6. type # "BUY" => account' = account
  BY <1>1 DEF EnqueueBid
<1> HIDE DEF new
<1>7. bid'[b] = new /\ new # NoBid /\ \A d \in BidIds \ {b} : bid'[d] = bid[d]
  BY <1>2, <1>4, NilAssumption DEF TypeOK
<1>8. cost \in Nat /\ cost \in Int /\ -cost \in Int /\ 0 \in Int
  BY <1>2, CostType
<1>9. \A q \in Participants : BidShare(b, q) = 0
  BY <1>4 DEF BidShare, OpenBuy
<1>10. \A t \in TxIds : TxKept(t)
  BY <1>4, TxFrame
<1>11. CASE type = "BUY"
  <2>1. \A q \in Participants : BidShare(b, q)' = IF q = p THEN cost ELSE 0
    BY <1>3, <1>7, <1>11 DEF BidShare, OpenBuy, Known, Unmatched, Cost
  <2>2. PlaceMovement(Movement("BID", p, -cost, p, cost, 0, 0, c))
    BY <1>3, <1>5, <1>11 DEF BidMovement
  <2>3. \A d \in BidIds : BidKept(d, p, cost, c)
    <3>1. BidKept(b, p, cost, c)
      BY <1>3, <1>7, <1>8 DEF BidKept, Cost
    <3>2. QED
      BY <1>7, <3>1, BidFrame
  <2> HIDE DEF cost
  <2>4. ChangesBlocked(account, account', p, cost, c)
    BY <1>2, <1>8, <2>2, MovementBlocks
  <2>5. \A q \in Participants : BidShare(b, q)' = BidShare(b, q) + (IF q = p THEN cost ELSE 0)
    BY <1>8, <1>9, <2>1
  <2>6. OwedChanges(p, cost)
    BY <1>2, <1>4, <1>7, <1>8, <2>5, OwedByBid
  <2>7. QED
    BY <1>8, <1>10, <2>3, <2>4, <2>6, MoneyStep
<1>12. CASE type # "BUY"
  <2>1. \A q \in Participants : BidShare(b, q)' = 0
    BY <1>3, <1>7, <1>12 DEF BidShare, OpenBuy
  <2>2. ChangesBlocked(account, account', p, 0, c)
    BY <1>2, <1>6, <1>12, NothingBlocked
  <2>3. \A q \in Participants : BidShare(b, q)' = BidShare(b, q) + (IF q = p THEN 0 ELSE 0)
    BY <1>9, <2>1
  <2>4. OwedChanges(p, 0)
    BY <1>2, <1>4, <1>7, <1>8, <2>3, OwedByBid
  <2>5. \A d \in BidIds : BidKept(d, p, 0, c)
    <3>1. BidKept(b, p, 0, c)
      BY <1>3, <1>7, <1>12 DEF BidKept, OpenBuy
    <3>2. QED
      BY <1>7, <3>1, BidFrame
  <2>6. QED
    BY <1>8, <1>10, <2>2, <2>4, <2>5, MoneyStep
<1>13. QED
  BY <1>11, <1>12

LEMMA PlaceMoney ==
  ASSUME MInv, TypeOK', NEW b \in BidIds, PlaceBid(b)
  PROVE  BalancesOwed' /\ CurrencyHeld'
<1>1. TypeOK /\ 0 \in Int /\ account' = account
  BY DEF MInv, IInv, PlaceBid
<1>2. PICK n \in Bid :
        /\ n.state = "PLACED" /\ SameDeal(n, bid[b])
        /\ Known(b) /\ bid[b] \in Bid /\ bid[b].state = "INQUEUE"
        /\ bid' = [bid EXCEPT ![b] = n] /\ tx' = tx
  BY <1>1, PlaceEffect
<1>3. bid'[b] = n /\ n # NoBid /\ \A d \in BidIds \ {b} : bid'[d] = bid[d]
  BY <1>1, <1>2, NilAssumption DEF TypeOK
<1>4. PICK p \in Participants, c \in Currencies : p = bid[b].participant /\ c = bid[b].cur
  BY <1>2 DEF Bid
<1>5. \A q \in Participants : BidShare(b, q)' = BidShare(b, q)
  BY <1>2, <1>3 DEF BidShare, OpenBuy, Known, Unmatched, Cost, SameDeal
<1>6. \A q \in Participants : BidShare(b, q)' = BidShare(b, q) + (IF q = p THEN 0 ELSE 0)
  BY <1>1, <1>5, ShareType DEF SharesNat
<1>7. OwedChanges(p, 0)
  BY <1>1, <1>2, <1>3, <1>6, OwedByBid
<1>8. ChangesBlocked(account, account', p, 0, c)
  BY <1>1, NothingBlocked
<1>9. \A d \in BidIds : BidKept(d, p, 0, c)
  <2>1. BidKept(b, p, 0, c)
    BY <1>2, <1>3 DEF BidKept, OpenBuy, Known, Unmatched, SameDeal
  <2>2. QED
    BY <1>3, <2>1, BidFrame
<1>10. \A t \in TxIds : TxKept(t)
  BY <1>2, TxFrame
<1>11. QED
  BY <1>1, <1>7, <1>8, <1>9, <1>10, MoneyStep

LEMMA RetireBidMoney ==
  ASSUME MInv, TypeOK', NEW b \in bidTasks, RetireBid(b), Known(b)
  PROVE  BalancesOwed' /\ CurrencyHeld'
<1>1. TypeOK /\ 0 \in Int
  BY DEF MInv, IInv
<1>2. b \in BidIds /\ bid[b] \in Bid /\ tx' = tx
  BY <1>1, RetireBidEffect
<1>3. CASE ~Unmatched(bid[b])
  BY <1>2, <1>3, IdleMoney DEF RetireBid
<1>4. CASE Unmatched(bid[b])
  <2>1. PICK n \in Bid :
          /\ n.state = "EXPIRED" /\ SameDeal(n, bid[b])
          /\ bid' = [bid EXCEPT ![b] = n]
    BY <1>1, <1>4, RetireBidEffect
  <2>2. bid'[b] = n /\ n # NoBid /\ \A d \in BidIds \ {b} : bid'[d] = bid[d]
    BY <1>1, <1>2, <2>1, NilAssumption DEF TypeOK
  <2>3. PICK p \in Participants, c \in Currencies, cost \in Nat :
          p = bid[b].participant /\ c = bid[b].cur /\ cost = Cost(bid[b])
    BY <1>2, CostType DEF Bid
  <2>4. cost \in Int /\ -cost \in Int
    BY <2>3
  <2>5. \A q \in Participants : BidShare(b, q)' = 0
    BY <2>1, <2>2 DEF BidShare, OpenBuy, Unmatched
  <2>6. \A t \in TxIds : TxKept(t)
    BY <1>2, TxFrame
  <2>7. \A e \in Int : \A d \in BidIds : BidKept(d, p, e, c)
    <3>1. \A e \in Int : BidKept(b, p, e, c)
      BY <2>1, <2>2 DEF BidKept, OpenBuy, Unmatched
    <3>2. QED
      BY <2>2, <3>1, BidFrame
  <2>8. CASE bid[b].type = "BUY"
    <3>1. PlaceMovement(Movement("BID_REIMBURSE", p, cost, p, -cost, 0, 0, c))
      BY <1>4, <2>3, <2>8 DEF RetireBid, BidReimbursement
    <3>2. ChangesBlocked(account, account', p, -cost, c)
      BY <1>1, <2>4, <3>1, MovementBlocks
    <3>3. \A q \in Participants : BidShare(b, q) = IF q = p THEN cost ELSE 0
      BY <1>4, <2>3, <2>8 DEF BidShare, OpenBuy, Known
    <3>4. \A q \in Participants :
            BidShare(b, q)' = BidShare(b, q) + (IF q = p THEN -cost ELSE 0)
      BY <2>3, <2>5, <3>3
    <3>5. OwedChanges(p, -cost)
      BY <1>1, <1>2, <2>2, <2>4, <3>4, OwedByBid
    <3>6. QED
      BY <2>4, <2>6, <2>7, <3>2, <3>5, MoneyStep
  <2>9. CASE bid[b].type # "BUY"
    <3>1. account' = account
      BY <1>4, <2>9 DEF RetireBid
    <3>2. ChangesBlocked(account, account', p, 0, c)
      BY <1>1, <3>1, NothingBlocked
    <3>3. \A q \in Participants : BidShare(b, q) = 0
      BY <2>9 DEF BidShare, OpenBuy
    <3>4. \A q \in Participants :
            BidShare(b, q)' = BidShare(b, q) + (IF q = p THEN 0 ELSE 0)
      BY <2>5, <3>3
    <3>5. OwedChanges(p, 0)
      BY <1>1, <1>2, <2>2, <3>4, OwedByBid
    <3>6. QED
      BY <1>1, <2>6, <2>7, <3>2, <3>5, MoneyStep
  <2>10. QED
    BY <2>8, <2>9
<1>5. QED
  BY <1>3, <1>4

\* What a match frees, and in which currency.
LEMMA MatchBlocks ==
  ASSUME IInv, NEW stamp \in Stamps, NEW b1 \in BidIds, NEW b2 \in BidIds,
         NEW t \in TxIds, MatchBids(stamp, b1, b2, t)
  PROVE  LET new == tx'[t]
         IN  /\ new.cur = bid[new.buyerBid].cur
             /\ ChangesBlocked(account, account', new.buyer,
                               Cost(new) - Cost(bid[new.buyerBid]), new.cur)
<1>1. TypeOK
  BY DEF IInv
<1> DEFINE new == NewTx(stamp, b1, b2)
           buyerBid == BuyerBid(b1, b2)
           p == new.buyer
           delta == PriceDelta(new, buyerBid)
<1>2. /\ bid[b1] \in Bid /\ bid[b2] \in Bid /\ OldBid(b2) \in Bid
      /\ new \in Transaction /\ bid[b1].type # bid[b2].type
      /\ delta >= 0
  BY <1>1, MatchFacts
<1>3. SameDeal(OldBid(b2), bid[b2])
  BY <1>2 DEF OldBid, Bid, SameDeal
<1>4. tx'[t] = new
  <2>1. tx' = [tx EXCEPT ![t] = new]
    BY <1>1, MatchFacts
  <2> HIDE DEF new
  <2>2. QED
    BY <1>1, <2>1 DEF TypeOK
<1>5. new.buyerBid \in {b1, b2} /\ SameDeal(buyerBid, bid[new.buyerBid])
  BY <1>2, <1>3 DEF NewTx, NewTransaction, BuyerBid, SameDeal, Bid, BidTypes
<1>6. new.cur = bid[new.buyerBid].cur
  <2>1. bid[b1].cur = bid[b2].cur
    <3>1. MayTransact(stamp, bid[b1], OldBid(b2))
      BY DEF MatchBids, OldBid
    <3>2. QED
      BY <1>3, <3>1 DEF MayTransact, SameDeal
  <2>2. new.cur = OldBid(b2).cur
    BY DEF NewTx, NewTransaction
  <2>3. QED
    BY <1>3, <1>5, <2>1, <2>2 DEF SameDeal
<1>7. IF delta > 0 THEN PlaceMovement(DeltaMovement(new, buyerBid))
                   ELSE UNCHANGED <<account, ledger>>
  BY <1>1, MatchFacts
<1>8. buyerBid \in Bid
  BY <1>2 DEF BuyerBid
<1> HIDE DEF new, buyerBid
<1>9. Cost(new) \in Nat /\ Cost(buyerBid) \in Nat /\ Cost(buyerBid) = Cost(bid[new.buyerBid])
  BY <1>2, <1>5, <1>8, CostType DEF SameDeal, Cost
<1>10. -delta = Cost(new) - Cost(bid[new.buyerBid]) /\ delta \in Nat /\ delta \in Int
       /\ -delta \in Int /\ 0 \in Int
  BY <1>2, <1>9 DEF PriceDelta
<1>11. p \in Participants /\ new.cur \in Currencies
  BY <1>2 DEF Transaction
<1>12. ChangesBlocked(account, account', p, -delta, new.cur)
  <2>1. CASE delta > 0
    <3>1. PlaceMovement(Movement("TRANSACTION", p, delta, p, -delta, 0, 0, new.cur))
      BY <1>7, <2>1 DEF DeltaMovement
    <3>2. delta \in Int /\ -delta \in Int /\ 0 \in Int
      BY <1>10
    <3> DEFINE cur == new.cur
    <3> HIDE DEF delta, p, cur
    <3>3. PlaceMovement(Movement("TRANSACTION", p, delta, p, -delta, 0, 0, cur))
          /\ cur \in Currencies
      BY <1>11, <3>1 DEF cur
    <3>4. ChangesBlocked(account, account', p, -delta, cur)
      BY <1>1, <1>11, <3>2, <3>3, MovementBlocks
    <3>5. QED
      BY <3>4 DEF cur
  <2>2. CASE ~(delta > 0)
    <3>1. account' = account /\ -delta = 0
      BY <1>7, <1>10, <2>2
    <3>2. ChangesBlocked(account, account', p, 0, new.cur)
      BY <1>1, <1>11, <3>1, NothingBlocked
    <3>3. QED
      BY <3>1, <3>2
  <2>3. QED
    BY <2>1, <2>2
<1>13. QED
  BY <1>4, <1>6, <1>10, <1>12

\* A match turns what an open bid holds into what a transaction holds and frees
\* the rest.
LEMMA MatchMoneyKept ==
  ASSUME MInv, TypeOK', SomeMatch
  PROVE  BalancesOwed' /\ CurrencyHeld'
<1>1. TypeOK /\ IInv
  BY DEF MInv, IInv
<1>2. PICK stamp \in Stamps, b1 \in BidIds, b2 \in BidIds, t \in TxIds :
        MatchBids(stamp, b1, b2, t)
  BY DEF SomeMatch
<1>3. PICK n1 \in Bid, n2 \in Bid, new \in Transaction :
        /\ bid' = [bid EXCEPT ![b1] = n1, ![b2] = n2]
        /\ tx' = [tx EXCEPT ![t] = new]
        /\ n1.state = "MATCHED" /\ SameDeal(n1, bid[b1])
        /\ n2.state = "MATCHED" /\ SameDeal(n2, bid[b2])
        /\ \/ /\ new.buyerBid = b1 /\ new.sellerBid = b2
              /\ bid[b1].type = "BUY" /\ bid[b2].type = "SELL"
           \/ /\ new.buyerBid = b2 /\ new.sellerBid = b1
              /\ bid[b2].type = "BUY" /\ bid[b1].type = "SELL"
  BY <1>1, <1>2, MatchEffect
<1>4. b1 # b2 /\ ~Exists(t) /\ Known(b1) /\ Known(b2)
      /\ Unmatched(bid[b1]) /\ Unmatched(bid[b2])
  <2>1. b1 # b2 /\ tx[t] = NoTx /\ bid[b1].state = "INQUEUE"
        /\ bid[b2].state \in {"INQUEUE", "PLACED"}
    BY <1>1, <1>2, MatchFacts
  <2>2. Known(b1) /\ Known(b2)
    BY <1>2 DEF MatchBids
  <2>3. QED
    BY <2>1, <2>2 DEF Exists, Unmatched
<1>5. /\ bid'[b1] = n1 /\ bid'[b2] = n2
      /\ \A c \in BidIds \ {b1, b2} : bid'[c] = bid[c]
  BY <1>1, <1>3, <1>4 DEF TypeOK
<1>6. tx'[t] = new /\ \A u \in TxIds \ {t} : tx'[u] = tx[u]
  BY <1>1, <1>3 DEF TypeOK
<1>7. PICK b \in BidIds, s \in BidIds, p \in Participants, cur \in Currencies :
        b = new.buyerBid /\ s = new.sellerBid /\ p = new.buyer /\ cur = new.cur
  BY DEF Transaction
<1>8. /\ new.state = "ACTIVE" /\ p = bid[b].participant /\ cur = bid[b].cur
      /\ ChangesBlocked(account, account', p, Cost(new) - Cost(bid[b]), cur)
  <2>1. new.state = "ACTIVE" /\ p = bid[b].participant
    BY <1>1, <1>2, <1>6, <1>7, MatchMoney
  <2>2. /\ new.cur = bid[new.buyerBid].cur
        /\ ChangesBlocked(account, account', new.buyer,
                          Cost(new) - Cost(bid[new.buyerBid]), new.cur)
    BY <1>1, <1>2, <1>6, MatchBlocks
  <2>3. QED
    BY <1>7, <2>1, <2>2
<1>9. PICK paid \in Nat, price \in Nat : paid = Cost(bid[b]) /\ price = Cost(new)
  <2>1. bid[b] \in Bid
    BY <1>1, <1>3, <1>4, <1>7 DEF TypeOK, Known
  <2>2. QED
    BY <2>1, CostType
<1>10. price \in Int /\ paid \in Int /\ price - paid \in Int
  BY <1>9
<1>11. /\ bid[b].type = "BUY" /\ bid[s].type = "SELL" /\ OpenBuy(b)
       /\ bid'[b].state = "MATCHED" /\ bid'[s].state = "MATCHED"
       /\ bid'[b].type = "BUY" /\ bid'[s].type = "SELL"
       /\ \A c \in BidIds \ {b, s} : bid'[c] = bid[c]
  BY <1>3, <1>4, <1>5, <1>7 DEF OpenBuy, SameDeal
<1>12. ASSUME NEW q \in Participants
       PROVE  Owed(q)' = Owed(q) + (IF q = p THEN price - paid ELSE 0)
  <2>1. /\ BidShare(b, q) = IF q = p THEN paid ELSE 0
        /\ BidShare(b, q)' = 0
        /\ BidShare(s, q) = 0 /\ BidShare(s, q)' = 0
    BY <1>8, <1>9, <1>11 DEF BidShare, OpenBuy, Unmatched
  <2>2. \A c \in BidIds \ {b} : BidShare(c, q)' = BidShare(c, q)
    BY <1>11, <2>1, BidFrame
  <2>3. Total(BidShares(q)', BidIds)
          = Total(BidShares(q), BidIds) + BidShare(b, q)' - BidShare(b, q)
    BY <1>1, <2>2, BidsOwed
  <2>4. /\ TxShare(t, q) = 0
        /\ TxShare(t, q)' = IF q = p THEN price ELSE 0
    <3>1. new # NoTx
      BY NilAssumption
    <3>2. TxShare(t, q) = 0
      BY <1>4 DEF TxShare, ActiveTx
    <3>3. TxShare(t, q)' = IF q = p THEN Cost(new) ELSE 0
      BY <1>6, <1>7, <1>8, <3>1 DEF TxShare, ActiveTx, Exists, Cost
    <3>4. QED
      BY <1>9, <3>2, <3>3
  <2>5. \A u \in TxIds \ {t} : TxShare(u, q)' = TxShare(u, q)
    BY <1>6, TxFrame
  <2>6. Total(TxShares(q)', TxIds)
          = Total(TxShares(q), TxIds) + TxShare(t, q)' - TxShare(t, q)
    BY <1>1, <2>5, TxsOwed
  <2>7. Total(BidShares(q), BidIds) \in Int /\ Total(TxShares(q), TxIds) \in Int
    BY <1>1, SharesType
  <2>8. Owed(q) = Total(BidShares(q), BidIds) + Total(TxShares(q), TxIds)
        /\ Owed(q)' = Total(BidShares(q)', BidIds) + Total(TxShares(q)', TxIds)
    BY DEF Owed
  <2>9. QED
    BY <2>1, <2>3, <2>4, <2>6, <2>7, <2>8
<1>13. OwedChanges(p, price - paid)
  BY <1>12 DEF OwedChanges
<1>14. ASSUME NEW c \in BidIds PROVE BidKept(c, p, price - paid, cur)
  <2>1. CASE c \in {b, s}
    BY <1>11, <2>1 DEF BidKept, OpenBuy, Unmatched
  <2>2. CASE c \notin {b, s}
    BY <1>11, <2>2, BidFrame
  <2>3. QED
    BY <2>1, <2>2
<1>15. ASSUME NEW u \in TxIds PROVE TxKept(u)
  <2>1. CASE u # t
    BY <1>6, <2>1, TxFrame
  <2>2. CASE u = t
    <3>1. Cost(new) <= Cost(bid[b])
      BY <1>1, <1>2, <1>6, <1>7, <1>9, MatchMoney
    <3>2. Cost(tx'[t]) > 0 => Cost(bid[b]) > 0
      BY <1>6, <1>9, <3>1
    <3>3. QED
      BY <1>6, <1>7, <1>8, <1>11, <2>2, <3>2 DEF TxKept
  <2>3. QED
    BY <2>1, <2>2
<1>16. QED
  BY <1>1, <1>8, <1>9, <1>10, <1>13, <1>14, <1>15, MoneyStep

LEMMA UpdateMoney ==
  ASSUME MInv, TypeOK', SomeMessage
  PROVE  BalancesOwed' /\ CurrencyHeld'
<1>1. TypeOK /\ 0 \in Int
  BY DEF MInv, IInv
<1>2. PICK t \in TxIds, stamp \in Stamps, q \in Participants, m \in Messages,
           post \in Phases : UpdateTransaction(t, stamp, q, m, post)
  BY DEF SomeMessage
<1>3. PICK n \in Transaction :
        /\ Exists(t) /\ tx[t] \in Transaction /\ tx[t].state = "ACTIVE"
        /\ n.state = "ACTIVE" /\ SameParties(n, tx[t])
        /\ tx' = [tx EXCEPT ![t] = n] /\ bid' = bid
  BY <1>1, <1>2, UpdateEffect
<1>4. tx'[t] = n /\ n # NoTx /\ \A u \in TxIds \ {t} : tx'[u] = tx[u]
  BY <1>1, <1>3, NilAssumption DEF TypeOK
<1>5. PICK p \in Participants, cur \in Currencies : p = tx[t].buyer /\ cur = tx[t].cur
  BY <1>3 DEF Transaction
<1>6. account' = account
  BY <1>2 DEF UpdateTransaction
<1>7. ChangesBlocked(account, account', p, 0, cur)
  BY <1>1, <1>6, NothingBlocked
<1>8. \A r \in Participants : TxShare(t, r)' = TxShare(t, r)
  BY <1>3, <1>4 DEF TxShare, ActiveTx, Exists, Cost, SameParties
<1>9. \A r \in Participants : TxShare(t, r)' = TxShare(t, r) + (IF r = p THEN 0 ELSE 0)
  BY <1>1, <1>8, ShareType DEF SharesNat
<1>10. OwedChanges(p, 0)
  BY <1>1, <1>3, <1>4, <1>9, OwedByTx
<1>11. \A b \in BidIds : BidKept(b, p, 0, cur)
  BY <1>3, BidFrame
<1>12. \A u \in TxIds : TxKept(u)
  <2>1. TxKept(t)
    BY <1>3, <1>4 DEF TxKept, ActiveTx
  <2>2. QED
    BY <1>4, <2>1, TxFrame
<1>13. QED
  BY <1>1, <1>7, <1>10, <1>11, <1>12, MoneyStep

LEMMA RetireTxMoney ==
  ASSUME MInv, TypeOK', NEW task \in txTasks, RetireTransaction(task), Exists(task[1])
  PROVE  BalancesOwed' /\ CurrencyHeld'
<1>1. TypeOK /\ 0 \in Int
  BY DEF MInv, IInv
<1>2. PICK t \in TxIds : t = task[1]
  BY <1>1, RetireTxEffect
<1>3. tx[t] \in Transaction /\ bid' = bid
  BY <1>1, <1>2, RetireTxEffect
<1>4. CASE ~(tx[t].state = "ACTIVE" /\ ~TooYoung(tx[t], now))
  BY <1>2, <1>3, <1>4, IdleMoney DEF RetireTransaction
<1>5. CASE tx[t].state = "ACTIVE" /\ ~TooYoung(tx[t], now)
  <2>1. PlaceMovement(SettlementMovement(tx[t])) /\ tx' = [tx EXCEPT ![t] = Retired(tx[t])]
    BY <1>2, <1>5 DEF RetireTransaction
  <2>2. /\ tx'[t].state = "RETIRED"
        /\ \A u \in TxIds \ {t} : tx'[u] = tx[u]
    BY <1>1, <1>3, <2>1 DEF TypeOK, Retired, Transaction
  <2>3. PICK p \in Participants, s \in Participants, cur \in Currencies,
             cost \in Nat, price \in Nat, fee \in Nat :
          /\ p = tx[t].buyer /\ s = tx[t].seller /\ cur = tx[t].cur
          /\ cost = Cost(tx[t]) /\ price = tx[t].price /\ fee = tx[t].fee
    BY <1>3, CostType DEF Transaction
  <2>4. cost \in Int /\ -cost \in Int /\ price \in Int /\ fee \in Int
    BY <2>3
  <2>5. \/ PlaceMovement(Movement("TRANSACTION_FINISH", s, price, p, -cost, fee, 0, cur))
        \/ PlaceMovement(Movement("TRANSACTION_REIMBURSE", p, cost, p, -cost, 0, 0, cur))
    BY <2>1, <2>3 DEF SettlementMovement
  <2>6. ChangesBlocked(account, account', p, -cost, cur)
    BY <1>1, <2>3, <2>4, <2>5, MovementBlocks
  <2>7. \A q \in Participants : TxShare(t, q) = IF q = p THEN cost ELSE 0
    BY <1>2, <1>5, <2>3 DEF TxShare, ActiveTx
  <2>8. \A q \in Participants : TxShare(t, q)' = 0
    BY <2>2 DEF TxShare, ActiveTx
  <2>9. \A q \in Participants : TxShare(t, q)' = TxShare(t, q) + (IF q = p THEN -cost ELSE 0)
    BY <2>3, <2>7, <2>8
  <2>10. OwedChanges(p, -cost)
    BY <1>1, <1>3, <2>2, <2>4, <2>9, OwedByTx
  <2>11. \A b \in BidIds : BidKept(b, p, -cost, cur)
    BY <1>3, BidFrame
  <2>12. \A u \in TxIds : TxKept(u)
    <3>1. TxKept(t)
      BY <2>2 DEF TxKept, ActiveTx
    <3>2. QED
      BY <2>2, <3>1, TxFrame
  <2>13. QED
    BY <2>4, <2>6, <2>10, <2>11, <2>12, MoneyStep
<1>6. QED
  BY <1>4, <1>5

-----------------------------------------------------------------------------
LEMMA InitMoney == Init => BalancesOwed /\ CurrencyHeld
<1> SUFFICES ASSUME Init PROVE BalancesOwed /\ CurrencyHeld
  OBVIOUS
<1>1. (\A b \in BidIds : ~OpenBuy(b)) /\ (\A t \in TxIds : ~ActiveTx(t))
  BY DEF Init, OpenBuy, Known, ActiveTx, Exists
<1>2. ASSUME NEW p \in Participants PROVE account[p].blocked = Owed(p)
  <2>1. /\ {} \in SUBSET BidIds /\ {} \in SUBSET TxIds
        /\ \A b \in BidIds : BidShares(p)[b] = 0
        /\ \A t \in TxIds : TxShares(p)[t] = 0
    BY <1>1 DEF BidShares, TxShares, BidShare, TxShare
  <2>2. Total(BidShares(p), {}) = Total(BidShares(p), BidIds)
    BY <2>1, TotalSame
  <2>3. Total(TxShares(p), {}) = Total(TxShares(p), TxIds)
    BY <2>1, TotalSame
  <2>4. Owed(p) = 0
    BY <2>2, <2>3, TotalEmpty DEF Owed
  <2>5. QED
    BY <2>4 DEF Init, EmptyAccount
<1>3. QED
  BY <1>1, <1>2 DEF BalancesOwed, CurrencyHeld

LEMMA StepMoney == MInv /\ [Next]_vars => MInv'
<1> SUFFICES ASSUME MInv, [Next]_vars PROVE MInv'
  OBVIOUS
<1>1. IInv' /\ TypeOK'
  <2>1. IInv'
    BY StepIInv DEF MInv
  <2>2. QED
    BY <2>1 DEF IInv
<1>2. TasksKnown
  BY DEF MInv, IInv, RetirementScheduled
<1>3. CASE \E b \in bidTasks : RetireBid(b)
  BY <1>1, <1>2, <1>3, RetireBidMoney DEF TasksKnown, MInv
<1>4. CASE \E task \in txTasks : RetireTransaction(task)
  BY <1>1, <1>2, <1>4, RetireTxMoney DEF TasksKnown, MInv
<1>5. CASE Tick \/ UNCHANGED vars
  BY <1>1, <1>5, IdleMoney DEF Tick, vars, MInv
<1>6. CASE \E b \in BidIds : PlaceBid(b)
  BY <1>1, <1>6, PlaceMoney DEF MInv
<1>7. CASE SomeDeposit \/ SomeBid \/ SomeMatch \/ SomeMessage
  BY <1>1, <1>7, DepositMoney, EnqueueMoney, MatchMoneyKept, UpdateMoney DEF MInv
<1>8. QED
  BY <1>3, <1>4, <1>5, <1>6, <1>7 DEF Next

\* The accounts, bids and transactions stay in step: the inductive invariant
\* holds in every state the market can reach.
THEOREM MInvHolds == Spec => []MInv
<1>1. Init => MInv
  BY InitIInv, InitMoney DEF MInv
<1>2. MInv /\ [Next]_vars => MInv'
  BY StepMoney
<1>3. QED
  BY <1>1, <1>2, PTL DEF Spec

\* What a participant has blocked is at all times what the participant's open
\* bids and active transactions cost, in their currency.
THEOREM BlockedAlwaysOwed == Spec => []BlockedIsOwed
<1>1. MInv => BlockedIsOwed
  BY MInvBlocked
<1>2. QED
  BY <1>1, MInvHolds, PTL

-----------------------------------------------------------------------------
(***************************************************************************)
(* Settlement.                                                             *)
(***************************************************************************)
\* What is blocked in the right currency can be given out; only the currency
\* of the account that gets it may be in the way.
LEMMA PlaceGivesOut ==
  ASSUME NEW accounts \in [Participants -> Account],
         NEW type, NEW to \in Participants, NEW toDelta \in Nat,
         NEW from \in Participants, NEW cost \in Nat,
         NEW fee \in Int, NEW cur \in Currencies,
         Validate(Movement(type, to, toDelta, from, -cost, fee, 0, cur)),
         cost <= accounts[from].blocked, cost > 0 => accounts[from].cur = cur
  PROVE  CanPlace(accounts, Movement(type, to, toDelta, from, -cost, fee, 0, cur))
           <=> (toDelta = 0 \/ accounts[to].cur = cur \/ CurrencyMutable(accounts[to]))
<1> DEFINE m == Movement(type, to, toDelta, from, -cost, fee, 0, cur)
           mid == AfterAvailable(accounts, m)
<1>1. /\ m.availAccount = to /\ m.availDelta = toDelta
      /\ m.blockedAccount = from /\ m.blockedDelta = -cost /\ m.cur = cur
  BY DEF Movement
<1> HIDE DEF m
<1>2. Validate(m)
  BY DEF m
<1>3. mid = [accounts EXCEPT ![to] = ApplyAvailable(accounts[to], toDelta, cur)]
  BY <1>1 DEF AfterAvailable
<1>4. accounts[to] \in Account /\ accounts[from] \in Account
  OBVIOUS
<1> HIDE DEF mid
<1>5. CanApplyAvailable(accounts[to], toDelta, cur)
        <=> (toDelta = 0 \/ accounts[to].cur = cur \/ CurrencyMutable(accounts[to]))
  BY <1>4 DEF CanApplyAvailable, CanApply, Account
<1>6. /\ mid[from].blocked = accounts[from].blocked
      /\ mid[from].cur = accounts[from].cur \/ mid[from].cur = cur
  <2>1. CASE from # to \/ toDelta = 0
    BY <1>3, <2>1 DEF ApplyAvailable
  <2>2. CASE from = to /\ toDelta # 0
    <3>1. mid[from] = [accounts[from] EXCEPT !.avail = @ + toDelta, !.cur = cur]
      BY <1>3, <2>2 DEF ApplyAvailable
    <3>2. QED
      BY <1>4, <3>1 DEF Account
  <2>3. QED
    BY <2>1, <2>2
<1>7. CanApplyBlocked(mid[from], -cost, cur)
  <2>1. -cost + mid[from].blocked >= 0
    BY <1>4, <1>6 DEF Account
  <2>2. -cost = 0 \/ mid[from].cur = cur
    BY <1>6
  <2>3. QED
    BY <2>1, <2>2 DEF CanApplyBlocked, CanApply
<1>8. CanPlace(accounts, m) <=> CanApplyAvailable(accounts[to], toDelta, cur)
  BY <1>1, <1>2, <1>7 DEF CanPlace, mid
<1>9. QED
  BY <1>5, <1>8 DEF m

\* The movements that end a bid and a transaction are valid.
LEMMA GivesBack ==
  ASSUME NEW p, NEW cost \in Nat, NEW cur
  PROVE  /\ Validate(Movement("BID_REIMBURSE", p, cost, p, -cost, 0, 0, cur))
         /\ Validate(Movement("TRANSACTION_REIMBURSE", p, cost, p, -cost, 0, 0, cur))
  BY DEF Validate, CashFlow, FlowsAs, Movement

LEMMA GivesToSeller ==
  ASSUME NEW s, NEW p, NEW price \in Nat, NEW fee \in Nat, NEW cur
  PROVE  Validate(Movement("TRANSACTION_FINISH", s, price, p, -(price + fee), fee, 0, cur))
  BY DEF Validate, CashFlow, FlowsAs, Movement

LEMMA MInvSettles == MInv => SettlementApplies
<1> SUFFICES ASSUME MInv PROVE SettlementApplies
  OBVIOUS
<1>1. account \in [Participants -> Account]
  BY DEF MInv, IInv, TypeOK
<1>2. ASSUME NEW b \in BidIds, OpenBuy(b)
      PROVE  CanPlace(account, BidReimbursement(bid[b]))
  <2>1. bid[b] \in Bid
    BY <1>2, Covered
  <2>2. PICK p \in Participants, cost \in Nat, cur \in Currencies :
          p = bid[b].participant /\ cost = Cost(bid[b]) /\ cur = bid[b].cur
    BY <2>1, CostType DEF Bid
  <2>3. cost <= account[p].blocked
    BY <1>2, <2>2, Covered
  <2>4. cost > 0 => account[p].cur = cur
    BY <1>2, <2>2 DEF MInv, CurrencyHeld
  <2>5. /\ cost = 0 \/ account[p].cur = cur \/ CurrencyMutable(account[p])
        /\ 0 \in Int
    BY <2>2, <2>4
  <2>6. Validate(Movement("BID_REIMBURSE", p, cost, p, -cost, 0, 0, cur))
    BY <2>2, GivesBack
  <2>7. CanPlace(account, Movement("BID_REIMBURSE", p, cost, p, -cost, 0, 0, cur))
    BY <1>1, <2>2, <2>3, <2>4, <2>5, <2>6, PlaceGivesOut
  <2>8. QED
    BY <2>2, <2>7 DEF BidReimbursement
<1>3. ASSUME NEW t \in TxIds, ActiveTx(t)
      PROVE  CanPlace(account, SettlementMovement(tx[t]))
               <=> ~(PaysSeller(tx[t]) /\ tx[t].price > 0 /\ OtherCurrency(t))
  <2>1. tx[t] \in Transaction
    BY <1>3, Covered
  <2>2. PICK p \in Participants, s \in Participants, cur \in Currencies,
             cost \in Nat, price \in Nat, fee \in Nat :
          /\ p = tx[t].buyer /\ s = tx[t].seller /\ cur = tx[t].cur
          /\ cost = Cost(tx[t]) /\ price = tx[t].price /\ fee = tx[t].fee
    BY <2>1, CostType DEF Transaction
  <2>3. cost <= account[p].blocked
    BY <1>3, <2>2, Covered
  <2>4. cost > 0 => account[p].cur = cur
    BY <1>3, <2>2 DEF MInv, CurrencyHeld
  <2>5. 0 \in Int /\ fee \in Int /\ cost = price + fee
    BY <2>2 DEF Cost
  <2>6. CASE PaysSeller(tx[t])
    <3>1. Validate(Movement("TRANSACTION_FINISH", s, price, p, -cost, fee, 0, cur))
      BY <2>2, <2>5, GivesToSeller
    <3>2. CanPlace(account, Movement("TRANSACTION_FINISH", s, price, p, -cost, fee, 0, cur))
            <=> (price = 0 \/ account[s].cur = cur \/ CurrencyMutable(account[s]))
      BY <1>1, <2>2, <2>3, <2>4, <2>5, <3>1, PlaceGivesOut
    <3>3. SettlementMovement(tx[t])
            = Movement("TRANSACTION_FINISH", s, price, p, -cost, fee, 0, cur)
      BY <2>2, <2>6 DEF SettlementMovement
    <3>4. OtherCurrency(t) <=> ~CurrencyMutable(account[s]) /\ account[s].cur # cur
      BY <1>3, <2>2 DEF OtherCurrency, ActiveTx
    <3>5. price > 0 <=> price # 0
      BY <2>2
    <3>6. tx[t].price > 0 <=> price # 0
      BY <2>2, <3>5
    <3> HIDE DEF PaysSeller
    <3>7. QED
      BY <2>6, <3>2, <3>3, <3>4, <3>6, Zenon
  <2>7. CASE ~PaysSeller(tx[t])
    <3>1. Validate(Movement("TRANSACTION_REIMBURSE", p, cost, p, -cost, 0, 0, cur))
      BY <2>2, GivesBack
    <3>2. cost = 0 \/ account[p].cur = cur \/ CurrencyMutable(account[p])
      BY <2>2, <2>4
    <3>3. CanPlace(account, Movement("TRANSACTION_REIMBURSE", p, cost, p, -cost, 0, 0, cur))
      BY <1>1, <2>2, <2>3, <2>4, <2>5, <3>1, <3>2, PlaceGivesOut
    <3>4. SettlementMovement(tx[t])
            = Movement("TRANSACTION_REIMBURSE", p, cost, p, -cost, 0, 0, cur)
      BY <2>2, <2>7 DEF SettlementMovement
    <3>5. QED
      BY <2>7, <3>3, <3>4
  <2>8. QED
    BY <2>6, <2>7
<1>4. QED
  BY <1>2, <1>3 DEF SettlementApplies

\* A bid can always be expired and a transaction settled, unless the seller to
\* be paid has money of another currency.
THEOREM SettlementAlwaysApplies == Spec => []SettlementApplies
<1>1. MInv => SettlementApplies
  BY MInvSettles
<1>2. QED
  BY <1>1, MInvHolds, PTL

-----------------------------------------------------------------------------
(***************************************************************************)
(* The books.  What an account is worth in a currency, what all of them    *)
(* are, and what the deposits recorded add up to.                          *)
(***************************************************************************)
Worth(a, c) == IF a.cur = c THEN a.avail + a.blocked ELSE 0
Worths(accounts, c) == [p \in Participants |-> Worth(accounts[p], c)]
Wealth(accounts, c) == Total(Worths(accounts, c), Participants)

\* The part of x, an amount in currency cur, that is in currency c.
In(c, x, cur) == IF cur = c THEN x ELSE 0

Paid(u, c) ==
  IF deposit[u] # NoDeposit /\ deposit[u].cur = c THEN deposit[u].amount ELSE 0
PaidIn(c) == [u \in DepositUids |-> Paid(u, c)]

Balance(c) == Wealth(account, c) + ledger[c].fees + ledger[c].world

Books ==
  \A c \in Currencies :
    /\ Balance(c) = 0
    /\ ledger[c].world = -Total(PaidIn(c), DepositUids)

LEMMA WorthType ==
  ASSUME NEW accounts \in [Participants -> Account], NEW c
  PROVE  /\ \A p \in Participants : Worths(accounts, c)[p] \in Int
         /\ Wealth(accounts, c) \in Int
<1>1. \A p \in Participants : Worths(accounts, c)[p] \in Int
  BY DEF Worths, Worth, Account
<1>2. QED
  BY <1>1, TotalType, KeysAssumption DEF Wealth

LEMMA PaidType ==
  ASSUME TypeOK, NEW c
  PROVE  /\ \A u \in DepositUids : Paid(u, c) \in Int /\ PaidIn(c)[u] = Paid(u, c)
         /\ Total(PaidIn(c), DepositUids) \in Int
<1>1. \A u \in DepositUids : Paid(u, c) \in Int /\ PaidIn(c)[u] = Paid(u, c)
  BY DEF TypeOK, Paid, PaidIn, Deposit
<1>2. QED
  BY <1>1, TotalType, KeysAssumption

\* The sums of the property are totals over all keys.
LEMMA BooksAreSums ==
  ASSUME TypeOK
  PROVE  MoneyConserved <=> Books
<1> SUFFICES ASSUME NEW c \in Currencies
             PROVE  LET holders == {p \in Participants : account[p].cur = c}
                        balance == [p \in holders |-> account[p].avail + account[p].blocked]
                        placed == {u \in DepositUids :
                                     deposit[u] # NoDeposit /\ deposit[u].cur = c}
                        amount == [u \in placed |-> deposit[u].amount]
                    IN  /\ SumFunctionOnSet(balance, holders) = Wealth(account, c)
                        /\ SumFunctionOnSet(amount, placed) = Total(PaidIn(c), DepositUids)
  BY DEF MoneyConserved, Books, Balance
<1> DEFINE holders == {p \in Participants : account[p].cur = c}
           balance == [p \in holders |-> account[p].avail + account[p].blocked]
           placed == {u \in DepositUids : deposit[u] # NoDeposit /\ deposit[u].cur = c}
           amount == [u \in placed |-> deposit[u].amount]
<1>1. IsFiniteSet(holders) /\ IsFiniteSet(placed)
  BY KeysAssumption, FS_Subset
<1>2. /\ \A p \in Participants : Worths(account, c)[p] \in Int
      /\ \A u \in DepositUids : PaidIn(c)[u] \in Int
  BY WorthType, PaidType DEF TypeOK
<1>3. /\ \A p \in holders : balance[p] = Worths(account, c)[p]
      /\ \A p \in Participants \ holders : Worths(account, c)[p] = 0
  BY DEF Worths, Worth
<1>4. /\ \A u \in placed : amount[u] = PaidIn(c)[u]
      /\ \A u \in DepositUids \ placed : PaidIn(c)[u] = 0
  BY DEF PaidIn, Paid
<1>5. holders \in SUBSET Participants /\ placed \in SUBSET DepositUids
  OBVIOUS
<1> HIDE DEF holders, balance, placed, amount
<1>6. SumFunctionOnSet(balance, holders) = Total(balance, holders)
  BY <1>1, <1>2, <1>3, <1>5, SumIsTotal
<1>7. SumFunctionOnSet(amount, placed) = Total(amount, placed)
  BY <1>1, <1>2, <1>4, <1>5, SumIsTotal
<1>8. Total(balance, holders) = Wealth(account, c)
  BY <1>2, <1>3, <1>5, TotalSame DEF Wealth
<1>9. Total(amount, placed) = Total(PaidIn(c), DepositUids)
  BY <1>2, <1>4, <1>5, TotalSame
<1>10. QED
  BY <1>6, <1>7, <1>8, <1>9 DEF holders, balance, placed, amount

-----------------------------------------------------------------------------
\* A delta makes an account worth as much more in its currency and changes
\* nothing in the others: a currency is only taken over by an empty account.
LEMMA ApplyWorth ==
  ASSUME NEW a \in Account, NEW delta \in Int, NEW cur \in Currencies, NEW c \in Currencies
  PROVE  /\ CanApplyAvailable(a, delta, cur) =>
              Worth(ApplyAvailable(a, delta, cur), c) = Worth(a, c) + In(c, delta, cur)
         /\ CanApplyBlocked(a, delta, cur) =>
              Worth(ApplyBlocked(a, delta, cur), c) = Worth(a, c) + In(c, delta, cur)
<1>1. CASE delta = 0
  BY <1>1 DEF ApplyAvailable, ApplyBlocked, Worth, In, Account
<1>2. CASE delta # 0
  <2>1. ASSUME CanApply(a, a.avail, delta, cur)
        PROVE  Worth(ApplyAvailable(a, delta, cur), c) = Worth(a, c) + In(c, delta, cur)
    <3>1. ApplyAvailable(a, delta, cur) = [a EXCEPT !.avail = @ + delta, !.cur = cur]
      BY <1>2 DEF ApplyAvailable
    <3>2. a.cur = cur \/ a.avail + a.blocked = 0
      BY <1>2, <2>1 DEF CanApply, CurrencyMutable
    <3>3. QED
      BY <3>1, <3>2 DEF Worth, In, Account
  <2>2. ASSUME CanApply(a, a.blocked, delta, cur)
        PROVE  Worth(ApplyBlocked(a, delta, cur), c) = Worth(a, c) + In(c, delta, cur)
    <3>1. ApplyBlocked(a, delta, cur) = [a EXCEPT !.blocked = @ + delta, !.cur = cur]
      BY <1>2 DEF ApplyBlocked
    <3>2. a.cur = cur \/ a.avail + a.blocked = 0
      BY <1>2, <2>2 DEF CanApply, CurrencyMutable
    <3>3. QED
      BY <3>1, <3>2 DEF Worth, In, Account
  <2>3. QED
    BY <2>1, <2>2 DEF CanApplyAvailable, CanApplyBlocked
<1>3. QED
  BY <1>1, <1>2

\* A change of one account changes the wealth by as much.
LEMMA WealthChange ==
  ASSUME NEW accounts \in [Participants -> Account], NEW after \in [Participants -> Account],
         NEW p \in Participants, \A q \in Participants \ {p} : after[q] = accounts[q], NEW c
  PROVE  Wealth(after, c) = Wealth(accounts, c) + Worth(after[p], c) - Worth(accounts[p], c)
<1>1. /\ Worths(accounts, c)[p] = Worth(accounts[p], c)
      /\ Worths(after, c)[p] = Worth(after[p], c)
      /\ \A q \in Participants \ {p} : Worths(after, c)[q] = Worths(accounts, c)[q]
  BY DEF Worths
<1>2. /\ \A q \in Participants : Worths(accounts, c)[q] \in Int
      /\ \A q \in Participants : Worths(after, c)[q] \in Int
  BY WorthType
<1>3. Wealth(after, c) = Wealth(accounts, c) + Worths(after, c)[p] - Worths(accounts, c)[p]
  BY <1>1, <1>2, TotalChange, KeysAssumption DEF Wealth
<1>4. QED
  BY <1>1, <1>3

\* A movement that can be placed adds what it takes from the site and the world.
LEMMA PlaceWealth ==
  ASSUME NEW accounts \in [Participants -> Account],
         NEW type, NEW to \in Participants, NEW toDelta \in Int,
         NEW from \in Participants, NEW fromDelta \in Int,
         NEW fee \in Int, NEW world \in Int, NEW cur \in Currencies,
         CanPlace(accounts, Movement(type, to, toDelta, from, fromDelta, fee, world, cur)),
         NEW c \in Currencies
  PROVE  Wealth(Place(accounts,
                      Movement(type, to, toDelta, from, fromDelta, fee, world, cur)), c)
           = Wealth(accounts, c) - In(c, fee, cur) - In(c, world, cur)
<1> DEFINE m == Movement(type, to, toDelta, from, fromDelta, fee, world, cur)
           first == ApplyAvailable(accounts[to], toDelta, cur)
           mid == AfterAvailable(accounts, m)
           second == ApplyBlocked(mid[from], fromDelta, cur)
<1>1. /\ m.availAccount = to /\ m.availDelta = toDelta
      /\ m.blockedAccount = from /\ m.blockedDelta = fromDelta /\ m.cur = cur
      /\ m.fee = fee /\ m.world = world
  BY DEF Movement
<1> HIDE DEF m
<1>2. CanPlace(accounts, m)
  BY DEF m
<1>3. toDelta + fromDelta + fee + world = 0
  BY <1>1, <1>2 DEF CanPlace, Validate
<1>4. /\ CanApplyAvailable(accounts[to], toDelta, cur)
      /\ CanApplyBlocked(mid[from], fromDelta, cur)
  BY <1>1, <1>2 DEF CanPlace
<1>5. first \in Account /\ Worth(first, c) = Worth(accounts[to], c) + In(c, toDelta, cur)
  BY <1>4, ApplyType, ApplyWorth
<1>6. mid = [accounts EXCEPT ![to] = first]
  BY <1>1 DEF AfterAvailable
<1> DEFINE after == Place(accounts, m)
<1>7. after = [mid EXCEPT ![from] = second]
  BY <1>1 DEF Place
<1> HIDE DEF mid
<1>8. mid \in [Participants -> Account]
  BY <1>5, <1>6
<1>9. second \in Account /\ Worth(second, c) = Worth(mid[from], c) + In(c, fromDelta, cur)
  BY <1>4, <1>8, ApplyType, ApplyWorth
<1> HIDE DEF first, second, after
<1>10. /\ mid[to] = first /\ \A q \in Participants \ {to} : mid[q] = accounts[q]
       /\ after \in [Participants -> Account]
       /\ after[from] = second /\ \A q \in Participants \ {from} : after[q] = mid[q]
  BY <1>5, <1>6, <1>7, <1>8, <1>9
<1>11. Wealth(mid, c) = Wealth(accounts, c) + Worth(mid[to], c) - Worth(accounts[to], c)
  BY <1>8, <1>10, WealthChange
<1>12. Wealth(after, c) = Wealth(mid, c) + Worth(after[from], c) - Worth(mid[from], c)
  BY <1>8, <1>10, WealthChange
<1>13. /\ Wealth(accounts, c) \in Int
       /\ Worth(accounts[to], c) \in Int /\ Worth(mid[from], c) \in Int
       /\ In(c, toDelta, cur) \in Int /\ In(c, fromDelta, cur) \in Int
       /\ In(c, fee, cur) \in Int /\ In(c, world, cur) \in Int
  BY <1>8, WorthType DEF Worth, In, Account
<1>14. In(c, toDelta, cur) + In(c, fromDelta, cur) = -In(c, fee, cur) - In(c, world, cur)
  BY <1>3 DEF In
<1>15. Wealth(after, c) = Wealth(accounts, c) - In(c, fee, cur) - In(c, world, cur)
  BY <1>5, <1>9, <1>10, <1>11, <1>12, <1>13, <1>14
<1>16. QED
  BY <1>15 DEF after, m

-----------------------------------------------------------------------------
\* A step that takes x from the world, in currency cur, and keeps the balance
\* of every currency.
TakesFromWorld(x, cur) ==
  \A c \in Currencies :
    /\ Balance(c)' = Balance(c)
    /\ ledger'[c].world = ledger[c].world - In(c, x, cur)

\* A movement takes from the world what it says, and the site its fee.
LEMMA MovementTakes ==
  ASSUME TypeOK,
         NEW type, NEW to \in Participants, NEW toDelta \in Int,
         NEW from \in Participants, NEW fromDelta \in Int,
         NEW fee \in Int, NEW world \in Int, NEW cur \in Currencies,
         PlaceMovement(Movement(type, to, toDelta, from, fromDelta, fee, world, cur)),
         NEW taken \in Int, taken = -world
  PROVE  TakesFromWorld(taken, cur)
<1> DEFINE m == Movement(type, to, toDelta, from, fromDelta, fee, world, cur)
<1>1. CanPlace(account, m) /\ account' = Place(account, m)
      /\ ledger' = [ledger EXCEPT ![m.cur] = [fees |-> @.fees + m.fee,
                                             world |-> @.world + m.world]]
  BY DEF PlaceMovement
<1>2. m.cur = cur /\ m.fee = fee /\ m.world = world
  BY DEF Movement
<1>3. /\ account \in [Participants -> Account]
      /\ ledger \in [Currencies -> [fees : Int, world : Int]]
  BY DEF TypeOK
<1> SUFFICES ASSUME NEW c \in Currencies
             PROVE  /\ Balance(c)' = Balance(c)
                    /\ ledger'[c].world = ledger[c].world - In(c, taken, cur)
  BY DEF TakesFromWorld
<1>4. Wealth(account', c) = Wealth(account, c) - In(c, fee, cur) - In(c, world, cur)
  BY <1>1, <1>3, PlaceWealth
<1> HIDE DEF m
<1>5. /\ ledger'[c].fees = ledger[c].fees + In(c, fee, cur)
      /\ ledger'[c].world = ledger[c].world + In(c, world, cur)
  <2>1. CASE c = cur
    BY <1>1, <1>2, <1>3, <2>1 DEF In
  <2>2. CASE c # cur
    BY <1>1, <1>2, <1>3, <2>2 DEF In
  <2>3. QED
    BY <2>1, <2>2
<1>6. Wealth(account, c) \in Int /\ ledger[c].fees \in Int /\ ledger[c].world \in Int
      /\ In(c, fee, cur) \in Int /\ In(c, world, cur) \in Int
  BY <1>3, WorthType DEF In
<1>7. Balance(c)' = Balance(c)
  BY <1>4, <1>5, <1>6 DEF Balance
<1>8. In(c, taken, cur) = -In(c, world, cur)
  BY DEF In
<1>9. QED
  BY <1>5, <1>6, <1>7, <1>8

LEMMA NothingTaken ==
  ASSUME TypeOK, account' = account, ledger' = ledger, NEW cur
  PROVE  TakesFromWorld(0, cur)
<1>1. \A c \in Currencies : Balance(c)' = Balance(c)
  BY DEF Balance
<1>2. \A c \in Currencies : ledger[c].world - In(c, 0, cur) = ledger[c].world
  BY DEF TypeOK, In
<1>3. QED
  BY <1>1, <1>2 DEF TakesFromWorld

\* The books are kept by a step that takes nothing and records no deposit.
LEMMA BooksKept ==
  ASSUME TypeOK, Books, NEW cur, TakesFromWorld(0, cur), deposit' = deposit
  PROVE  Books'
<1> SUFFICES ASSUME NEW c \in Currencies
             PROVE  Balance(c)' = 0 /\ ledger'[c].world = -Total(PaidIn(c)', DepositUids)
  BY DEF Books
<1>1. Balance(c)' = Balance(c) /\ ledger'[c].world = ledger[c].world - In(c, 0, cur)
  BY DEF TakesFromWorld
<1>2. PaidIn(c)' = PaidIn(c)
  BY DEF PaidIn, Paid
<1>3. In(c, 0, cur) = 0 /\ ledger[c].world \in Int
  BY DEF In, TypeOK
<1>4. QED
  BY <1>1, <1>2, <1>3 DEF Books

-----------------------------------------------------------------------------
\* Only a deposit takes money from the world, and records as much.
LEMMA DepositBooks ==
  ASSUME TypeOK, TypeOK', Books, SomeDeposit
  PROVE  Books'
<1>1. PICK u \in DepositUids, a \in Amounts, cur \in Currencies, p \in Participants :
        PlaceDeposit(u, [amount |-> a, cur |-> cur, account |-> p])
  BY DEF SomeDeposit
<1>2. a \in Int /\ -a \in Int /\ 0 \in Int /\ a = -(-a)
  BY MarketAssumption
<1> DEFINE type == IF a < 0 THEN "PAYOUT" ELSE "PAYIN"
           d == [amount |-> a, cur |-> cur, account |-> p]
<1>3. /\ PlaceMovement(Movement(type, p, a, p, 0, 0, -a, cur))
      /\ deposit[u] = NoDeposit /\ deposit' = [deposit EXCEPT ![u] = d]
  BY <1>1 DEF PlaceDeposit
<1> HIDE DEF type
<1>5. TakesFromWorld(a, cur)
  BY <1>2, <1>3, MovementTakes
<1>6. d \in Deposit /\ d # NoDeposit /\ d.amount = a /\ d.cur = cur
  BY <1>2, NilAssumption DEF Deposit
<1> HIDE DEF d
<1>7. deposit'[u] = d /\ \A v \in DepositUids \ {u} : deposit'[v] = deposit[v]
  BY <1>3 DEF TypeOK
<1> SUFFICES ASSUME NEW c \in Currencies
             PROVE  Balance(c)' = 0 /\ ledger'[c].world = -Total(PaidIn(c)', DepositUids)
  BY DEF Books
<1>8. Paid(u, c) = 0 /\ Paid(u, c)' = In(c, a, cur)
  BY <1>3, <1>6, <1>7 DEF Paid, In
<1>9. \A v \in DepositUids \ {u} : Paid(v, c)' = Paid(v, c)
  BY <1>7 DEF Paid
<1>10. /\ \A v \in DepositUids : PaidIn(c)[v] \in Int
       /\ \A v \in DepositUids : PaidIn(c)'[v] \in Int
       /\ \A v \in DepositUids : PaidIn(c)[v] = Paid(v, c)
       /\ \A v \in DepositUids : PaidIn(c)'[v] = Paid(v, c)'
       /\ Total(PaidIn(c), DepositUids) \in Int
  <2>1. \A v \in DepositUids : Paid(v, c) \in Int
    BY PaidType
  <2>2. \A v \in DepositUids : Paid(v, c)' \in Int
    BY <1>2, <1>8, <1>9, <2>1 DEF In
  <2>3. QED
    BY <2>1, <2>2, PaidType DEF PaidIn
<1>11. Total(PaidIn(c)', DepositUids)
         = Total(PaidIn(c), DepositUids) + PaidIn(c)'[u] - PaidIn(c)[u]
  BY <1>9, <1>10, TotalChange, KeysAssumption
<1>12. Balance(c)' = Balance(c) /\ ledger'[c].world = ledger[c].world - In(c, a, cur)
  BY <1>5 DEF TakesFromWorld
<1>13. Balance(c) = 0 /\ ledger[c].world = -Total(PaidIn(c), DepositUids)
       /\ ledger[c].world \in Int /\ In(c, a, cur) \in Int
  BY <1>2 DEF Books, TypeOK, In
<1>14. QED
  BY <1>8, <1>10, <1>11, <1>12, <1>13

LEMMA EnqueueBooks ==
  ASSUME TypeOK, Books, SomeBid
  PROVE  Books'
<1>1. PICK b \in BidIds, type \in BidTypes, article \in Articles, price \in Prices,
           cur \in Currencies, p \in Participants, stamp \in Stamps :
             EnqueueBid(b, type, article, price, cur, p, stamp)
  BY DEF SomeBid
<1>2. PICK new \in Bid :
        new = NewBid(type, article, price, cur, p, stamp)
  BY <1>1, NewBidType DEF EnqueueBid, TypeOK, Stamps
<1>3. PICK cost \in Nat : cost = Cost(new)
  BY <1>2, CostType
<1>4. -cost \in Int /\ cost \in Int /\ 0 \in Int
  BY <1>3
<1>5. new.participant = p /\ new.cur = cur
  BY <1>2 DEF NewBid
<1>6. deposit' = deposit
      /\ IF type = "BUY" THEN PlaceMovement(BidMovement(new)) ELSE UNCHANGED <<account, ledger>>
  BY <1>1, <1>2 DEF EnqueueBid
<1>7. TakesFromWorld(0, cur)
  <2>1. CASE type = "BUY"
    <3>1. PlaceMovement(Movement("BID", p, -cost, p, cost, 0, 0, cur))
      BY <1>3, <1>5, <1>6, <2>1 DEF BidMovement
    <3>2. QED
      BY <1>4, <3>1, MovementTakes
  <2>2. CASE type # "BUY"
    BY <1>6, <2>2, NothingTaken
  <2>3. QED
    BY <2>1, <2>2
<1>8. QED
  BY <1>6, <1>7, BooksKept

LEMMA MatchBooks ==
  ASSUME TypeOK, Books, SomeMatch
  PROVE  Books'
<1>1. PICK stamp \in Stamps, b1 \in BidIds, b2 \in BidIds, t \in TxIds :
        MatchBids(stamp, b1, b2, t)
  BY DEF SomeMatch
<1>2. PICK new \in Transaction, buyerBid \in Bid :
        new = NewTx(stamp, b1, b2) /\ buyerBid = BuyerBid(b1, b2)
  BY <1>1, MatchFacts DEF BuyerBid
<1>3. /\ IF PriceDelta(new, buyerBid) > 0
         THEN PlaceMovement(DeltaMovement(new, buyerBid))
         ELSE UNCHANGED <<account, ledger>>
      /\ deposit' = deposit
  BY <1>1, <1>2, MatchFacts
<1>4. PICK p \in Participants, cur \in Currencies, delta \in Int :
        p = new.buyer /\ cur = new.cur /\ delta = PriceDelta(new, buyerBid)
  <2>1. PriceDelta(new, buyerBid) \in Int
    BY <1>2, CostType DEF PriceDelta
  <2>2. QED
    BY <1>2, <2>1 DEF Transaction
<1>5. -delta \in Int /\ 0 \in Int
  BY <1>4
<1>6. TakesFromWorld(0, cur)
  <2>1. CASE delta > 0
    <3>1. PlaceMovement(Movement("TRANSACTION", p, delta, p, -delta, 0, 0, cur))
      BY <1>3, <1>4, <2>1 DEF DeltaMovement
    <3>2. QED
      BY <1>4, <1>5, <3>1, MovementTakes
  <2>2. CASE ~(delta > 0)
    BY <1>3, <1>4, <2>2, NothingTaken
  <2>3. QED
    BY <2>1, <2>2
<1>7. QED
  BY <1>3, <1>6, BooksKept

LEMMA RetireBidBooks ==
  ASSUME TypeOK, TasksKnown, Books, NEW b \in bidTasks, RetireBid(b)
  PROVE  Books'
<1>1. bid[b] \in Bid
  BY DEF TypeOK, TasksKnown, Known
<1>2. PICK p \in Participants, cur \in Currencies, cost \in Nat :
        p = bid[b].participant /\ cur = bid[b].cur /\ cost = Cost(bid[b])
  BY <1>1, CostType DEF Bid
<1>3. cost \in Int /\ -cost \in Int /\ 0 \in Int
  BY <1>2
<1>4. deposit' = deposit
  BY DEF RetireBid
<1>5. CASE UNCHANGED <<account, ledger>>
  BY <1>4, <1>5, NothingTaken, BooksKept
<1>6. CASE PlaceMovement(BidReimbursement(bid[b]))
  <2>1. PlaceMovement(Movement("BID_REIMBURSE", p, cost, p, -cost, 0, 0, cur))
    BY <1>2, <1>6 DEF BidReimbursement
  <2>2. TakesFromWorld(0, cur)
    BY <1>3, <2>1, MovementTakes
  <2>3. QED
    BY <1>4, <2>2, BooksKept
<1>7. QED
  BY <1>5, <1>6 DEF RetireBid

LEMMA RetireTxBooks ==
  ASSUME TypeOK, TasksKnown, Books, NEW task \in txTasks, RetireTransaction(task)
  PROVE  Books'
<1>1. PICK t \in TxIds : t = task[1]
  BY DEF TypeOK
<1>2. tx[t] \in Transaction
  BY <1>1 DEF TypeOK, TasksKnown, Exists
<1>3. PICK p \in Participants, s \in Participants, cur \in Currencies,
           cost \in Nat, price \in Nat, fee \in Nat :
        /\ p = tx[t].buyer /\ s = tx[t].seller /\ cur = tx[t].cur
        /\ cost = Cost(tx[t]) /\ price = tx[t].price /\ fee = tx[t].fee
  BY <1>2, CostType DEF Transaction
<1>4. cost \in Int /\ -cost \in Int /\ price \in Int /\ fee \in Int /\ 0 \in Int
  BY <1>3
<1>5. deposit' = deposit
  BY DEF RetireTransaction
<1>6. CASE UNCHANGED <<account, ledger>>
  BY <1>5, <1>6, NothingTaken, BooksKept
<1>7. CASE PlaceMovement(SettlementMovement(tx[t]))
  <2>1. \/ PlaceMovement(Movement("TRANSACTION_FINISH", s, price, p, -cost, fee, 0, cur))
        \/ PlaceMovement(Movement("TRANSACTION_REIMBURSE", p, cost, p, -cost, 0, 0, cur))
    BY <1>3, <1>7 DEF SettlementMovement
  <2>2. TakesFromWorld(0, cur)
    BY <1>3, <1>4, <2>1, MovementTakes
  <2>3. QED
    BY <1>5, <2>2, BooksKept
<1>8. QED
  BY <1>1, <1>6, <1>7 DEF RetireTransaction

LEMMA InitBooks == Init => Books
<1> SUFFICES ASSUME Init, NEW c \in Currencies
             PROVE  Balance(c) = 0 /\ ledger[c].world = -Total(PaidIn(c), DepositUids)
  BY DEF Books
<1>1. /\ {} \in SUBSET Participants /\ {} \in SUBSET DepositUids
      /\ \A p \in Participants : Worths(account, c)[p] = 0
      /\ \A u \in DepositUids : PaidIn(c)[u] = 0
  BY DEF Init, Worths, Worth, EmptyAccount, PaidIn, Paid
<1>2. Total(Worths(account, c), {}) = Total(Worths(account, c), Participants)
  BY <1>1, TotalSame
<1>3. Total(PaidIn(c), {}) = Total(PaidIn(c), DepositUids)
  BY <1>1, TotalSame
<1>4. Wealth(account, c) = 0 /\ Total(PaidIn(c), DepositUids) = 0
  BY <1>2, <1>3, TotalEmpty DEF Wealth
<1>5. QED
  BY <1>4 DEF Init, Balance

\* The books are kept by every step; they need no more than typed accounts and
\* tasks for bids and transactions that exist.
LEMMA StepBooks == TypeOK /\ TypeOK' /\ TasksKnown /\ Books /\ [Next]_vars => Books'
<1> SUFFICES ASSUME TypeOK, TypeOK', TasksKnown, Books, [Next]_vars PROVE Books'
  OBVIOUS
<1>1. CASE SomeMessage \/ (\E b \in BidIds : PlaceBid(b)) \/ Tick \/ UNCHANGED vars
  <2>1. account' = account /\ ledger' = ledger /\ deposit' = deposit
    BY <1>1 DEF SomeMessage, UpdateTransaction, PlaceBid, Tick, vars
  <2>2. TakesFromWorld(0, DefaultCurrency)
    BY <2>1, NothingTaken
  <2>3. QED
    BY <2>1, <2>2, BooksKept
<1>2. QED
  BY <1>1, DepositBooks, EnqueueBooks, MatchBooks, RetireBidBooks, RetireTxBooks DEF Next

\* In every currency what the participants have, the site's fees and the rest
\* of the world sum up to zero, and the world gave the deposits recorded.
THEOREM MoneyNeverLost == Spec => []MoneyConserved
<1>1. Init => IInv /\ Books
  BY InitIInv, InitBooks
<1>2. IInv /\ Books /\ [Next]_vars => (IInv /\ Books)'
  <2> SUFFICES ASSUME IInv, Books, [Next]_vars PROVE (IInv /\ Books)'
    OBVIOUS
  <2>1. IInv'
    BY StepIInv
  <2>2. TypeOK /\ TypeOK' /\ TasksKnown
    BY <2>1 DEF IInv, RetirementScheduled
  <2>3. QED
    BY <2>1, <2>2, StepBooks
<1>3. IInv /\ Books => MoneyConserved
  BY BooksAreSums DEF IInv
<1>4. QED
  BY <1>1, <1>2, <1>3, PTL DEF Spec
=============================================================================
