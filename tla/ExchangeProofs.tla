--------------------------- MODULE ExchangeProofs ---------------------------
(***************************************************************************)
(* Proofs about the exchange, for any number of bids, transactions, passes *)
(* and mishaps and any clock: it is a Market, so all that MarketProofs     *)
(* says holds of it; and it implements OrderBook, although the tasks the   *)
(* matching makes are applied later, partly, twice or not at all.          *)
(***************************************************************************)
EXTENDS Exchange, MarketProofs, FiniteSetTheorems, SequenceTheorems

\* What is proved about HotZone, for the hot zone of the exchange.  The module
\* is about Batch as well, of which there is none here: no request comes in.
M == INSTANCE MatchingProofs WITH
  Keys <- BidIds, HotPrices <- Prices \cap Nat, BidLife <- BidTimeout,
  LastArrival <- LastEnqueue, HotMaxTime <- MaxTime, HotMaxLag <- MaxLag,
  arrived <- {HotBidOf(b) : b \in {b \in BidIds : Known(b)}},
  Handlers <- {}, Bids <- {}, LeavesAtOnce <- FALSE, MayEvict <- FALSE,
  LeaseLimit <- 1, MaxFailures <- 0,
  semaphore <- 0, pc <- <<>>, made <- {}, queue <- {}, hidden <- {}, leased <- <<>>,
  processed <- {}, failures <- 0, leaks <- 0, forgotten <- FALSE, overflowed <- FALSE

-----------------------------------------------------------------------------
(***************************************************************************)
(* The hot zone of Exchange and the one of MatchingProofs are the same.    *)
(***************************************************************************)
\* What MatchingProofs assumes of its constants.
LEMMA Assumed ==
  /\ M!IsFiniteSet({}) /\ NoBid \notin {} /\ FALSE \in BOOLEAN /\ 0 \in Nat /\ 1 \in Nat \ {0}
  /\ Prices \cap Nat \subseteq Nat
  /\ BidTimeout \in Nat \ {0} /\ LeaseTime \in Nat \ {0} /\ MaxLease \in Nat \ {0}
  /\ MaxMishaps \in Nat
  /\ LastEnqueue \in Nat /\ MaxTime \in Nat /\ MaxLag \in Nat
<1>1. M!IsFiniteSet({})
  BY FS_EmptySet DEF M!IsFiniteSet, IsFiniteSet
<1>2. QED
  BY <1>1, BidAssumption, MarketAssumption, ExchangeAssumption

LEMMA SamePass ==
  ASSUME NEW w \in Passes
  PROVE  HZ!PassStep(w) <=> M!PassStep(w)
  BY DEF HZ!EmptyQueue, M!EmptyQueue, HZ!Idle, M!Idle,
     HZ!IsFiniteSet, M!IsFiniteSet, HZ!Cardinality, M!Cardinality,
     HZ!SetToSeqs, M!SetToSeqs, HZ!Range, M!Range, HZ!Available, M!Available,
     HZ!HotterThan, M!HotterThan, HZ!Other, M!Other,
     HZ!QueryOrders, M!QueryOrders, HZ!HeapTops, M!HeapTops,
     HZ!StoredFirst, M!StoredFirst, HZ!Tips, M!Tips, HZ!Popped, M!Popped,
     HZ!IsMatch, M!IsMatch, HZ!Expired, M!Expired, HZ!Matching, M!Matching,
     HZ!Incoming, M!Incoming, HZ!OtherQueue, M!OtherQueue,
     HZ!CachedBids, M!CachedBids, HZ!Persisted, M!Persisted,
     HZ!Remaining, M!Remaining, HZ!Ended, M!Ended, HZ!Lease, M!Lease,
     HZ!Begin, M!Begin, HZ!SkipExpired, M!SkipExpired, HZ!Match, M!Match,
     HZ!Insert, M!Insert, HZ!Commit, M!Commit, HZ!Fail, M!Fail,
     HZ!DeleteTasks, M!DeleteTasks, HZ!Crash, M!Crash,
     HZ!PassStep, M!PassStep

LEMMA SameIdle == HZ!Idle = M!Idle
  BY DEF HZ!Idle, M!Idle, HZ!EmptyQueue, M!EmptyQueue

LEMMA SameTick == HZ!Tick <=> M!Tick
  BY DEF HZ!Tick, M!Tick

-----------------------------------------------------------------------------
(***************************************************************************)
(* The bids as hot bids.                                                   *)
(***************************************************************************)
HotBids == {HotBidOf(b) : b \in {b \in BidIds : Known(b)}}

\* Same bids, same hot bids.
LEMMA SameHotBids ==
  ASSUME \A b \in BidIds : /\ Known(b)' <=> Known(b)
                           /\ Known(b) => SameDeal(bid[b]', bid[b])
  PROVE  UNCHANGED HotBids
<1>1. \A b \in BidIds : Known(b) => HotBidOf(b)' = HotBidOf(b)
  BY DEF HotBidOf, SameDeal
<1>2. QED
  BY <1>1 DEF HotBids

\* The steps of the market but EnqueueBid and MatchBids, and none.
KeepsOffers ==
  \/ SomeDeposit \/ SomeMessage \/ Tick
  \/ \E b \in BidIds : PlaceBid(b)
  \/ \E b \in bidTasks : RetireBid(b)
  \/ \E task \in txTasks : RetireTransaction(task)
  \/ UNCHANGED vars

MakesNoBid == SomeMatch \/ KeepsOffers

\* None of them changes what a bid is about.
LEMMA SameDeals ==
  ASSUME TypeOK, TasksKnown, MakesNoBid, NEW b \in BidIds
  PROVE  /\ Known(b)' <=> Known(b)
         /\ Known(b) => SameDeal(bid[b]', bid[b])
<1> USE DEF Known
<1>0. \A n : SameDeal(n, n)
  BY DEF SameDeal
<1>1. NoBid \notin Bid /\ bid \in [BidIds -> Bid \cup {NoBid}]
  BY NilAssumption DEF TypeOK
<1>2. CASE bid' = bid
  BY <1>0, <1>2
<1>3. ASSUME NEW c \in BidIds, PlaceBid(c)
      PROVE  (Known(b)' <=> Known(b)) /\ (Known(b) => SameDeal(bid[b]', bid[b]))
  BY <1>0, <1>1, <1>3, PlaceEffect
<1>4. ASSUME NEW c \in bidTasks, RetireBid(c)
      PROVE  (Known(b)' <=> Known(b)) /\ (Known(b) => SameDeal(bid[b]', bid[b]))
  BY <1>0, <1>1, <1>2, <1>4, RetireBidEffect DEF TasksKnown
<1>5. CASE SomeMatch
  <2>1. PICK stamp \in Stamps, b1 \in BidIds, b2 \in BidIds, t \in TxIds :
          MatchBids(stamp, b1, b2, t)
    BY <1>5 DEF SomeMatch
  <2>2. PICK n1 \in Bid, n2 \in Bid :
          /\ bid' = [bid EXCEPT ![b1] = n1, ![b2] = n2]
          /\ SameDeal(n1, bid[b1]) /\ SameDeal(n2, bid[b2])
    BY <2>1, MatchEffect
  <2>3. bid[b1] \in Bid /\ bid[b2] \in Bid
    BY <2>1, MatchFacts
  <2>4. QED
    BY <1>0, <1>1, <2>2, <2>3
<1>6. CASE SomeMessage
  BY <1>2, <1>6, UpdateEffect DEF SomeMessage
<1>7. ASSUME NEW task \in txTasks, RetireTransaction(task)
      PROVE  bid' = bid
  BY <1>7 DEF RetireTransaction
<1>8. CASE SomeDeposit \/ Tick \/ UNCHANGED vars
  BY <1>2, <1>8 DEF SomeDeposit, PlaceDeposit, Tick, vars
<1>9. QED
  BY <1>2, <1>3, <1>4, <1>5, <1>6, <1>7, <1>8 DEF MakesNoBid, KeepsOffers

LEMMA HotBidsKept ==
  ASSUME TypeOK, TasksKnown, MakesNoBid
  PROVE  UNCHANGED HotBids
  BY SameDeals, SameHotBids

-----------------------------------------------------------------------------
(***************************************************************************)
(* The inductive invariant.  The bids a task names are in the database,    *)
(* which takes the types of all queues on the way from MakeBid to the      *)
(* task; and an order book needs that prices are those bids are made with. *)
(***************************************************************************)
PricesKnown == \A b \in BidIds : Known(b) => bid[b].price \in Prices

MarketInv == IInv /\ PricesKnown /\ now <= MaxTime

QueuesTyped ==
  /\ M!HotTypeOK /\ M!HotFinite
  /\ places \subseteq M!HotBid /\ pairs \in Seq(M!Pair)

\* What the tasks and the matching are about are bids of the database, as they
\* are there, and the bids of a pair meet.
QueuesSound ==
  /\ M!Known /\ M!OneMatching /\ M!PairsMeet
  /\ M!AllMeet(pairs) /\ \A i \in DOMAIN pairs : M!Both(pairs[i]) \subseteq HotBids

\* The first pair becomes a transaction.
PairMatched ==
  \E b1, b2 \in BidIds, stamp \in Stamps, t \in TxIds :
    /\ b1 = Head(pairs)[1].key /\ b2 = Head(pairs)[2].key
    /\ MatchBids(stamp, b1, b2, t)

\* Every step is one of the market, and the keys it takes are keys of bids.
LEMMA StepIsMarket ==
  ASSUME QueuesTyped, [ExchangeNext]_exchangeVars
  PROVE  (MakeBid /\ SomeBid) \/ (ApplyMatch /\ PairMatched) \/ KeepsOffers
<1> USE DEF KeepsOffers
<1>1. CASE MakeBid
  BY <1>1 DEF MakeBid, SomeBid
<1>2. CASE RunPass \/ StartApply \/ EndApply \/ ApplyDies \/ UNCHANGED exchangeVars
  BY <1>2 DEF RunPass, StartApply, EndApply, ApplyDies, exchangeVars
<1>3. CASE ApplyPlace
  <2>1. PICK h \in places : PlaceBid(h.key) \/ UNCHANGED vars
    BY <1>3 DEF ApplyPlace, TransactionFails
  <2>2. h.key \in BidIds
    BY DEF QueuesTyped, M!HotBid
  <2>3. QED
    BY <2>1, <2>2
<1>4. CASE ApplyMatch
  <2> DEFINE pair == Head(pairs)
  <2>1. \/ \E t \in TxIds : MatchBids(applying.stamp, pair[1].key, pair[2].key, t)
        \/ UNCHANGED vars
    BY <1>4 DEF ApplyMatch, TransactionFails
  <2>2. pair \in M!HotBid \X M!HotBid
    BY <1>4 DEF ApplyMatch, QueuesTyped, M!Pair
  <2> HIDE DEF pair
  <2>3. pair[1].key \in BidIds /\ pair[2].key \in BidIds
    BY <2>2 DEF M!HotBid
  <2>4. ASSUME NEW t \in TxIds, MatchBids(applying.stamp, pair[1].key, pair[2].key, t)
        PROVE  applying.stamp \in Stamps
    BY <2>4 DEF MatchBids
  <2>5. QED
    BY <1>4, <2>1, <2>3, <2>4 DEF PairMatched, pair
<1>5. CASE RetireSomething \/ SomeoneElse \/ TimePasses
  BY <1>5 DEF RetireSomething, SomeoneElse, TimePasses
<1>6. QED
  BY <1>1, <1>2, <1>3, <1>4, <1>5 DEF ExchangeNext

-----------------------------------------------------------------------------
(***************************************************************************)
(* What a step does to the hot zone: a step of HotZone, or one that is     *)
(* aside, where a task of the matching is done with, for good or to be run *)
(* again.                                                                  *)
(***************************************************************************)
HotStep == M!HotNext \/ UNCHANGED M!hotVars

Aside ==
  /\ UNCHANGED <<now, hotTasks, zone, pass, overruns>> /\ UNCHANGED HotBids
  /\ applyTasks' \subseteq applyTasks
  /\ fails' \in {fails, fails + 1} /\ (fails' # fails => fails + overruns < MaxMishaps)

LEMMA MakeBidArrives ==
  ASSUME TypeOK, now <= MaxTime, MakeBid
  PROVE  HotStep /\ HotBids \subseteq HotBids'
<1>1. PICK b \in BidIds, type \in BidTypes, article \in Articles, price \in Prices,
           c \in Currencies, p \in Participants, stamp \in Stamps :
        /\ EnqueueBid(b, type, article, price, c, p, stamp)
        /\ HZ!AddHotTask([key |-> b, type |-> type, price |-> price,
                          expires |-> stamp + BidTimeout])
  BY DEF MakeBid
<1> DEFINE new == NewBid(type, article, price, c, p, stamp)
           expires == stamp + BidTimeout
           h == [key |-> b, type |-> type, price |-> price, expires |-> expires]
<1>2. /\ new \in Bid
      /\ new.type = type /\ new.price = price /\ new.expires = expires
  BY <1>1, NewBidType DEF EnqueueBid, TypeOK, Stamps, NewBid
<1>3. ~Known(b) /\ bid' = [bid EXCEPT ![b] = new] /\ now' = now /\ now <= LastEnqueue
  BY <1>1 DEF EnqueueBid
<1>4. price \in Prices \cap Nat
  BY <1>1, MarketAssumption DEF EnqueueBid, PriceAllowed
<1>5. stamp \in 0 .. now /\ now <= stamp + MaxLag /\ now \in Nat
  BY DEF Stamps, TypeOK
<1>6. expires \in 0 .. MaxTime + BidTimeout
  BY <1>5, BidAssumption, MarketAssumption
<1>7. type \in M!Sides
  BY DEF M!Sides, BidTypes
<1> HIDE DEF new
<1>8. HotBids' = HotBids \cup {h}
  <2>1. bid'[b] = new /\ new # NoBid /\ \A d \in BidIds \ {b} : bid'[d] = bid[d]
    BY <1>2, <1>3, NilAssumption DEF TypeOK
  <2>2. HotBidOf(b)' = h /\ Known(b)'
    BY <1>2, <2>1 DEF HotBidOf, Known
  <2>3. \A d \in BidIds \ {b} : (Known(d)' <=> Known(d)) /\ HotBidOf(d)' = HotBidOf(d)
    BY <2>1 DEF HotBidOf, Known
  <2> HIDE DEF h
  <2>4. QED
    BY <1>3, <2>2, <2>3 DEF HotBids
<1>9. \A known \in HotBids : known.key # h.key
  BY <1>3 DEF HotBids, HotBidOf
<1>10. hotTasks' = hotTasks \cup {[bid |-> h, free |-> now]}
       /\ UNCHANGED <<zone, pass, applyTasks, fails, overruns>>
  BY <1>1 DEF MakeBid, HZ!AddHotTask
<1>11. h.expires = stamp + BidTimeout
  OBVIOUS
<1>12. M!Arrive(h)
  <2> HIDE DEF h
  <2>1. QED
    BY <1>3, <1>5, <1>8, <1>9, <1>10, <1>11 DEF M!Arrive, M!AddHotTask, HotBids
<1>13. M!HotNext
  BY <1>4, <1>6, <1>7, <1>12 DEF M!HotNext
<1>14. QED
  BY <1>8, <1>13 DEF HotStep

\* No bid is forgotten.
LEMMA HotBidsGrow ==
  ASSUME MarketInv, QueuesTyped, [ExchangeNext]_exchangeVars
  PROVE  HotBids \subseteq HotBids'
<1>1. TypeOK /\ TasksKnown /\ now <= MaxTime
  BY DEF MarketInv, IInv, RetirementScheduled
<1>2. CASE MakeBid
  BY <1>1, <1>2, MakeBidArrives
<1>3. CASE ~MakeBid
  BY <1>1, <1>3, StepIsMarket, HotBidsKept DEF PairMatched, SomeMatch, MakesNoBid
<1>4. QED
  BY <1>2, <1>3

LEMMA StepHot ==
  ASSUME MarketInv, QueuesTyped, [ExchangeNext]_exchangeVars
  PROVE  HotStep \/ Aside
<1>1. TypeOK /\ TasksKnown /\ now <= MaxTime
  BY DEF MarketInv, IInv, RetirementScheduled
<1>2. ASSUME ~MakeBid
      PROVE  UNCHANGED HotBids
  BY <1>1, <1>2, StepIsMarket, HotBidsKept DEF PairMatched, SomeMatch, MakesNoBid
<1>3. CASE MakeBid
  BY <1>1, <1>3, MakeBidArrives
<1>4. CASE RunPass
  <2>1. PICK w \in Passes : M!PassStep(w)
    BY <1>4, SamePass DEF RunPass
  <2>2. QED
    BY <2>1 DEF HotStep, M!HotNext
<1>5. CASE TimePasses
  BY <1>5, SameTick DEF TimePasses, HotStep, M!HotNext
<1>6. CASE StartApply \/ EndApply \/ ApplyDies \/ UNCHANGED exchangeVars
  <2>1. UNCHANGED vars
    BY <1>6 DEF StartApply, EndApply, ApplyDies, exchangeVars
  <2>2. UNCHANGED HotBids
    BY <2>1 DEF vars, HotBids, HotBidOf, Known
  <2>3. QED
    BY <1>6, <2>1, <2>2 DEF StartApply, EndApply, ApplyDies, exchangeVars, Aside, vars
<1>7. CASE ~MakeBid /\ (ApplyPlace \/ ApplyMatch \/ RetireSomething \/ SomeoneElse)
  <2>1. now' = now
    BY <1>7 DEF ApplyPlace, ApplyMatch, RetireSomething, SomeoneElse, TransactionFails, vars,
       PlaceBid, MatchBids, RetireBid, RetireTransaction, SomeDeposit, PlaceDeposit,
       SomeMessage, UpdateTransaction
  <2>2. UNCHANGED HotBids
    BY <1>2, <1>7
  <2>3. QED
    BY <1>7, <2>1, <2>2 DEF ApplyPlace, ApplyMatch, RetireSomething, SomeoneElse,
       TransactionFails, Aside
<1>8. QED
  BY <1>3, <1>4, <1>5, <1>6, <1>7 DEF ExchangeNext

\* A step aside keeps the types of the hot zone.
LEMMA AsideTyped ==
  ASSUME M!HotTypeOK, M!HotFinite, Aside
  PROVE  M!HotTypeOK' /\ M!HotFinite'
<1>1. now' \in Nat /\ HotBids' \subseteq M!HotBid
  BY DEF Aside, M!HotTypeOK, HotBids
<1>2. fails' \in 0 .. MaxMishaps /\ overruns' \in 0 .. MaxMishaps
  BY ExchangeAssumption DEF Aside, M!HotTypeOK
<1>3. UNCHANGED <<hotTasks, zone, pass>> /\ applyTasks' \subseteq applyTasks
  BY DEF Aside
<1>4. M!HotTypeOK'
  BY <1>1, <1>2, <1>3 DEF M!HotTypeOK, HotBids
<1>5. M!HotFinite'
  BY <1>3 DEF M!HotFinite
<1>6. QED
  BY <1>4, <1>5

LEMMA StepMarketInv ==
  ASSUME MarketInv, [Next]_vars
  PROVE  MarketInv'
<1>1. IInv' /\ TypeOK /\ TasksKnown /\ TypeOK'
  BY StepIInv DEF MarketInv, IInv, RetirementScheduled
<1>2. now' <= MaxTime
  <2>1. CASE Tick
    BY <1>1, <2>1, MarketAssumption DEF TypeOK, Tick
  <2>2. CASE SomeBid
    BY <2>2 DEF SomeBid, EnqueueBid, MarketInv
  <2>3. CASE SomeMatch
    BY <2>3 DEF SomeMatch, MatchBids, MarketInv
  <2>4. CASE SomeDeposit \/ SomeMessage \/ UNCHANGED vars
    BY <2>4 DEF SomeDeposit, PlaceDeposit, SomeMessage, UpdateTransaction, vars, MarketInv
  <2>5. QED
    BY <2>1, <2>2, <2>3, <2>4 DEF Next, PlaceBid, RetireBid, RetireTransaction, MarketInv
<1>3. PricesKnown'
  <2>1. CASE SomeBid
    <3>1. PICK b \in BidIds, type \in BidTypes, article \in Articles, price \in Prices,
               c \in Currencies, p \in Participants, stamp \in Stamps :
                 EnqueueBid(b, type, article, price, c, p, stamp)
      BY <2>1 DEF SomeBid
    <3>2. bid' = [bid EXCEPT ![b] = NewBid(type, article, price, c, p, stamp)]
      BY <3>1 DEF EnqueueBid
    <3>3. NewBid(type, article, price, c, p, stamp).price = price
      BY DEF NewBid
    <3>4. QED
      BY <1>1, <3>2, <3>3 DEF TypeOK, MarketInv, PricesKnown, Known
  <2>2. CASE MakesNoBid
    <3>1. \A b \in BidIds : Known(b)' => Known(b) /\ bid[b]'.price = bid[b].price
      BY <1>1, <2>2, SameDeals DEF SameDeal
    <3>2. QED
      BY <3>1 DEF PricesKnown, MarketInv
  <2>3. QED
    BY <2>1, <2>2 DEF Next, MakesNoBid, KeepsOffers
<1>4. QED
  BY <1>1, <1>2, <1>3 DEF MarketInv

LEMMA StepQueues ==
  ASSUME MarketInv, QueuesTyped, [ExchangeNext]_exchangeVars
  PROVE  MarketInv' /\ QueuesTyped'
<1>1. [Next]_vars
  BY StepIsMarket DEF Next, PairMatched, SomeMatch, KeepsOffers
<1>2. MarketInv'
  BY <1>1, StepMarketInv
<1>3. M!HotTypeOK' /\ M!HotFinite'
  <2>1. CASE HotStep
    BY <2>1, Assumed, M!HotStepTyped DEF HotStep, QueuesTyped
  <2>2. CASE Aside
    BY <2>2, AsideTyped DEF QueuesTyped
  <2>3. QED
    BY <2>1, <2>2, StepHot
<1>4. places' \subseteq M!HotBid /\ pairs' \in Seq(M!Pair)
  <2>1. CASE StartApply
    <3>1. PICK task \in applyTasks : places' = task.placed /\ pairs' = task.matched
      BY <2>1 DEF StartApply
    <3>2. task \in M!ApplyTask
      BY DEF QueuesTyped, M!HotTypeOK
    <3>3. QED
      BY <3>1, <3>2 DEF M!ApplyTask
  <2>2. CASE ApplyMatch
    BY <2>2, HeadTailProperties DEF ApplyMatch, QueuesTyped
  <2>3. CASE ApplyDies
    BY <2>3 DEF ApplyDies
  <2>4. CASE ApplyPlace
    BY <2>4 DEF ApplyPlace, QueuesTyped
  <2>5. CASE MakeBid \/ RunPass \/ EndApply \/ RetireSomething \/ SomeoneElse \/ TimePasses
             \/ UNCHANGED exchangeVars
    BY <2>5 DEF MakeBid, RunPass, EndApply, RetireSomething, SomeoneElse, TimePasses,
       exchangeVars, QueuesTyped
  <2>6. QED
    BY <2>1, <2>2, <2>3, <2>4, <2>5 DEF ExchangeNext
<1>5. QED
  BY <1>2, <1>3, <1>4 DEF QueuesTyped

LEMMA StepSound ==
  ASSUME MarketInv, QueuesTyped, QueuesSound, [ExchangeNext]_exchangeVars
  PROVE  QueuesSound'
<1>1. (HotStep \/ Aside) /\ HotBids \subseteq HotBids'
  BY StepHot, HotBidsGrow
<1>2. M!Known' /\ M!OneMatching' /\ M!PairsMeet'
  <2>1. CASE HotStep
    BY <2>1, Assumed, M!HotStepKnown, M!HotStepMeet DEF HotStep, QueuesTyped, QueuesSound
  <2>2. CASE Aside
    <3>1. UNCHANGED <<hotTasks, zone, pass>> /\ UNCHANGED HotBids /\ applyTasks' \subseteq applyTasks
      BY <2>2 DEF Aside
    <3>2. M!Queued' = M!Queued /\ M!Hot' = M!Hot
      BY <3>1 DEF M!Queued, M!Hot
    <3>3. QED
      BY <3>1, <3>2 DEF QueuesSound, M!Known, M!OneMatching, M!PairsMeet, HotBids
  <2>3. QED
    BY <1>1, <2>1, <2>2
<1>3. M!AllMeet(pairs') /\ \A i \in DOMAIN pairs' : M!Both(pairs'[i]) \subseteq HotBids
  <2>1. CASE StartApply
    <3>1. PICK task \in applyTasks : pairs' = task.matched
      BY <2>1 DEF StartApply
    <3>2. M!AllMeet(task.matched) /\ M!MatchedBids(task.matched) \subseteq HotBids
      BY DEF QueuesSound, M!Known, M!PairsMeet, HotBids
    <3>3. QED
      BY <3>1, <3>2 DEF M!MatchedBids
  <2>2. CASE ApplyMatch
    <3>1. pairs \in Seq(M!Pair) /\ pairs # <<>> /\ pairs' = Tail(pairs)
      BY <2>2 DEF ApplyMatch, QueuesTyped
    <3>2. /\ Tail(pairs) \in Seq(M!Pair)
          /\ \A i \in 1 .. Len(Tail(pairs)) :
               Tail(pairs)[i] = pairs[i + 1] /\ i + 1 \in 1 .. Len(pairs)
      BY <3>1, Assumed, M!HeadTail
    <3>3. DOMAIN pairs = 1 .. Len(pairs) /\ DOMAIN Tail(pairs) = 1 .. Len(Tail(pairs))
      BY <3>1, <3>2, LenProperties
    <3>4. \A i \in DOMAIN pairs : M!Meet(pairs[i]) /\ M!Both(pairs[i]) \subseteq HotBids
      BY DEF QueuesSound, M!AllMeet
    <3>5. \A i \in DOMAIN pairs' : M!Meet(pairs'[i]) /\ M!Both(pairs'[i]) \subseteq HotBids
      BY <3>1, <3>2, <3>3, <3>4
    <3>6. QED
      BY <3>5 DEF M!AllMeet
  <2>3. CASE ApplyDies
    BY <2>3 DEF ApplyDies, M!AllMeet
  <2>4. CASE UNCHANGED pairs
    BY <2>4 DEF QueuesSound
  <2>5. QED
    BY <2>1, <2>2, <2>3, <2>4 DEF ExchangeNext, exchangeVars, MakeBid, RunPass, ApplyPlace,
       EndApply, RetireSomething, SomeoneElse, TimePasses
<1>4. QED
  BY <1>1, <1>2, <1>3 DEF QueuesSound

LEMMA InitMarketInv == Init => MarketInv
<1> SUFFICES ASSUME Init PROVE MarketInv
  OBVIOUS
<1>1. now <= MaxTime
  BY MarketAssumption DEF Init
<1>2. PricesKnown
  BY DEF Init, PricesKnown, Known
<1>3. QED
  BY <1>1, <1>2, InitIInv DEF MarketInv

LEMMA InitQueues == ExchangeInit => MarketInv /\ QueuesTyped
<1> SUFFICES ASSUME ExchangeInit PROVE MarketInv /\ QueuesTyped
  OBVIOUS
<1>1. MarketInv
  BY InitMarketInv DEF ExchangeInit
<1>2. HotBids = {}
  BY DEF ExchangeInit, Init, HotBids, Known
<1>3. M!HotInit
  BY <1>2, SameIdle DEF ExchangeInit, Init, HotBids, M!HotInit
<1>4. M!HotTypeOK /\ M!HotFinite
  BY <1>3, Assumed, M!HotInitTyped
<1>5. QED
  BY <1>1, <1>4 DEF ExchangeInit, QueuesTyped

LEMMA InitSound == ExchangeInit => QueuesSound
<1> SUFFICES ASSUME ExchangeInit PROVE QueuesSound
  OBVIOUS
<1>1. HotBids = {}
  BY DEF ExchangeInit, Init, HotBids, Known
<1>2. M!HotInit
  BY <1>1, SameIdle DEF ExchangeInit, Init, HotBids, M!HotInit
<1>3. M!Known /\ M!OneMatching /\ M!PairsMeet
  BY <1>2, Assumed, M!HotInitKnown, M!HotInitMeet
<1>4. QED
  BY <1>3 DEF ExchangeInit, QueuesSound, M!AllMeet

\* Whatever the matching decides and whenever a task applies it, a step of the
\* exchange is one of the market: its queues only choose when, so what is true
\* of accounts, bids and transactions there is true of them here.
THEOREM ExchangeIsMarket == ExchangeSpec => Spec
<1>1. ExchangeInit => MarketInv /\ QueuesTyped
  BY InitQueues
<1>2. MarketInv /\ QueuesTyped /\ [ExchangeNext]_exchangeVars => MarketInv' /\ QueuesTyped'
  BY StepQueues
<1>3. QueuesTyped /\ [ExchangeNext]_exchangeVars => [Next]_vars
  BY StepIsMarket DEF Next, PairMatched, SomeMatch, KeepsOffers
<1>4. ExchangeInit => Init
  BY DEF ExchangeInit
<1>5. QED
  BY <1>1, <1>2, <1>3, <1>4, PTL DEF ExchangeSpec, Spec

-----------------------------------------------------------------------------
(***************************************************************************)
(* Offers and trades: the bids and transactions as OrderBook sees them.    *)
(***************************************************************************)
Offer == [b \in BidIds |-> OfferOf(b)]

TradeOf(t) == <<tx[t].buyerBid, tx[t].sellerBid, tx[t].price>>

Trades == {TradeOf(t) : t \in {t \in TxIds : Exists(t)}}

BookStep == Book!Next \/ UNCHANGED Book!bookVars

\* A bid that may be matched is an open offer.
LEMMA OpenOffer ==
  ASSUME TypeOK, PricesKnown, NEW b \in BidIds, Known(b)
  PROVE  /\ Offer[b] # NoBid
         /\ Offer[b].type = bid[b].type /\ Offer[b].price = bid[b].price
         /\ Unmatched(bid[b]) => Offer[b].state = "OPEN"
<1>1. bid[b] \in Bid /\ bid[b].price \in Prices
  BY DEF TypeOK, Known, PricesKnown
<1>2. Offer[b] = OfferOf(b)
  BY DEF Offer
<1>3. /\ OfferOf(b) \in [type : BidTypes, price : Prices, state : {"OPEN", "TRADED", "WITHDRAWN"}]
      /\ OfferOf(b).type = bid[b].type /\ OfferOf(b).price = bid[b].price
      /\ Unmatched(bid[b]) => OfferOf(b).state = "OPEN"
  BY <1>1 DEF OfferOf, Bid, BidStates, Unmatched
<1>4. QED
  BY <1>2, <1>3, OfferAssumption

\* A bid that is what it was, and as open as it was, is the same offer.
SameOffer(b) ==
  /\ Known(b)' <=> Known(b)
  /\ Known(b) => /\ SameDeal(bid[b]', bid[b])
                 /\ Unmatched(bid[b])' <=> Unmatched(bid[b])
                 /\ bid[b]'.state # bid[b].state => Unmatched(bid[b])

LEMMA OfferKept ==
  ASSUME NEW b \in BidIds, SameOffer(b)
  PROVE  Offer'[b] = Offer[b]
  BY DEF SameOffer, Offer, OfferOf, SameDeal, Unmatched

LEMMA OffersKept ==
  ASSUME \A b \in BidIds : SameOffer(b)
  PROVE  UNCHANGED Offer
<1>1. \A b \in BidIds : Offer'[b] = Offer[b]
  BY OfferKept
<1>2. QED
  BY <1>1 DEF Offer

\* A transaction never changes what it is about.
LEMMA TradesKept ==
  ASSUME \A t \in TxIds : /\ Exists(t)' <=> Exists(t)
                          /\ Exists(t) => SameParties(tx[t]', tx[t])
  PROVE  UNCHANGED Trades
<1>1. \A t \in TxIds : Exists(t) => TradeOf(t)' = TradeOf(t)
  BY DEF TradeOf, SameParties
<1>2. QED
  BY <1>1 DEF Trades

\* Two bids of a pair accept the price of either.
LEMMA PairAccepts ==
  ASSUME QueuesTyped, QueuesSound, pairs # <<>>, NEW b1 \in BidIds, NEW b2 \in BidIds,
         b1 = Head(pairs)[1].key, b2 = Head(pairs)[2].key
  PROVE  IF bid[b1].type = "BUY" THEN bid[b2].price <= bid[b1].price
                                 ELSE bid[b1].price <= bid[b2].price
<1> DEFINE h1 == Head(pairs)[1]
           h2 == Head(pairs)[2]
<1>1. /\ pairs[1] = Head(pairs) /\ 1 \in DOMAIN pairs /\ Head(pairs) \in M!Pair
  BY DEF QueuesTyped
<1>2. h1 \in M!HotBid /\ h2 \in M!HotBid
  BY <1>1 DEF M!Pair
<1>3. M!Meet(Head(pairs)) /\ M!Both(Head(pairs)) \subseteq HotBids
  BY <1>1 DEF QueuesSound, M!AllMeet
<1>4. h1 \in HotBids /\ h2 \in HotBids
  BY <1>3 DEF M!Both
<1>5. h2.type = M!Other(h1.type) /\ M!HotterThan(h2, h1)
  BY <1>3 DEF M!Meet, M!IsMatch
<1>6. h1.key = b1 /\ h2.key = b2
  OBVIOUS
<1> HIDE DEF h1, h2
<1>7. h1.type = bid[b1].type /\ h1.price = bid[b1].price /\ h2.price = bid[b2].price
  BY <1>4, <1>6 DEF HotBids, HotBidOf
<1>8. h1.price \in Nat /\ h2.price \in Nat /\ h1.type \in {"BUY", "SELL"}
  BY <1>2 DEF M!HotBid, M!Sides
<1>9. QED
  BY <1>5, <1>7, <1>8 DEF M!HotterThan, M!Other

-----------------------------------------------------------------------------
(***************************************************************************)
(* Step by step.                                                           *)
(***************************************************************************)
\* EnqueueBid is Make.
LEMMA MakeIsMake ==
  ASSUME TypeOK, PricesKnown, SomeBid
  PROVE  BookStep
<1>1. PICK b \in BidIds, type \in BidTypes, article \in Articles, price \in Prices,
           c \in Currencies, p \in Participants, stamp \in Stamps :
             EnqueueBid(b, type, article, price, c, p, stamp)
  BY DEF SomeBid
<1> DEFINE new == NewBid(type, article, price, c, p, stamp)
           made == [type |-> type, price |-> price, state |-> "OPEN"]
<1>2. ~Known(b) /\ bid' = [bid EXCEPT ![b] = new] /\ tx' = tx
  BY <1>1 DEF EnqueueBid
<1>3. new \in Bid /\ new.type = type /\ new.price = price /\ new.state = "INQUEUE"
  BY <1>1, NewBidType DEF EnqueueBid, TypeOK, Stamps, NewBid
<1> HIDE DEF new
<1>4. bid'[b] = new /\ new # NoBid /\ \A d \in BidIds \ {b} : bid'[d] = bid[d]
  BY <1>2, <1>3, NilAssumption DEF TypeOK
<1>5. Offer[b] = NoBid
  BY <1>2 DEF Offer, OfferOf
<1>6. Offer'[b] = made
  BY <1>3, <1>4 DEF Offer, OfferOf, Known
<1>7. \A d \in BidIds \ {b} : Offer'[d] = Offer[d]
  BY <1>4 DEF Offer, OfferOf, Known
<1>8. Offer' = [Offer EXCEPT ![b] = made]
  BY <1>6, <1>7 DEF Offer
<1>9. Trades' = Trades
  BY <1>2 DEF Trades, TradeOf, Exists
<1>10. Book!Make(b)
  BY <1>5, <1>8, <1>9 DEF Book!Make, Offer, Trades, TradeOf, BidTypes
<1>11. QED
  BY <1>10 DEF BookStep, Book!Next

\* The retirement of a bid is Withdraw, unless the bid is no longer open.
LEMMA ExpiryIsWithdraw ==
  ASSUME TypeOK, PricesKnown, TasksKnown, NEW b \in bidTasks, RetireBid(b)
  PROVE  BookStep
<1>1. Known(b) /\ b \in BidIds /\ bid[b] \in Bid
  BY RetireBidEffect DEF TasksKnown
<1>2. tx' = tx
  BY <1>1, RetireBidEffect
<1>3. Trades' = Trades
  BY <1>2 DEF Trades, TradeOf, Exists
<1>4. CASE Unmatched(bid[b])
  <2>1. PICK n \in Bid : /\ n.state = "EXPIRED" /\ SameDeal(n, bid[b])
                         /\ bid' = [bid EXCEPT ![b] = n]
    BY <1>1, <1>4, RetireBidEffect
  <2>2. bid'[b] = n /\ n # NoBid /\ \A d \in BidIds \ {b} : bid'[d] = bid[d]
    BY <1>1, <2>1, NilAssumption DEF TypeOK
  <2>3. /\ Offer[b] # NoBid /\ Offer[b].state = "OPEN"
        /\ Offer[b] = [type |-> bid[b].type, price |-> bid[b].price, state |-> "OPEN"]
    BY <1>1, <1>4, OpenOffer DEF Offer, OfferOf, Unmatched
  <2>4. Offer'[b] = [type |-> bid[b].type, price |-> bid[b].price, state |-> "WITHDRAWN"]
    BY <1>1, <2>1, <2>2 DEF Offer, OfferOf, Known, SameDeal
  <2>5. \A d \in BidIds \ {b} : Offer'[d] = Offer[d]
    BY <2>2 DEF Offer, OfferOf, Known
  <2>6. Offer' = [Offer EXCEPT ![b].state = "WITHDRAWN"]
    <3>1. [Offer[b] EXCEPT !.state = "WITHDRAWN"] = Offer'[b]
      BY <2>3, <2>4
    <3>2. Offer' = [Offer EXCEPT ![b] = Offer'[b]]
      BY <2>5 DEF Offer
    <3>3. QED
      BY <3>1, <3>2
  <2>7. Book!Withdraw(b)
    BY <1>3, <2>3, <2>6 DEF Book!Withdraw, Book!IsOpen, Offer, Trades, TradeOf
  <2>8. QED
    BY <1>1, <2>7 DEF BookStep, Book!Next
<1>5. CASE bid' = bid
  <2>1. Offer' = Offer
    BY <1>5 DEF Offer, OfferOf, Known
  <2>2. QED
    BY <1>3, <2>1 DEF BookStep, Book!bookVars, Offer, Trades, TradeOf
<1>6. QED
  BY <1>1, <1>4, <1>5, RetireBidEffect

\* Placing a bid, messages, settlements, deposits and time are no steps of the
\* order book.
LEMMA OthersStutter ==
  ASSUME TypeOK, PricesKnown, TasksKnown, KeepsOffers, \A b \in bidTasks : ~RetireBid(b)
  PROVE  BookStep
<1>1. UNCHANGED Offer
  <2>1. ASSUME NEW c \in BidIds, PlaceBid(c)
        PROVE  UNCHANGED Offer
    <3>1. PICK n \in Bid :
            /\ n.state = "PLACED" /\ SameDeal(n, bid[c])
            /\ Known(c) /\ bid[c].state = "INQUEUE"
            /\ bid' = [bid EXCEPT ![c] = n]
      BY <2>1, PlaceEffect
    <3>2. \A b \in BidIds : SameOffer(b)
      BY <3>1, NilAssumption DEF TypeOK, SameOffer, Known, Unmatched, SameDeal
    <3>3. QED
      BY <3>2, OffersKept
  <2>2. CASE bid' = bid
    BY <2>2 DEF Offer, OfferOf, Known
  <2>3. CASE SomeMessage
    BY <2>2, <2>3, UpdateEffect DEF SomeMessage
  <2>4. ASSUME NEW task \in txTasks, RetireTransaction(task)
        PROVE  bid' = bid
    BY <2>4 DEF RetireTransaction
  <2>5. CASE SomeDeposit \/ Tick \/ UNCHANGED vars
    BY <2>2, <2>5 DEF SomeDeposit, PlaceDeposit, Tick, vars
  <2>6. QED
    BY <2>1, <2>2, <2>3, <2>4, <2>5 DEF KeepsOffers
<1>2. UNCHANGED Trades
  <2>1. CASE tx' = tx
    BY <2>1 DEF Trades, TradeOf, Exists
  <2>2. CASE SomeMessage
    <3>1. PICK t \in TxIds, n \in Transaction :
            /\ Exists(t) /\ SameParties(n, tx[t])
            /\ tx' = [tx EXCEPT ![t] = n]
      BY <2>2, UpdateEffect DEF SomeMessage
    <3>2. \A u \in TxIds : /\ Exists(u)' <=> Exists(u)
                           /\ Exists(u) => SameParties(tx[u]', tx[u])
      BY <3>1, NilAssumption DEF TypeOK, Exists, SameParties
    <3>3. QED
      BY <3>2, TradesKept
  <2>3. ASSUME NEW task \in txTasks, RetireTransaction(task)
        PROVE  UNCHANGED Trades
    <3>1. Exists(task[1]) /\ task[1] \in TxIds
      BY DEF TasksKnown, TypeOK
    <3>2. \A u \in TxIds : /\ Exists(u)' <=> Exists(u)
                           /\ Exists(u) => SameParties(tx[u]', tx[u])
      BY <2>3, <3>1, RetireTxEffect, NilAssumption DEF TypeOK, Exists, SameParties
    <3>3. QED
      BY <3>2, TradesKept
  <2>4. ASSUME NEW c \in BidIds, PlaceBid(c)
        PROVE  tx' = tx
    BY <2>4 DEF PlaceBid
  <2>5. CASE SomeDeposit \/ Tick \/ UNCHANGED vars
    BY <2>1, <2>5 DEF SomeDeposit, PlaceDeposit, Tick, vars
  <2>6. QED
    BY <2>1, <2>2, <2>3, <2>4, <2>5 DEF KeepsOffers
<1>3. QED
  BY <1>1, <1>2 DEF BookStep, Book!bookVars, Offer, Trades, TradeOf

\* The one step that needs the matching: Market makes a transaction of any two
\* bids the buyer can pay for.
LEMMA MatchIsTrade ==
  ASSUME TypeOK, PricesKnown, QueuesTyped, QueuesSound, pairs # <<>>, PairMatched
  PROVE  BookStep
<1>1. PICK b1 \in BidIds, b2 \in BidIds, stamp \in Stamps, t \in TxIds :
        /\ b1 = Head(pairs)[1].key /\ b2 = Head(pairs)[2].key
        /\ MatchBids(stamp, b1, b2, t)
  BY DEF PairMatched
<1> DEFINE new == NewTx(stamp, b1, b2)
           traded(b) == [type |-> bid[b].type, price |-> bid[b].price, state |-> "TRADED"]
<1>2. /\ bid[b1] \in Bid /\ bid[b2] \in Bid /\ b1 # b2 /\ tx[t] = NoTx
      /\ bid[b1].type # bid[b2].type
      /\ new \in Transaction /\ tx' = [tx EXCEPT ![t] = new]
      /\ Unmatched(bid[b1]) /\ Unmatched(bid[b2])
  BY <1>1, MatchFacts DEF Unmatched
<1>3. Known(b1) /\ Known(b2)
  BY <1>2, NilAssumption DEF Known
<1>4. /\ new.price = bid[b2].price
      /\ new.buyerBid = IF bid[b1].type = "BUY" THEN b1 ELSE b2
      /\ new.sellerBid = IF bid[b1].type = "BUY" THEN b2 ELSE b1
  BY <1>2 DEF NewTx, NewTransaction, OldBid, Bid
<1>5. PICK n1 \in Bid, n2 \in Bid :
        /\ bid' = [bid EXCEPT ![b1] = n1, ![b2] = n2]
        /\ n1.state = "MATCHED" /\ SameDeal(n1, bid[b1])
        /\ n2.state = "MATCHED" /\ SameDeal(n2, bid[b2])
  BY <1>1, MatchEffect
<1> HIDE DEF new
<1>6. \A b \in {b1, b2} : /\ Offer[b] # NoBid /\ Offer[b].state = "OPEN"
                          /\ Offer[b] = [type |-> bid[b].type, price |-> bid[b].price, state |-> "OPEN"]
  BY <1>2, <1>3, OpenOffer DEF Offer, OfferOf, Unmatched
<1>7. /\ bid'[b1] = n1 /\ n1 # NoBid /\ bid'[b2] = n2 /\ n2 # NoBid
      /\ \A d \in BidIds \ {b1, b2} : bid'[d] = bid[d]
  BY <1>2, <1>5, NilAssumption DEF TypeOK
<1>8. Offer'[b1] = traded(b1) /\ Offer'[b2] = traded(b2)
  BY <1>3, <1>5, <1>7 DEF Offer, OfferOf, Known, SameDeal
<1>9. \A d \in BidIds \ {b1, b2} : Offer'[d] = Offer[d]
  BY <1>7 DEF Offer, OfferOf, Known
<1>10. \A buy, sell \in BidIds : <<buy, sell>> \in {<<b1, b2>>, <<b2, b1>>} =>
         Offer' = [Offer EXCEPT ![buy].state = "TRADED", ![sell].state = "TRADED"]
  <2>1. ASSUME NEW buy \in BidIds, NEW sell \in BidIds,
               <<buy, sell>> \in {<<b1, b2>>, <<b2, b1>>}
        PROVE  Offer' = [Offer EXCEPT ![buy].state = "TRADED", ![sell].state = "TRADED"]
    <3>1. buy # sell
      BY <1>2, <2>1
    <3>2. \A b \in {buy, sell} : [Offer[b] EXCEPT !.state = "TRADED"] = Offer'[b]
      BY <1>6, <1>8, <2>1
    <3>3. Offer' = [Offer EXCEPT ![buy] = Offer'[buy], ![sell] = Offer'[sell]]
      BY <1>9, <2>1 DEF Offer
    <3>4. QED
      BY <3>1, <3>2, <3>3 DEF Offer
  <2>2. QED
    BY <2>1
<1>11. Trades' = Trades \cup {<<new.buyerBid, new.sellerBid, new.price>>}
  <2>1. tx'[t] = new /\ new # NoTx /\ \A u \in TxIds \ {t} : tx'[u] = tx[u]
    BY <1>2, NilAssumption DEF TypeOK
  <2>2. TradeOf(t)' = <<new.buyerBid, new.sellerBid, new.price>> /\ Exists(t)' /\ ~Exists(t)
    BY <1>2, <2>1 DEF TradeOf, Exists
  <2>3. \A u \in TxIds \ {t} : TradeOf(u)' = TradeOf(u) /\ (Exists(u)' <=> Exists(u))
    BY <2>1 DEF TradeOf, Exists
  <2>4. QED
    BY <2>2, <2>3 DEF Trades
<1>12. IF bid[b1].type = "BUY" THEN bid[b2].price <= bid[b1].price
                               ELSE bid[b1].price <= bid[b2].price
  BY <1>1, PairAccepts
<1>13. bid[b1].price \in Nat /\ bid[b2].price \in Nat /\ bid[b2].price \in Prices
       /\ bid[b1].type \in {"BUY", "SELL"} /\ bid[b2].type \in {"BUY", "SELL"}
  BY <1>2, <1>3 DEF Bid, BidTypes, PricesKnown
<1>14. PICK buy \in BidIds, sell \in BidIds, price \in Prices :
          buy = new.buyerBid /\ sell = new.sellerBid /\ price = new.price
  BY <1>4, <1>13
<1>15. Book!Trade(buy, sell, price)
  <2>1. CASE bid[b1].type = "BUY"
    <3>1. buy = b1 /\ sell = b2 /\ bid[b2].type = "SELL"
      BY <1>2, <1>4, <1>13, <1>14, <2>1
    <3>2. Offer' = [Offer EXCEPT ![b1].state = "TRADED", ![b2].state = "TRADED"]
      BY <1>10
    <3>3. QED
      BY <1>4, <1>6, <1>11, <1>12, <1>13, <1>14, <2>1, <3>1, <3>2
      DEF Book!Trade, Book!IsOpen, Offer, Trades, TradeOf
  <2>2. CASE bid[b1].type = "SELL"
    <3>1. buy = b2 /\ sell = b1 /\ bid[b2].type = "BUY"
      BY <1>2, <1>4, <1>13, <1>14, <2>2
    <3>2. Offer' = [Offer EXCEPT ![b2].state = "TRADED", ![b1].state = "TRADED"]
      BY <1>10
    <3>3. QED
      BY <1>4, <1>6, <1>11, <1>12, <1>13, <1>14, <2>2, <3>1, <3>2
      DEF Book!Trade, Book!IsOpen, Offer, Trades, TradeOf
  <2>3. QED
    BY <1>13, <2>1, <2>2
<1>16. QED
  BY <1>15 DEF BookStep, Book!Next

LEMMA StepBook ==
  ASSUME MarketInv, QueuesTyped, QueuesSound, [ExchangeNext]_exchangeVars
  PROVE  BookStep
<1>1. TypeOK /\ TasksKnown /\ PricesKnown
  BY DEF MarketInv, IInv, RetirementScheduled
<1>2. CASE SomeBid
  BY <1>1, <1>2, MakeIsMake
<1>3. CASE ApplyMatch /\ PairMatched
  BY <1>1, <1>3, MatchIsTrade DEF ApplyMatch
<1>4. ASSUME NEW b \in bidTasks, RetireBid(b)
      PROVE  BookStep
  BY <1>1, <1>4, ExpiryIsWithdraw
<1>5. CASE KeepsOffers
  BY <1>1, <1>4, <1>5, OthersStutter
<1>6. QED
  BY <1>2, <1>3, <1>5, StepIsMarket

LEMMA InitBook == ExchangeInit => Book!Init
  BY DEF ExchangeInit, Init, Book!Init, OfferOf, Known, Exists

\* Whatever passes, tasks, failures and timeouts do to each other, a bid ends as
\* an offer of an order book does: traded once, with an open bid of the other
\* type, at a price both accept, or withdrawn.  MatchBids itself compares no
\* prices where the older bid is the buy: what keeps them right is that a pair
\* meets when the matching makes it (M!PairsMeet) and stays what it was.
THEOREM ExchangeImplementsOrderBook == ExchangeSpec => BookSpec
<1>1. ExchangeInit => MarketInv /\ QueuesTyped /\ QueuesSound
  BY InitQueues, InitSound
<1>2. MarketInv /\ QueuesTyped /\ QueuesSound /\ [ExchangeNext]_exchangeVars
      => MarketInv' /\ QueuesTyped' /\ QueuesSound'
  BY StepQueues, StepSound
<1>3. MarketInv /\ QueuesTyped /\ QueuesSound /\ [ExchangeNext]_exchangeVars
      => [Book!Next]_(Book!bookVars)
  BY StepBook DEF BookStep
<1>4. ExchangeInit => Book!Init
  BY InitBook
<1>5. QED
  BY <1>1, <1>2, <1>3, <1>4, PTL DEF ExchangeSpec, BookSpec, Book!Spec
=============================================================================
