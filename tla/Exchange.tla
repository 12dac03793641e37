------------------------------ MODULE Exchange ------------------------------
(***************************************************************************)
(* The market of one article and currency with its matching: the bids of   *)
(* Market arrive in the pull queue of HotZone, and what a pass decides is  *)
(* applied to the bids by apply-changes tasks (handleApplyChanges of       *)
(* server/server_queue.go), later, one step at a time, while bids expire.  *)
(*                                                                         *)
(* All tasks of an article and currency are in the same one of eight       *)
(* queues, which runs one task at a time (queue.yaml) but not in order.    *)
(***************************************************************************)
EXTENDS Market, Sequences

CONSTANTS Passes, LeaseTime, MaxLease, MaxMishaps, NoTask   (* as in HotZone *)

ASSUME ExchangeAssumption ==
  LeaseTime \in Nat \ {0} /\ MaxLease \in Nat \ {0} /\ MaxMishaps \in Nat

VARIABLES
  hotTasks, zone, pass, applyTasks, fails, overruns,   \* as in HotZone
  applying,    \* the apply-changes task that is running, or NoTask
  places,      \* bids it has yet to place
  pairs        \* pairs it has yet to match

exchangeVars ==
  <<vars, hotTasks, zone, pass, applyTasks, fails, overruns, applying, places, pairs>>

\* newHotBid
HotBidOf(b) == [key |-> b, type |-> bid[b].type, price |-> bid[b].price,
                expires |-> bid[b].expires]

HZ == INSTANCE HotZone WITH
  Keys <- BidIds, HotPrices <- Prices, BidLife <- BidTimeout,
  LastArrival <- LastEnqueue, HotMaxTime <- MaxTime, HotMaxLag <- MaxLag,
  arrived <- {HotBidOf(b) : b \in {b \in BidIds : Known(b)}}

ExchangeInit ==
  /\ Init
  /\ hotTasks = {} /\ zone = {} /\ applyTasks = {}
  /\ pass = [w \in Passes |-> HZ!Idle]
  /\ fails = 0 /\ overruns = 0
  /\ applying = NoTask /\ places = {} /\ pairs = <<>>

-----------------------------------------------------------------------------
\* EnqueueBid adds the hot bid to the pull queue in the same transaction.
MakeBid ==
  /\ \E b \in BidIds, type \in BidTypes, article \in Articles, price \in Prices,
        c \in Currencies, p \in Participants, stamp \in Stamps :
       /\ EnqueueBid(b, type, article, price, c, p, stamp)
       /\ HZ!AddHotTask([key |-> b, type |-> type, price |-> price,
                         expires |-> stamp + BidTimeout])
  /\ UNCHANGED <<zone, pass, applyTasks, fails, overruns, applying, places, pairs>>

RunPass ==
  /\ UNCHANGED <<vars, applying, places, pairs>>
  /\ \E w \in Passes : HZ!PassStep(w)

\* handleApplyChanges: bids are placed first, then pairs are matched, in order.
StartApply ==
  /\ applying = NoTask
  /\ \E task \in applyTasks :
       applying' = task /\ places' = task.placed /\ pairs' = task.matched
  /\ UNCHANGED <<vars, hotTasks, zone, pass, applyTasks, fails, overruns>>

\* A datastore transaction of a task fails, which changes nothing.
TransactionFails ==
  /\ fails + overruns < MaxMishaps
  /\ fails' = fails + 1
  /\ UNCHANGED vars

\* An error is logged and the next bid is placed.
ApplyPlace ==
  /\ \E h \in places :
       /\ places' = places \ {h}
       /\ \/ PlaceBid(h.key) /\ UNCHANGED fails
          \/ bid[h.key].state # "INQUEUE" /\ UNCHANGED <<vars, fails>>
          \/ TransactionFails
  /\ UNCHANGED <<hotTasks, zone, pass, applyTasks, overruns, applying, pairs>>

\* What NewTransaction and Book refuse, with the older bid as MatchBids sees it.
Refused(stamp, newKey, oldKey) ==
  LET oldBid == [bid[oldKey] EXCEPT !.state = IF @ = "INQUEUE" THEN "PLACED" ELSE @]
      new == NewTransaction(stamp, newKey, oldKey, bid[newKey], oldBid)
      buyerBid == bid[new.buyerBid]
  IN  \/ ~MayTransact(stamp, bid[newKey], oldBid)
      \/ PriceDelta(new, buyerBid) < 0
      \/ PriceDelta(new, buyerBid) > 0 /\ ~CanPlace(account, DeltaMovement(new, buyerBid))

\* An error is logged and the next pair is matched.
ApplyMatch ==
  /\ applying # NoTask /\ places = {} /\ pairs # <<>>
  /\ LET new == Head(pairs)[1].key
         old == Head(pairs)[2].key
     IN  \/ (\E t \in TxIds : MatchBids(applying.stamp, new, old, t)) /\ UNCHANGED fails
         \/ Refused(applying.stamp, new, old) /\ UNCHANGED <<vars, fails>>
         \/ TransactionFails
  /\ pairs' = Tail(pairs)
  /\ UNCHANGED <<hotTasks, zone, pass, applyTasks, overruns, applying, places>>

EndApply ==
  /\ applying # NoTask /\ places = {} /\ pairs = <<>>
  /\ applyTasks' = applyTasks \ {applying}
  /\ applying' = NoTask
  /\ UNCHANGED <<vars, hotTasks, zone, pass, fails, overruns, places, pairs>>

\* The handler dies before it is done: the task runs again, from its beginning.
ApplyDies ==
  /\ fails + overruns < MaxMishaps
  /\ applying # NoTask
  /\ applying' = NoTask /\ places' = {} /\ pairs' = <<>>
  /\ fails' = fails + 1
  /\ UNCHANGED <<vars, hotTasks, zone, pass, applyTasks, overruns>>

\* The other tasks of the queue, when no apply-changes task is running.
RetireSomething ==
  /\ applying = NoTask
  /\ \/ \E b \in bidTasks : RetireBid(b)
     \/ \E task \in txTasks : RetireTransaction(task)
  /\ UNCHANGED <<hotTasks, zone, pass, applyTasks, fails, overruns>>
  /\ UNCHANGED <<applying, places, pairs>>

SomeoneElse ==
  /\ SomeDeposit \/ SomeMessage
  /\ UNCHANGED <<hotTasks, zone, pass, applyTasks, fails, overruns>>
  /\ UNCHANGED <<applying, places, pairs>>

TimePasses ==
  /\ Tick /\ HZ!Tick
  /\ UNCHANGED <<applying, places, pairs>>

ExchangeNext ==
  \/ MakeBid \/ RunPass
  \/ StartApply \/ ApplyPlace \/ ApplyMatch \/ EndApply \/ ApplyDies
  \/ RetireSomething \/ SomeoneElse \/ TimePasses

ExchangeSpec == ExchangeInit /\ [][ExchangeNext]_exchangeVars

-----------------------------------------------------------------------------
(***************************************************************************)
(* The exchange implements OrderBook.                                      *)
(***************************************************************************)
OfferOf(b) ==
  IF ~Known(b) THEN NoBid
  ELSE [type |-> bid[b].type, price |-> bid[b].price,
        state |-> CASE bid[b].state = "MATCHED" -> "TRADED"
                    [] bid[b].state = "EXPIRED" -> "WITHDRAWN"
                    [] OTHER -> "OPEN"]

ASSUME OfferAssumption ==
  NoBid \notin [type : BidTypes, price : Prices, state : {"OPEN", "TRADED", "WITHDRAWN"}]

Book == INSTANCE OrderBook WITH
  Offers <- BidIds, NoOffer <- NoBid,
  offer <- [b \in BidIds |-> OfferOf(b)],
  trades <- {<<tx[t].buyerBid, tx[t].sellerBid, tx[t].price>> : t \in {t \in TxIds : Exists(t)}}

\* Whatever passes, tasks and timeouts do to each other, bids end as offers of
\* an order book do: traded once, with an open counterpart, at a price both
\* accept, or withdrawn.
BookSpec == Book!Spec

=============================================================================
