------------------------------ MODULE HotZone ------------------------------
(***************************************************************************)
(* The matching of bids of one article and currency                        *)
(* (server/gae/gae_matching.go): bids arrive in a pull queue as hot bids,  *)
(* a pass leases them, matches them one by one against the hot zone in one *)
(* datastore transaction, and hands the outcome to an apply-changes task.  *)
(* The tasks it leased are deleted after that, outside the transaction.    *)
(*                                                                         *)
(* A pass is run by a request handler, and any number of handlers run at   *)
(* the same time: when a pass may start is the subject of Batch.  Here it  *)
(* may start at any time.                                                  *)
(***************************************************************************)
EXTENDS Integers, SequencesExt

CONSTANTS
  Keys,          (* datastore keys of bids                                  *)
  HotPrices,     (* prices bids are made with                               *)
  Passes,        (* handlers that may run a pass at the same time           *)
  BidLife,       (* time from the making of a bid to its expiry             *)
  LeaseTime,     (* time after which a leased task is available again       *)
  MaxLease,      (* LeaseByTag's limit, 200                                 *)
  MaxMishaps,    (* bound: datastore transactions that fail and handlers    *)
                 (* that die or outlast their lease, together               *)
  LastArrival,   (* bound: no bid arrives after this time                   *)
  HotMaxTime,    (* bound: the clock stops here                             *)
  HotMaxLag      (* bound: time from the making of a bid to its arrival     *)

ASSUME HotAssumption ==
  /\ HotPrices \subseteq Nat
  /\ BidLife \in Nat \ {0} /\ LeaseTime \in Nat \ {0} /\ MaxLease \in Nat \ {0}
  /\ MaxMishaps \in Nat
  /\ LastArrival \in Nat /\ HotMaxTime \in Nat /\ HotMaxLag \in Nat

VARIABLES
  now,
  arrived,       \* hot bids that arrived so far
  hotTasks,      \* pull queue: the hot bid and the time it is available
  zone,          \* HotBid entities: a bid may have several
  pass,          \* handler -> its pass
  applyTasks,    \* apply-changes tasks: stamp, pairs <<new, old>>, placed bids
  fails,         \* datastore transactions that failed so far
  overruns       \* times a handler died or outlasted its lease

hotVars == <<now, arrived, hotTasks, zone, pass, applyTasks, fails, overruns>>

Sides == {"BUY", "SELL"}
HotBid == [key : Keys, type : Sides, price : Nat, expires : Nat]
Entity == [bid : HotBid, copy : Nat]
Pair == HotBid \X HotBid
ApplyTask == [stamp : Nat, matched : Seq(Pair), placed : SUBSET HotBid]

\* One side of the hot zone as a pass sees it (hotBidsQueue): what the query
\* has yet to return, and the heap of bids that came in during this pass.
Queue(type) == [stored : Seq({e \in Entity : e.bid.type = type}),
                cached : SUBSET {h \in HotBid : h.type = type}]
EmptyQueue == [stored |-> <<>>, cached |-> {}]

Pass == [pc : {"idle", "leased", "matching", "ended"},
         tasks : SUBSET HotBid,        \* tasks leased
         todo : Seq(HotBid),           \* incomingBids
         until : Nat,                  \* end of the lease
         stamp : Nat,
         queue : [BUY : Queue("BUY"), SELL : Queue("SELL")],
         matched : Seq(Pair)]

Idle == [pc |-> "idle", tasks |-> {}, todo |-> <<>>, until |-> 0, stamp |-> 0,
         queue |-> [BUY |-> EmptyQueue, SELL |-> EmptyQueue], matched |-> <<>>]

HotTypeOK ==
  /\ now \in Nat
  /\ arrived \subseteq HotBid
  /\ hotTasks \subseteq [bid : HotBid, free : Nat]
  /\ zone \subseteq Entity
  /\ pass \in [Passes -> Pass]
  /\ applyTasks \subseteq ApplyTask
  /\ fails \in 0 .. MaxMishaps /\ overruns \in 0 .. MaxMishaps

-----------------------------------------------------------------------------
\* Mutant: sells are compared like buys.
DearFirst(h, other) ==
  IF h.price = other.price THEN h.expires < other.expires ELSE h.price > other.price

\* hotBid.hotterThan: cheap sells and dear buys first, then those to expire first.
HotterThan(h, other) ==
  IF h.price = other.price THEN h.expires < other.expires
  ELSE IF h.type = "SELL" THEN h.price < other.price ELSE h.price > other.price

Other(type) == IF type = "BUY" THEN "SELL" ELSE "BUY"

\* Mutant: the query has no order.
AnyOrder(type) == SetToSeqs({e \in zone : e.bid.type = type})

\* Orders in which the query may return the entities of a type: by price only.
QueryOrders(type) ==
  {s \in SetToSeqs({e \in zone : e.bid.type = type}) :
     \A i, j \in DOMAIN s :
       i < j => IF type = "SELL" THEN s[i].bid.price <= s[j].bid.price
                                 ELSE s[i].bid.price >= s[j].bid.price}

\* The tip of a queue: the head of the stored bids if hotter than the top of
\* the heap, which is one of the hottest of the cached bids.
HeapTops(q) == {h \in q.cached : \A other \in q.cached : ~HotterThan(other, h)}

StoredFirst(q) ==
  q.stored # <<>> /\ \A h \in HeapTops(q) : HotterThan(Head(q.stored).bid, h)
Tips(q) == IF StoredFirst(q) THEN {Head(q.stored).bid} ELSE HeapTops(q)
Popped(q, tip) ==
  IF StoredFirst(q) THEN [q EXCEPT !.stored = Tail(@)] ELSE [q EXCEPT !.cached = @ \ {tip}]

\* Whether the tip of the other queue is a match.
IsMatch(tip, h) == HotterThan(tip, h)

Expired(h, stamp) == h.expires <= stamp

-----------------------------------------------------------------------------
HotInit ==
  /\ now = 0
  /\ arrived = {}
  /\ hotTasks = {}
  /\ zone = {}
  /\ pass = [w \in Passes |-> Idle]
  /\ applyTasks = {}
  /\ fails = 0 /\ overruns = 0

\* The end of EnqueueBid: the bid goes to the pull queue as a hot bid.
AddHotTask(h) == hotTasks' = hotTasks \cup {[bid |-> h, free |-> now]}

\* A bid arrives that was made, and given its expiry, a while before.
Arrive(h) ==
  /\ now <= LastArrival
  /\ \E made \in 0 .. now : now <= made + HotMaxLag /\ h.expires = made + BidLife
  /\ \A known \in arrived : known.key # h.key
  /\ arrived' = arrived \cup {h}
  /\ AddHotTask(h)
  /\ UNCHANGED <<now, zone, pass, applyTasks, fails, overruns>>

Available == {task \in hotTasks : task.free <= now}

\* Mutant: tasks are deleted as soon as they are leased.
LeaseAndDelete(w) ==
  /\ pass[w].pc = "idle"
  /\ \E todo \in SetToSeqs({task.bid : task \in Available}) :
       pass' = [pass EXCEPT ![w] = [Idle EXCEPT !.pc = "leased", !.todo = todo]]
  /\ hotTasks' = hotTasks \ Available
  /\ UNCHANGED <<now, arrived, zone, applyTasks, fails, overruns>>

\* LeaseByTag: as many of the available tasks as the limit allows, whose order
\* the service does not promise.
Lease(w) ==
  /\ pass[w].pc = "idle"
  /\ \E tasks \in SUBSET Available, until \in {now + LeaseTime} :
       /\ Cardinality(tasks) <= MaxLease
       /\ Cardinality(tasks) < MaxLease => tasks = Available
       /\ \E todo \in SetToSeqs({task.bid : task \in tasks}) :
            pass' = [pass EXCEPT ![w] = [Idle EXCEPT !.pc = "leased", !.todo = todo,
                       !.tasks = {task.bid : task \in tasks}, !.until = until]]
       /\ hotTasks' = (hotTasks \ tasks) \cup {[task EXCEPT !.free = until] : task \in tasks}
  /\ UNCHANGED <<now, arrived, zone, applyTasks, fails, overruns>>

\* A datastore transaction works on the hot zone as it was when it began.  Of
\* two at a time one fails and is tried again, so they are one after the other.
Begin(w) ==
  /\ pass[w].pc = "leased"
  /\ \A v \in Passes : pass[v].pc # "matching"
  /\ \E buys \in QueryOrders("BUY"), sells \in QueryOrders("SELL") :
       pass' = [pass EXCEPT ![w] = [@ EXCEPT !.pc = "matching", !.stamp = now,
                  !.queue = [BUY |-> [stored |-> buys, cached |-> {}],
                             SELL |-> [stored |-> sells, cached |-> {}]]]]
  /\ UNCHANGED <<now, arrived, hotTasks, zone, applyTasks, fails, overruns>>

\* One round of the loop over incomingBids, for the first of them.
Matching(w) == pass[w].pc = "matching" /\ pass[w].todo # <<>>
Incoming(w) == Head(pass[w].todo)
OtherQueue(w) == pass[w].queue[Other(Incoming(w).type)]

\* Expired bids are popped until the tip is one that is not.
SkipExpired(w) ==
  /\ Matching(w)
  /\ \E tip \in Tips(OtherQueue(w)) :
       /\ Expired(tip, pass[w].stamp)
       /\ pass' = [pass EXCEPT ![w].queue[tip.type] = Popped(@, tip)]
  /\ UNCHANGED <<now, arrived, hotTasks, zone, applyTasks, fails, overruns>>

Match(w) ==
  /\ Matching(w)
  /\ \E tip \in Tips(OtherQueue(w)) :
       /\ ~Expired(tip, pass[w].stamp)
       /\ IsMatch(tip, Incoming(w))
       /\ pass' = [pass EXCEPT ![w].queue[tip.type] = Popped(@, tip),
                               ![w].matched = Append(@, <<Incoming(w), tip>>),
                               ![w].todo = Tail(@)]
  /\ UNCHANGED <<now, arrived, hotTasks, zone, applyTasks, fails, overruns>>

Insert(w) ==
  /\ Matching(w)
  /\ \A tip \in Tips(OtherQueue(w)) :
       ~Expired(tip, pass[w].stamp) /\ ~IsMatch(tip, Incoming(w))
  /\ pass' = [pass EXCEPT ![w].queue[Incoming(w).type].cached = @ \cup {Incoming(w)},
                          ![w].todo = Tail(@)]
  /\ UNCHANGED <<now, arrived, hotTasks, zone, applyTasks, fails, overruns>>

\* Persist: cached bids become entities of their own.
CachedBids(p) == p.queue["BUY"].cached \cup p.queue["SELL"].cached
Persisted(p) ==
  {[bid |-> h, copy |-> CHOOSE n \in 0 .. Cardinality(zone) :
                          [bid |-> h, copy |-> n] \notin zone] : h \in CachedBids(p)}

\* Mutant: bids that were popped are not deleted.
KeepsPopped(p) == {e \in zone : ~Expired(e.bid, p.stamp)}

\* deleteExpiredHotBids: its query sees the hot zone as it was at the beginning.
Remaining(p) ==
  {e \in Range(p.queue["BUY"].stored) \cup Range(p.queue["SELL"].stored) :
     ~Expired(e.bid, p.stamp)}

Ended(p) == [Idle EXCEPT !.pc = "ended", !.tasks = p.tasks, !.until = p.until]

\* The transaction commits: hot zone and apply-changes task change together.
Commit(w) ==
  LET p == pass[w] IN
  /\ p.pc = "matching" /\ p.todo = <<>>
  /\ zone' = Remaining(p) \cup Persisted(p)
  /\ applyTasks' = IF p.matched = <<>> /\ CachedBids(p) = {} THEN applyTasks
                   ELSE applyTasks \cup
                     {[stamp |-> p.stamp, matched |-> p.matched, placed |-> CachedBids(p)]}
  /\ pass' = [pass EXCEPT ![w] = Ended(p)]
  /\ UNCHANGED <<now, arrived, hotTasks, fails, overruns>>

\* An error of the datastore, or of a transaction that collided too often.
Fail(w) ==
  /\ fails + overruns < MaxMishaps
  /\ pass[w].pc \in {"leased", "matching"}
  /\ pass' = [pass EXCEPT ![w] = Ended(@)]
  /\ fails' = fails + 1
  /\ UNCHANGED <<now, arrived, hotTasks, zone, applyTasks, overruns>>

\* The deferred DeleteMulti runs whatever became of the transaction.
DeleteTasks(w) ==
  /\ pass[w].pc = "ended"
  /\ hotTasks' = {task \in hotTasks : task.bid \notin pass[w].tasks}
  /\ pass' = [pass EXCEPT ![w] = Idle]
  /\ UNCHANGED <<now, arrived, zone, applyTasks, fails, overruns>>

\* The handler's instance dies, or DeleteMulti fails, which is only logged.
Crash(w) ==
  /\ fails + overruns < MaxMishaps
  /\ pass[w].pc # "idle"
  /\ pass' = [pass EXCEPT ![w] = Idle]
  /\ overruns' = overruns + 1
  /\ UNCHANGED <<now, arrived, hotTasks, zone, applyTasks, fails>>

\* Nothing ends a handler that takes longer than its lease, but it is no
\* normal run.
Tick ==
  /\ now < HotMaxTime
  /\ IF \A w \in Passes : pass[w].tasks # {} => now + 1 < pass[w].until
     THEN UNCHANGED overruns
     ELSE fails + overruns < MaxMishaps /\ overruns' = overruns + 1
  /\ now' = now + 1
  /\ UNCHANGED <<arrived, hotTasks, zone, pass, applyTasks, fails>>

PassStep(w) ==
  \/ Lease(w) \/ Begin(w) \/ SkipExpired(w) \/ Match(w) \/ Insert(w)
  \/ Commit(w) \/ Fail(w) \/ DeleteTasks(w) \/ Crash(w)

HotNext ==
  \/ \E k \in Keys, type \in Sides, price \in HotPrices, expires \in 0 .. HotMaxTime + BidLife :
       Arrive([key |-> k, type |-> type, price |-> price, expires |-> expires])
  \/ \E w \in Passes : PassStep(w)
  \/ Tick

HotSpec == HotInit /\ [][HotNext]_hotVars

-----------------------------------------------------------------------------
Live(h, t) == h.expires > t

\* No buyer who offers more than a seller asks is left waiting next to that
\* seller: what the stored bids of earlier passes and the bids of one batch add
\* up to never holds two live bids that should have met.
NotCrossed ==
  \A b, s \in zone :
    b.bid.type = "BUY" /\ s.bid.type = "SELL" /\ Live(b.bid, now) /\ Live(s.bid, now)
      => b.bid.price <= s.bid.price

\* What is left of the other queue when a match is made.
Candidates(q) == {e.bid : e \in Range(q.stored)} \cup q.cached
NewPair(w) == pass'[w].pc = "matching" /\ pass'[w].matched # pass[w].matched
Taken(w) == Last(pass'[w].matched)[2]
Passed(w) == {h \in Candidates(pass'[w].queue[Taken(w).type]) : Live(h, pass[w].stamp)}

\* A bid is matched with the best price there is, be it stored by an earlier
\* pass or still in memory.
PricePriority ==
  [][\A w \in Passes : pass[w].pc = "matching" /\ NewPair(w) =>
       \A h \in Passed(w) :
         IF h.type = "SELL" THEN h.price >= Taken(w).price ELSE h.price <= Taken(w).price]_hotVars

\* Where a bid is: in the pull queue, in the hot zone, in a pair or expired.
Queued == {task.bid : task \in hotTasks}
Hot == {e.bid : e \in zone}
Both(pair) == {pair[1], pair[2]}
PairsWith(h) ==
  UNION {{<<task, i>> : i \in {j \in DOMAIN task.matched : h \in Both(task.matched[j])}} :
           task \in applyTasks}
InPair == {h \in arrived : PairsWith(h) # {}}

\* As long as no transaction failed, no bid that is still live is lost between
\* pull queue, pass and hot zone, whatever a crash leaves undone.
NoLiveBidLost ==
  fails = 0 =>
    \A h \in arrived : Live(h, now) => h \in Queued \cup Hot \cup InPair

\* As long as every pass ends before its lease, a bid is stored once and
\* matched once, and never is a matched one back in the hot zone.
NoBidTwice ==
  overruns = 0 =>
    /\ \A h \in arrived : Cardinality(PairsWith(h)) <= 1
    /\ \A e, f \in zone : e.bid = f.bid => e = f
    /\ Hot \cap InPair = {}
=============================================================================
