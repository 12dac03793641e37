------------------------------- MODULE Batch -------------------------------
(***************************************************************************)
(* When the matching of HotZone runs: TriggerBatchProcessing of            *)
(* server/gae/gae_main.go, with the leasing, the transaction and the       *)
(* deletion of MatchIncomingBids (server/gae/gae_matching.go) around it.   *)
(* The handler of a request that made a bid counts up a semaphore in       *)
(* memcache.  If it is the first it waits a second, so that more bids come *)
(* in, counts down and processes what the pull queue holds; if not it      *)
(* counts down and leaves the bid to the one who waits.  Every call of     *)
(* these may fail, and the instance may die at any step.                   *)
(***************************************************************************)
EXTENDS Integers, FiniteSets

CONSTANTS
  Handlers,      (* requests being handled at the same time                 *)
  Bids,          (* bids made, all of one article and currency              *)
  LeavesAtOnce,  (* whether nobody counts up while another is counted only  *)
                 (* to count down again                                     *)
  MayEvict,      (* whether memcache may drop the semaphore                 *)
  LeaseLimit,    (* tasks leased at once; 200 in the code                   *)
  MaxFailures    (* bound: calls that fail and instances that die           *)

ASSUME BatchAssumption ==
  /\ IsFiniteSet(Handlers)
  /\ LeavesAtOnce \in BOOLEAN /\ MayEvict \in BOOLEAN
  /\ LeaseLimit \in Nat \ {0} /\ MaxFailures \in Nat

VARIABLES
  semaphore,     \* memcache; 0 also when there is none
  pc,            \* handler -> where it is
  made,          \* bids that were put into the pull queue
  queue,         \* pull queue: bids whose task is not deleted
  hidden,        \* those of them that are leased
  leased,        \* handler -> bids it got from its lease
  processed,     \* bids of a batch whose transaction was committed
  failures,      \* history: calls that failed, instances that died
  leaks,         \* history: counted up in this semaphore and never down again
  forgotten,     \* history: memcache dropped the semaphore while some of those
                 \* were counted that have been since
  overflowed     \* history: a lease left bids behind

counting == <<semaphore, leaks, forgotten>>
pullTasks == <<made, queue, hidden>>
work == <<leased, processed, overflowed>>
vars == <<pc, counting, pullTasks, work, failures>>

Steps == {"idle", "enqueued", "leaving", "waiting", "leasing", "matching", "deleting"}

TypeOK ==
  /\ semaphore \in Nat
  /\ pc \in [Handlers -> Steps]
  /\ made \subseteq Bids /\ queue \subseteq made /\ hidden \subseteq queue
  /\ leased \in [Handlers -> SUBSET Bids]
  /\ processed \subseteq Bids
  /\ failures \in Nat /\ leaks \in Nat
  /\ forgotten \in BOOLEAN /\ overflowed \in BOOLEAN

Init ==
  /\ semaphore = 0
  /\ pc = [h \in Handlers |-> "idle"]
  /\ made = {} /\ queue = {} /\ hidden = {}
  /\ leased = [h \in Handlers |-> {}]
  /\ processed = {}
  /\ failures = 0 /\ leaks = 0
  /\ forgotten = FALSE /\ overflowed = FALSE

Counted == {h \in Handlers : pc[h] \in {"leaving", "waiting"}}

Goto(h, step) == pc' = [pc EXCEPT ![h] = step]

MayFail == failures < MaxFailures /\ failures' = failures + 1

\* memcache.IncrementExisting by -1 does not go below zero.
Down == IF semaphore = 0 THEN 0 ELSE semaphore - 1

\* Mutants: the handler takes itself for another one; it does not take one
\* other for one.
OneIsTooMany(count) == count >= 1
ThreeAreTooMany(count) == count >= 3

\* Whether another handler is counted as well.
OthersActive(count) == count >= 2

-----------------------------------------------------------------------------
\* The request's bid is in the pull queue before the semaphore is touched.
Enqueue(h) ==
  /\ pc[h] = "idle"
  /\ \E b \in Bids \ made : made' = made \cup {b} /\ queue' = queue \cup {b}
  /\ Goto(h, "enqueued")
  /\ UNCHANGED <<counting, hidden, work, failures>>

Increment(h) ==
  /\ pc[h] = "enqueued"
  /\ LeavesAtOnce => \A g \in Handlers : pc[g] # "leaving"
  /\ semaphore' = semaphore + 1
  /\ Goto(h, IF OthersActive(semaphore + 1) THEN "leaving" ELSE "waiting")
  /\ UNCHANGED <<leaks, forgotten, pullTasks, work, failures>>

\* The handler returns the error; memcache may have counted all the same.
IncrementFails(h) ==
  /\ pc[h] = "enqueued"
  /\ MayFail
  /\ \E more \in {0, 1} : semaphore' = semaphore + more /\ leaks' = leaks + more
  /\ Goto(h, "idle")
  /\ UNCHANGED <<forgotten, pullTasks, work>>

\* A counted handler counts down and goes on to step.  That memcache dropped
\* the semaphore no longer matters once nobody is counted.
CountDown(h, step) ==
  /\ semaphore' = Down
  /\ Goto(h, step)
  /\ forgotten' = (forgotten /\ Counted # {h})
  /\ UNCHANGED <<leaks, failures>>

\* The error of IncrementExisting is ignored: the handler goes on, and is still
\* in the semaphore.
CountDownFails(h, step) ==
  /\ MayFail
  /\ leaks' = leaks + 1
  /\ Goto(h, step)
  /\ forgotten' = (forgotten /\ Counted # {h})
  /\ UNCHANGED semaphore

\* Mutant: a handler with nothing to do does not count down.
LeaveCounted(h) ==
  /\ pc[h] = "leaving"
  /\ Goto(h, "idle")
  /\ UNCHANGED <<counting, pullTasks, work, failures>>

\* Others are active: nothing to do.
Leave(h) ==
  /\ pc[h] = "leaving"
  /\ CountDown(h, "idle") \/ CountDownFails(h, "idle")
  /\ UNCHANGED <<pullTasks, work>>

\* The second is over.
Wake(h) ==
  /\ pc[h] = "waiting"
  /\ CountDown(h, "leasing") \/ CountDownFails(h, "leasing")
  /\ UNCHANGED <<pullTasks, work>>

\* What taskqueue.LeaseByTag may lease: of the tasks nobody leases as many as it
\* may have.
Leasable ==
  {got \in SUBSET (queue \ hidden) :
     \/ Cardinality(got) = LeaseLimit
     \/ got = queue \ hidden /\ Cardinality(got) <= LeaseLimit}

LeaseQueue(h) ==
  /\ pc[h] = "leasing"
  /\ \E got \in Leasable :
       /\ leased' = [leased EXCEPT ![h] = got]
       /\ hidden' = hidden \cup got
       /\ overflowed' = (overflowed \/ got # queue \ hidden)
  /\ Goto(h, "matching")
  /\ UNCHANGED <<counting, made, queue, processed, failures>>

\* The handler returns the error; the tasks may be leased all the same.
LeaseFails(h) ==
  /\ pc[h] = "leasing"
  /\ MayFail
  /\ \E got \in Leasable \cup {{}} : hidden' = hidden \cup got
  /\ Goto(h, "idle")
  /\ UNCHANGED <<counting, made, queue, work>>

\* The transaction of MatchIncomingBids: one pass of HotZone.
CommitBatch(h) ==
  /\ pc[h] = "matching"
  /\ processed' = processed \cup leased[h]
  /\ Goto(h, "deleting")
  /\ UNCHANGED <<counting, pullTasks, leased, overflowed, failures>>

\* It gives up: nothing is matched, and the deferred deletion is done all the
\* same.
CommitFails(h) ==
  /\ pc[h] = "matching"
  /\ MayFail
  /\ Goto(h, "deleting")
  /\ UNCHANGED <<counting, pullTasks, work>>

\* The deferred taskqueue.DeleteMulti, whoever leases the tasks by now.
Delete(h) ==
  /\ pc[h] = "deleting"
  /\ queue' = queue \ leased[h]
  /\ hidden' = hidden \ leased[h]
  /\ leased' = [leased EXCEPT ![h] = {}]
  /\ Goto(h, "idle")
  /\ UNCHANGED <<counting, made, processed, overflowed, failures>>

\* Its error is only logged: the tasks come back when their lease is over.
DeleteFails(h) ==
  /\ pc[h] = "deleting"
  /\ leased' = [leased EXCEPT ![h] = {}]
  /\ Goto(h, "idle")
  /\ UNCHANGED <<counting, pullTasks, processed, overflowed, failures>>

-----------------------------------------------------------------------------
\* The 20 s of a lease are over, whether or not its handler still works.
LeaseEnds(b) ==
  /\ b \in hidden
  /\ hidden' = hidden \ {b}
  /\ UNCHANGED <<pc, counting, made, queue, work, failures>>

\* The instance dies.
Die(h) ==
  /\ pc[h] # "idle"
  /\ MayFail
  /\ leaks' = IF h \in Counted THEN leaks + 1 ELSE leaks
  /\ forgotten' = (forgotten /\ Counted # {h})
  /\ leased' = [leased EXCEPT ![h] = {}]
  /\ Goto(h, "idle")
  /\ UNCHANGED <<semaphore, pullTasks, processed, overflowed>>

Evict ==
  /\ MayEvict
  /\ semaphore' = 0
  /\ leaks' = 0
  /\ forgotten' = (Counted # {})
  /\ UNCHANGED <<pc, pullTasks, work, failures>>

Trigger(h) ==
  \/ Increment(h)
  \/ Leave(h)
  \/ Wake(h)
  \/ LeaseQueue(h)
  \/ CommitBatch(h)
  \/ Delete(h)
  \/ DeleteFails(h)

Next ==
  \/ \E h \in Handlers :
       \/ Enqueue(h)
       \/ Trigger(h)
       \/ IncrementFails(h) \/ LeaseFails(h) \/ CommitFails(h)
       \/ Die(h)
  \/ \E b \in Bids : LeaseEnds(b)
  \/ Evict

Spec == Init /\ [][Next]_vars

\* A handler that lives goes on, and a lease ends.  Nobody has to make bids.
FairSpec ==
  /\ Spec
  /\ \A h \in Handlers : WF_vars(Trigger(h))
  /\ \A b \in Bids : WF_vars(LeaseEnds(b))

-----------------------------------------------------------------------------
\* The semaphore never stands for more than the handlers that are counted and
\* those that never counted down: they died, or their count down failed, or
\* their count up was answered with an error.  As long as none did, the next
\* handler gets through once nobody is there, whatever memcache dropped.
SemaphoreCovered == semaphore <= Cardinality(Counted) + leaks

\* What the semaphore is for (the comment on TriggerBatchProcessing): one
\* handler at a time collects bids for the others, whoever dies and whichever
\* call fails, unless memcache drops the count of handlers that are still there.
\* That the batches themselves do not overlap it does not ensure: it is given
\* back before the lease.
WaitsAlone == ~forgotten => Cardinality({h \in Handlers : pc[h] = "waiting"}) <= 1

\* The comment in TriggerBatchProcessing (gae_main.go): bids are collected for
\* up to two seconds and processed afterwards.  Every bid is, as long as no call
\* but the deletion fails, no instance dies, no lease is full and, if
\* LeavesAtOnce, no request is counted between the two steps of one that only
\* counts itself.
EveryBidProcessed ==
  [](failures = 0 /\ ~overflowed) => \A b \in Bids : b \in queue ~> b \in processed
=============================================================================
