------------------------------- MODULE Worker -------------------------------
(***************************************************************************)
(* One WorkerState of the client (client/worker.go): a worker program that *)
(* registers, is offered on the market, does the work of the sells made    *)
(* with it and reports back.  `blockers' counts what keeps it from being   *)
(* offered; the goroutines that change it hold the lock of the condition   *)
(* variable, except setIdle, which takes the lock and gives it back first. *)
(* An update of the counter is therefore a load and a store, with the lock *)
(* held in between or not.                                                 *)
(***************************************************************************)
EXTENDS Integers, FiniteSets

CONSTANTS
  MaxSells,    (* sells made with the worker                               *)
  MaxFailures, (* bound on the sells that fail, before or after they start *)
  NoThread

ASSUME WorkerAssumption ==
  /\ MaxSells \in Nat /\ MaxFailures \in Nat
  /\ NoThread \notin ((1..MaxSells) \cup {0}) \X {"offer", "report", "timer", "sell", "work"}

VARIABLES
  unregistered, (* WorkerState.Unregistered                                *)
  idle,         (* WorkerState.Idle                                        *)
  blockers,     (* WorkerState.Blockers                                    *)
  lock,         (* who holds cond.L                                        *)
  timers,       (* goroutines of blockFor that sleep                       *)
  pc,           (* where each goroutine is                                 *)
  loaded,       (* the value of blockers a goroutine is about to change    *)
  failures,     (* how many sells failed                                   *)
  raced         (* history: an update without the lock met another one     *)

vars == <<unregistered, idle, blockers, lock, timers, pc, loaded, failures, raced>>

Sells == 1..MaxSells
Sell(s) == <<s, "sell">>     (* executeSell                                *)
Work(s) == <<s, "work">>     (* DoWork, called for the sell by its receiver*)
Works == {Work(s) : s \in Sells}
Offering == <<0, "offer">>    (* offer                                   *)
Reporting == <<0, "report">>  (* a handler that calls RegisterWorker    *)
Waking == <<0, "timer">>      (* a goroutine of blockFor that wakes     *)
Threads == {Offering, Reporting, Waking} \cup {Sell(s) : s \in Sells} \cup Works

(* Goroutines that hold the lock during an update.  setIdle does not.      *)
Locking == Threads \ ({Reporting} \cup Works)

PCs == {"none", "top", "newsell", "newsell_ok", "newsell_failed", "to_wait",
        "wait", "woken", "done", "perform", "failed", "block", "end", "ended",
        "sleep_over", "uncalled", "busy_flag", "busy_count", "post", "free",
        "free_flag", "free_count", "gone"}

TypeOK ==
  /\ unregistered \in BOOLEAN /\ idle \in BOOLEAN /\ raced \in BOOLEAN
  /\ blockers \in Int
  /\ lock \in Locking \cup {NoThread}
  /\ timers \in 0..failures /\ failures \in 0..MaxFailures
  /\ pc \in [Threads -> PCs]
  /\ loaded \in [Threads -> Int]

Free == lock = NoThread

(* cond.Broadcast: only a goroutine that waits already is woken.           *)
Broadcast(p) == IF p[Offering] = "wait" THEN [p EXCEPT ![Offering] = "woken"] ELSE p

Goto(t, from, to) == pc[t] = from /\ pc' = [pc EXCEPT ![t] = to]

Load(t) == loaded' = [loaded EXCEPT ![t] = blockers]

(* The store of Blockers++ or Blockers--.  An update that met another one  *)
(* loses it; an unlocked one may also come between what a goroutine with   *)
(* the lock reads and what it does.                                        *)
Store(t, d) ==
  /\ blockers' = loaded[t] + d
  /\ loaded' = [loaded EXCEPT ![t] = 0]
  /\ raced' = (\/ raced
               \/ loaded[t] # blockers
               \/ t \notin Locking /\ ~Free)

Init ==  (* RegisterWorker of an id that is not in the map *)
  /\ unregistered = FALSE
  /\ idle = TRUE
  /\ blockers = 0
  /\ lock = Offering
  /\ timers = 0 /\ failures = 0
  /\ pc = [t \in Threads |-> IF t = Offering THEN "top" ELSE "none"]
  /\ loaded = [t \in Threads |-> 0]
  /\ raced = FALSE
-----------------------------------------------------------------------------
(* The goroutine that offers the worker: offer().  It holds the lock but   *)
(* for the time it waits.                                                  *)

(* Mutant: a worker that is idle is offered, whatever else blocks it.      *)
OfferCheckIfIdle ==
  /\ pc[Offering] = "top"
  /\ pc' = [pc EXCEPT ![Offering] = IF unregistered THEN "done"
                                    ELSE IF idle THEN "newsell"
                                    ELSE "to_wait"]
  /\ lock' = IF unregistered THEN NoThread ELSE lock
  /\ UNCHANGED <<unregistered, idle, blockers, timers, loaded, failures, raced>>

OfferCheck ==
  /\ pc[Offering] = "top"
  /\ pc' = [pc EXCEPT ![Offering] = IF unregistered THEN "done"
                                   ELSE IF blockers = 0 THEN "newsell"
                                   ELSE "to_wait"]
  /\ lock' = IF unregistered THEN NoThread ELSE lock
  /\ UNCHANGED <<unregistered, idle, blockers, timers, loaded, failures, raced>>

CanSpawn == \E s \in Sells : pc[Sell(s)] = "none"
NextSell == CHOOSE s \in Sells : pc[Sell(s)] = "none"

Fail == failures < MaxFailures /\ failures' = failures + 1

(* Bounds: NewSell returns when there is a goroutine for what follows.     *)
NewSell ==
  /\ \/ CanSpawn /\ Goto(Offering, "newsell", "newsell_ok")
        /\ UNCHANGED failures
     \/ Fail /\ Goto(Offering, "newsell", "newsell_failed")
  /\ Load(Offering)
  /\ UNCHANGED <<unregistered, idle, blockers, lock, timers, raced>>

StartSell ==
  /\ pc[Offering] = "newsell_ok"
  /\ Store(Offering, 1)
  /\ pc' = [pc EXCEPT ![Offering] = "to_wait", ![Sell(NextSell)] = "perform",
                      ![Work(NextSell)] = "uncalled"]
  /\ UNCHANGED <<unregistered, idle, lock, timers, failures>>

(* Mutant: a failed NewSell starts the delay without counting it.          *)
NewSellFailedUncounted ==
  /\ Goto(Offering, "newsell_failed", "to_wait")
  /\ Store(Offering, 0)
  /\ timers' = timers + 1
  /\ UNCHANGED <<unregistered, idle, lock, failures>>

NewSellFailed ==  (* blockFor, with the lock *)
  /\ Goto(Offering, "newsell_failed", "to_wait")
  /\ Store(Offering, 1)
  /\ timers' = timers + 1
  /\ UNCHANGED <<unregistered, idle, lock, failures>>

Wait ==  (* cond.Wait gets on the list and unlocks *)
  /\ Goto(Offering, "to_wait", "wait")
  /\ lock' = NoThread
  /\ UNCHANGED <<unregistered, idle, blockers, timers, loaded, failures, raced>>

WakeUp ==
  /\ Free
  /\ Goto(Offering, "woken", "top")
  /\ lock' = Offering
  /\ UNCHANGED <<unregistered, idle, blockers, timers, loaded, failures, raced>>
-----------------------------------------------------------------------------
(* executeSell and the goroutines of blockFor.                             *)

PerformSell(s) ==
  /\ \/ Goto(Sell(s), "perform", "end") /\ UNCHANGED failures
     \/ Goto(Sell(s), "perform", "failed") /\ Fail
  /\ UNCHANGED <<unregistered, idle, blockers, lock, timers, loaded, raced>>

Acquire(t, from, to) ==
  /\ Free
  /\ lock' = t
  /\ Goto(t, from, to)
  /\ Load(t)
  /\ UNCHANGED <<unregistered, idle, blockers, timers, failures, raced>>

(* Mutant: the end of a blockage is not broadcast.                         *)
ReleaseSilently(t, from, to, d) ==
  /\ Goto(t, from, to)
  /\ Store(t, d)
  /\ lock' = NoThread
  /\ UNCHANGED <<unregistered, idle, failures>>

Release(t, from, to, d) ==
  /\ pc[t] = from
  /\ pc' = Broadcast([pc EXCEPT ![t] = to])
  /\ Store(t, d)
  /\ lock' = NoThread
  /\ UNCHANGED <<unregistered, idle, failures>>

SellFailed(s) ==  (* the sell's error delays the next one: blockFor *)
  \/ Acquire(Sell(s), "failed", "block")
  \/ Release(Sell(s), "block", "end", 1) /\ timers' = timers + 1

SellEnds(s) ==  (* Dispose and the deferred decrement *)
  \/ Acquire(Sell(s), "end", "ended")
  \/ Release(Sell(s), "ended", "gone", -1) /\ UNCHANGED timers

TimerFires ==
  \/ timers > 0 /\ Acquire(Waking, "none", "sleep_over")
  \/ Release(Waking, "sleep_over", "none", -1) /\ timers' = timers - 1
-----------------------------------------------------------------------------
(* setIdle: the test, the flag and the counter are steps of their own;     *)
(* the test comes when the lock was free.                                  *)

SetIdleTest(t, value, from, mid, to) ==
  /\ Free
  /\ Goto(t, from, IF idle = value THEN to ELSE mid)
  /\ UNCHANGED <<unregistered, idle, blockers, lock, timers, loaded, failures, raced>>

SetIdleFlag(t, value, from, to) ==
  /\ Goto(t, from, to)
  /\ idle' = value
  /\ Load(t)
  /\ raced' = (raced \/ idle = value)
  /\ UNCHANGED <<unregistered, blockers, lock, timers, failures>>

SetIdleCount(t, d, from, to) ==
  /\ pc[t] = from
  /\ pc' = Broadcast([pc EXCEPT ![t] = to])
  /\ Store(t, d)
  /\ UNCHANGED <<unregistered, idle, lock, timers, failures>>

SetBusy(s) ==
  \/ SetIdleTest(Work(s), FALSE, "uncalled", "busy_flag", "post")
  \/ SetIdleFlag(Work(s), FALSE, "busy_flag", "busy_count")
  \/ SetIdleCount(Work(s), 1, "busy_count", "post")

SetFree(t, from) ==
  \/ SetIdleTest(t, TRUE, from, "free_flag", "none")
  \/ SetIdleFlag(t, TRUE, "free_flag", "free_count")
  \/ SetIdleCount(t, -1, "free_count", "none")

(* The answer of the worker: none or a strange one, or one after which it  *)
(* will report back.                                                       *)
Post(s) ==
  /\ \E to \in {"free", "none"} : Goto(Work(s), "post", to)
  /\ UNCHANGED <<unregistered, idle, blockers, lock, timers, loaded, failures, raced>>

(* No work comes for the sell: its receiver is closed.                     *)
NotCalled(s) ==
  /\ Goto(Work(s), "uncalled", "none")
  /\ UNCHANGED <<unregistered, idle, blockers, lock, timers, loaded, failures, raced>>

DoWork(s) == SetBusy(s) \/ Post(s) \/ SetFree(Work(s), "free")

(* RegisterWorker of an id that is known: the worker reports back.         *)
Report ==
  /\ ~unregistered
  /\ Goto(Reporting, "none", "free")
  /\ UNCHANGED <<unregistered, idle, blockers, lock, timers, loaded, failures, raced>>

(* Mutant: unregistering wakes nobody up.                                  *)
UnregisterSilently ==
  /\ ~unregistered /\ pc[Reporting] = "none" /\ Free
  /\ unregistered' = TRUE
  /\ UNCHANGED <<idle, blockers, lock, timers, pc, loaded, failures, raced>>

(* RegisterWorker and UnregisterWorker exclude each other by the mutex of  *)
(* the manager.  The id may be registered again: as another WorkerState.   *)
UnregisterWorker ==
  /\ ~unregistered /\ pc[Reporting] = "none" /\ Free
  /\ unregistered' = TRUE
  /\ pc' = Broadcast(pc)
  /\ UNCHANGED <<idle, blockers, lock, timers, loaded, failures, raced>>

Offer ==
  \/ OfferCheck \/ NewSell \/ StartSell \/ NewSellFailed \/ Wait \/ WakeUp

Next ==
  \/ Offer \/ TimerFires \/ Report \/ SetFree(Reporting, "free") \/ UnregisterWorker
  \/ \E s \in Sells : \/ PerformSell(s) \/ SellFailed(s) \/ SellEnds(s)
                      \/ DoWork(s) \/ NotCalled(s)

Spec == Init /\ [][Next]_vars

(* As long as other goroutines can go on, one of them does, and so does    *)
(* the one that offers the worker.  Nobody owes a report, the end of a     *)
(* sell, the worker's answer or its unregistration.                        *)
Goroutine ==
  \/ TimerFires \/ SetFree(Reporting, "free")
  \/ \E s \in Sells : \/ SellFailed(s) \/ SellEnds(s)
                      \/ SetBusy(s) \/ SetFree(Work(s), "free")

Fairness == WF_vars(Offer) /\ WF_vars(Goroutine)

FairSpec == Spec /\ Fairness
-----------------------------------------------------------------------------
(* Properties.                                                             *)

At(p) == Cardinality({t \in Threads : pc[t] = p})
SellsRunning == Cardinality({s \in Sells : pc[Sell(s)] \notin {"none", "gone"}})

(* "count of currently blocking circumstances" (worker.go:48): the counter *)
(* stands for the sells being made, the delays after errors and a worker   *)
(* that is busy, but for the updates of setIdle that are under way.        *)
BlockersCounted ==
  ~raced =>
    blockers = SellsRunning + timers + (IF idle THEN 0 ELSE 1)
                 - At("busy_count") + At("free_count")

SettingIdle == At("busy_count") + At("free_count") > 0

(* "As long as a worker is marked as busy (not idle), no attempt is made   *)
(* to sell with it." (worker.go:184), nor while another sell is made or    *)
(* delayed.                                                                *)
NoSellWhileBlocked ==
  [][pc[Offering] = "top" /\ pc'[Offering] = "newsell" =>
       \/ idle /\ SellsRunning = 0 /\ timers = 0
       \/ SettingIdle \/ raced]_vars

Blocked == ~idle \/ timers > 0 \/ SellsRunning > 0 \/ SettingIdle

(* A registered worker that nothing blocks is offered again: the goroutine *)
(* that offers it does not sleep through the end of the last blockage.     *)
UnblockedWorkerOffered ==
  (~Blocked) ~> (pc[Offering] = "newsell" \/ Blocked \/ unregistered \/ raced)

AtBound == ~CanSpawn /\ failures = MaxFailures

(* Unregistering a worker ends the goroutine that offers it, whatever the  *)
(* races did to the counter.                                               *)
UnregisteredNotOffered == unregistered ~> (pc[Offering] = "done" \/ AtBound)
=============================================================================
