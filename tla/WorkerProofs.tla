---------------------------- MODULE WorkerProofs ----------------------------
(***************************************************************************)
(* The counter of a worker's blockers, for any number of sells and of      *)
(* failures: as long as no update without the lock met another one, it     *)
(* stands for what keeps the worker from being offered.                    *)
(***************************************************************************)
EXTENDS Worker, FiniteSetTheorems, TLAPS

-----------------------------------------------------------------------------
(***************************************************************************)
(* Goroutines and their sets.                                              *)
(***************************************************************************)
LEMMA ThreadsApart ==
  /\ Offering \in Threads /\ Reporting \in Threads /\ Waking \in Threads
  /\ Offering # Reporting /\ Offering # Waking /\ Reporting # Waking
  /\ \A s \in Sells : /\ Sell(s) \in Threads /\ Work(s) \in Threads
                      /\ Sell(s) \notin {Offering, Reporting, Waking}
                      /\ Work(s) \notin {Offering, Reporting, Waking}
  /\ \A r, s \in Sells : Sell(r) # Work(s) /\ (Sell(r) = Sell(s) => r = s)
                         /\ (Work(r) = Work(s) => r = s)
  BY DEF Offering, Reporting, Waking, Threads, Sell, Work, Works

LEMMA SellsFinite == IsFiniteSet(Sells)
  BY WorkerAssumption, FS_Interval DEF Sells

LEMMA ImageFinite ==
  ASSUME NEW f \in [Sells -> Threads]
  PROVE  IsFiniteSet({f[s] : s \in Sells})
<1>1. f \in Surjection(Sells, {f[s] : s \in Sells})
  BY DEF Surjection
<1>2. QED
  BY <1>1, SellsFinite, FS_Surjection

LEMMA ThreadsFinite == IsFiniteSet(Threads)
<1>1. IsFiniteSet({Sell(s) : s \in Sells})
  <2> DEFINE f == [s \in Sells |-> Sell(s)]
  <2>1. f \in [Sells -> Threads]
    BY ThreadsApart
  <2>2. {f[s] : s \in Sells} = {Sell(s) : s \in Sells}
    OBVIOUS
  <2>3. QED
    BY <2>1, <2>2, ImageFinite
<1>2. IsFiniteSet(Works)
  <2> DEFINE f == [s \in Sells |-> Work(s)]
  <2>1. f \in [Sells -> Threads]
    BY ThreadsApart
  <2>2. {f[s] : s \in Sells} = Works
    BY DEF Works
  <2>3. QED
    BY <2>1, <2>2, ImageFinite
<1>3. IsFiniteSet({Offering, Reporting, Waking})
  <2>1. IsFiniteSet({Offering})
    BY FS_Singleton
  <2>2. IsFiniteSet({Offering} \cup {Reporting})
    BY <2>1, FS_AddElement
  <2>3. IsFiniteSet(({Offering} \cup {Reporting}) \cup {Waking})
    BY <2>2, FS_AddElement
  <2>4. {Offering, Reporting, Waking} = ({Offering} \cup {Reporting}) \cup {Waking}
    OBVIOUS
  <2>5. QED
    BY <2>3, <2>4
<1>4. QED
  BY <1>1, <1>2, <1>3, FS_Union DEF Threads

(***************************************************************************)
(* How the counts change with the step of one goroutine.                   *)
(***************************************************************************)
LEMMA AtIsNat == ASSUME NEW r PROVE At(r) \in Nat /\ At(r)' \in Nat
<1>1. At(r) \in Nat
  BY ThreadsFinite, FS_Subset, FS_CardinalityType DEF At
<1>2. At(r)' \in Nat
  BY ThreadsFinite, FS_Subset, FS_CardinalityType DEF At
<1>3. QED
  BY <1>1, <1>2

LEMMA AtChanges ==
  ASSUME NEW r, NEW t \in Threads,
         \A u \in Threads \ {t} : pc'[u] = r <=> pc[u] = r
  PROVE  /\ pc[t] = r /\ pc'[t] # r => At(r)' = At(r) - 1
         /\ pc[t] # r /\ pc'[t] = r => At(r)' = At(r) + 1
         /\ (pc[t] = r <=> pc'[t] = r) => At(r)' = At(r)
<1> DEFINE before == {u \in Threads : pc[u] = r}
           after == {u \in Threads : pc'[u] = r}
<1>1. IsFiniteSet(before) /\ IsFiniteSet(after)
  BY ThreadsFinite, FS_Subset
<1>2. At(r) = Cardinality(before) /\ At(r)' = Cardinality(after)
  BY DEF At
<1>3. ASSUME pc[t] = r, pc'[t] # r PROVE At(r)' = At(r) - 1
  <2>1. after = before \ {t} /\ t \in before
    BY <1>3
  <2>2. QED
    BY <2>1, <1>1, <1>2, FS_RemoveElement
<1>4. ASSUME pc[t] # r, pc'[t] = r PROVE At(r)' = At(r) + 1
  <2>1. after = before \cup {t} /\ t \notin before
    BY <1>4
  <2>2. QED
    BY <2>1, <1>1, <1>2, FS_AddElement
<1>5. ASSUME pc[t] = r <=> pc'[t] = r PROVE At(r)' = At(r)
  <2>1. after = before
    BY <1>5
  <2>2. QED
    BY <2>1, <1>2
<1>6. QED
  BY <1>3, <1>4, <1>5

Away == {"none", "gone"}

LEMMA SellsRunningChange ==
  /\ SellsRunning \in Nat
  /\ (\A s \in Sells : pc'[Sell(s)] \in Away <=> pc[Sell(s)] \in Away)
       => SellsRunning' = SellsRunning
  /\ \A s \in Sells :
       (\A r \in Sells \ {s} : pc'[Sell(r)] \in Away <=> pc[Sell(r)] \in Away)
       => /\ pc[Sell(s)] \in Away /\ pc'[Sell(s)] \notin Away
               => SellsRunning' = SellsRunning + 1
          /\ pc[Sell(s)] \notin Away /\ pc'[Sell(s)] \in Away
               => SellsRunning' = SellsRunning - 1
<1> DEFINE before == {s \in Sells : pc[Sell(s)] \notin Away}
           after == {s \in Sells : pc'[Sell(s)] \notin Away}
<1>1. IsFiniteSet(before) /\ IsFiniteSet(after)
  BY SellsFinite, FS_Subset
<1>2. SellsRunning = Cardinality(before) /\ SellsRunning' = Cardinality(after)
  BY DEF SellsRunning, Away, Sell
<1>3. Cardinality(before) \in Nat
  BY <1>1, FS_CardinalityType
<1>4. ASSUME \A s \in Sells : pc'[Sell(s)] \in Away <=> pc[Sell(s)] \in Away
      PROVE  SellsRunning' = SellsRunning
  <2>1. after = before
    BY <1>4
  <2>2. QED
    BY <2>1, <1>2
<1>5. ASSUME NEW s \in Sells,
             \A r \in Sells \ {s} : pc'[Sell(r)] \in Away <=> pc[Sell(r)] \in Away
      PROVE  /\ pc[Sell(s)] \in Away /\ pc'[Sell(s)] \notin Away
                  => SellsRunning' = SellsRunning + 1
             /\ pc[Sell(s)] \notin Away /\ pc'[Sell(s)] \in Away
                  => SellsRunning' = SellsRunning - 1
  <2>1. ASSUME pc[Sell(s)] \in Away, pc'[Sell(s)] \notin Away
        PROVE  SellsRunning' = SellsRunning + 1
    <3>1. after = before \cup {s} /\ s \notin before
      BY <1>5, <2>1
    <3>2. QED
      BY <3>1, <1>1, <1>2, FS_AddElement
  <2>2. ASSUME pc[Sell(s)] \notin Away, pc'[Sell(s)] \in Away
        PROVE  SellsRunning' = SellsRunning - 1
    <3>1. after = before \ {s} /\ s \in before
      BY <1>5, <2>2
    <3>2. QED
      BY <3>1, <1>1, <1>2, FS_RemoveElement
  <2>3. QED
    BY <2>1, <2>2
<1>6. QED
  BY <1>2, <1>3, <1>4, <1>5

(***************************************************************************)
(* What one goroutine adds to the count, and the sum of it.                *)
(***************************************************************************)
SellThreads == {Sell(s) : s \in Sells}

Up == "busy_count"
Down == "free_count"
CountingUp == At(Up)
CountingDown == At(Down)
Held == SellsRunning - CountingUp + CountingDown

(* 1 if p is the place r, and if it is one of a sell that is being made.   *)
Is(p, r) == IF p = r THEN 1 ELSE 0
Runs(t, p) == IF t \in SellThreads /\ p \notin Away THEN 1 ELSE 0

Weight(t, p) == Runs(t, p) - Is(p, Up) + Is(p, Down)

LEMMA IsBit ==
  \A p, r : /\ Is(p, r) \in {0, 1}
            /\ Is(p, r) = 1 <=> p = r
            /\ Is(p, r) = 0 <=> p # r
  BY DEF Is

LEMMA AtMoves ==
  ASSUME NEW t \in Threads, NEW r,
         \A u \in Threads \ {t} : pc'[u] = r <=> pc[u] = r
  PROVE  At(r)' = At(r) + Is(pc'[t], r) - Is(pc[t], r)
<1>2. /\ pc[t] = r /\ pc'[t] # r => At(r)' = At(r) - 1
      /\ pc[t] # r /\ pc'[t] = r => At(r)' = At(r) + 1
      /\ (pc[t] = r <=> pc'[t] = r) => At(r)' = At(r)
  BY AtChanges
<1>3. At(r) \in Nat /\ At(r)' \in Nat
  BY AtIsNat
<1>4. PICK n \in Nat, m \in Nat : n = At(r) /\ m = At(r)'
  BY <1>3
<1>5. /\ pc[t] = r /\ pc'[t] # r => m = n - 1
      /\ pc[t] # r /\ pc'[t] = r => m = n + 1
      /\ (pc[t] = r <=> pc'[t] = r) => m = n
  BY <1>2, <1>4
<1>6. PICK p, q : p = pc[t] /\ q = pc'[t]
  OBVIOUS
<1>7. m = n + Is(q, r) - Is(p, r)
  <2>1. /\ Is(p, r) \in {0, 1} /\ Is(q, r) \in {0, 1}
        /\ Is(p, r) = 1 <=> p = r
        /\ Is(q, r) = 1 <=> q = r
        /\ Is(p, r) = 0 <=> p # r
        /\ Is(q, r) = 0 <=> q # r
    BY IsBit
  <2>2. PICK i \in {0, 1}, j \in {0, 1} : i = Is(p, r) /\ j = Is(q, r)
    BY <2>1
  <2>3. /\ i = 1 /\ j = 0 => m = n - 1
        /\ i = 0 /\ j = 1 => m = n + 1
        /\ i = j => m = n
    BY <2>1, <2>2, <1>5, <1>6
  <2>4. n \in Int /\ m \in Int
    OBVIOUS
  <2>5. m = n + j - i
    BY <2>2, <2>3, <2>4
  <2>6. QED
    BY <2>2, <2>5
<1>8. QED
  BY <1>4, <1>6, <1>7

LEMMA SellsRunningMoves ==
  ASSUME NEW t \in Threads,
         \A u \in SellThreads \ {t} : pc'[u] \in Away <=> pc[u] \in Away
  PROVE  SellsRunning' = SellsRunning + Runs(t, pc'[t]) - Runs(t, pc[t])
<1>1. SellsRunning \in Nat
  BY SellsRunningChange
<1>2. CASE t \in SellThreads
  <2>1. PICK s \in Sells : t = Sell(s)
    BY <1>2 DEF SellThreads
  <2>2. \A r \in Sells \ {s} : pc'[Sell(r)] \in Away <=> pc[Sell(r)] \in Away
    BY <2>1, ThreadsApart DEF SellThreads
  <2>3. /\ pc[t] \in Away /\ pc'[t] \notin Away => SellsRunning' = SellsRunning + 1
        /\ pc[t] \notin Away /\ pc'[t] \in Away => SellsRunning' = SellsRunning - 1
    BY <2>1, <2>2, SellsRunningChange
  <2>4. ASSUME pc[t] \in Away <=> pc'[t] \in Away PROVE SellsRunning' = SellsRunning
    <3>1. \A r \in Sells : pc'[Sell(r)] \in Away <=> pc[Sell(r)] \in Away
      BY <2>1, <2>2, <2>4
    <3>2. QED
      BY <3>1, SellsRunningChange
  <2>5. QED
    BY <1>1, <1>2, <2>3, <2>4 DEF Runs
<1>3. CASE t \notin SellThreads
  <2>1. \A s \in Sells : pc'[Sell(s)] \in Away <=> pc[Sell(s)] \in Away
    BY <1>3, ThreadsApart DEF SellThreads
  <2>2. SellsRunning' = SellsRunning
    BY <2>1, SellsRunningChange
  <2>3. QED
    BY <1>1, <1>3, <2>2 DEF Runs
<1>4. QED
  BY <1>2, <1>3

LEMMA HeldChange ==
  ASSUME NEW t \in Threads,
         \A u \in Threads \ {t} : pc'[u] = Up <=> pc[u] = Up,
         \A u \in Threads \ {t} : pc'[u] = Down <=> pc[u] = Down,
         \A u \in SellThreads \ {t} : pc'[u] \in Away <=> pc[u] \in Away
  PROVE  /\ Held \in Int
         /\ Held' = Held + Weight(t, pc'[t]) - Weight(t, pc[t])
<1>1. PICK p, q : p = pc[t] /\ q = pc'[t]
  OBVIOUS
<1>2. PICK w, x, bp, bq, fp, fq :
         /\ w = Runs(t, q) /\ x = Runs(t, p)
         /\ bp = Is(p, Up) /\ bq = Is(q, Up) /\ fp = Is(p, Down) /\ fq = Is(q, Down)
  OBVIOUS
<1>3. /\ SellsRunning' = SellsRunning + w - x
      /\ CountingUp' = CountingUp + bq - bp
      /\ CountingDown' = CountingDown + fq - fp
  <2>1. SellsRunning' = SellsRunning + Runs(t, pc'[t]) - Runs(t, pc[t])
    BY SellsRunningMoves
  <2>2. CountingUp' = CountingUp + Is(pc'[t], Up) - Is(pc[t], Up)
    BY AtMoves DEF CountingUp
  <2>3. CountingDown' = CountingDown + Is(pc'[t], Down) - Is(pc[t], Down)
    BY AtMoves DEF CountingDown
  <2>4. QED
    BY <1>1, <1>2, <2>1, <2>2, <2>3
<1>4. SellsRunning \in Nat /\ CountingUp \in Nat /\ CountingDown \in Nat
  BY SellsRunningChange, AtIsNat DEF CountingUp, CountingDown
<1>5. w \in {0, 1} /\ x \in {0, 1}
  BY <1>2 DEF Runs
<1>6. bp \in {0, 1} /\ bq \in {0, 1} /\ fp \in {0, 1} /\ fq \in {0, 1}
  BY <1>2, IsBit
<1>7. Weight(t, q) = w - bq + fq /\ Weight(t, p) = x - bp + fp
  BY <1>2 DEF Weight
<1>8. Held = SellsRunning - CountingUp + CountingDown
  BY DEF Held
<1>9. Held' = SellsRunning' - CountingUp' + CountingDown'
  BY DEF Held
<1>10. Held \in Int /\ Held' = Held + (w - bq + fq) - (x - bp + fp)
  BY <1>3, <1>4, <1>5, <1>6, <1>8, <1>9
<1>11. QED
  BY <1>1, <1>7, <1>10

-----------------------------------------------------------------------------
(***************************************************************************)
(* The invariant.  A sell that is about to start has a goroutine that did  *)
(* not run yet, a sell is given its work when it starts, and a goroutine   *)
(* of blockFor that wakes is one of those that slept.                      *)
(***************************************************************************)
Shape ==
  /\ pc = [t \in Threads |-> pc[t]]
  /\ idle \in BOOLEAN /\ raced \in BOOLEAN
  /\ blockers \in Int /\ timers \in Nat
  /\ loaded \in [Threads -> Int]

CanStart == pc[Offering] = "newsell_ok" => CanSpawn
WorkAfterSell == \A s \in Sells : pc[Sell(s)] = "none" => pc[Work(s)] = "none"
Asleep == pc[Waking] = "sleep_over" => timers > 0

Inv == Shape /\ CanStart /\ WorkAfterSell /\ Asleep /\ BlockersCounted

Busy == IF idle THEN 0 ELSE 1

Balanced == ~raced => blockers = Held + timers + Busy

LEMMA CountedIsBalanced == Shape => (BlockersCounted <=> Balanced)
<1> SUFFICES ASSUME Shape PROVE BlockersCounted <=> Balanced
  OBVIOUS
<1>1. SellsRunning \in Nat /\ CountingUp \in Nat /\ CountingDown \in Nat
  BY SellsRunningChange, AtIsNat DEF CountingUp, CountingDown
<1>2. timers \in Int /\ Busy \in Int
  BY DEF Shape, Busy
<1>3. SellsRunning + timers + Busy - CountingUp + CountingDown = Held + timers + Busy
  BY <1>1, <1>2 DEF Held
<1>4. BlockersCounted
        <=> (~raced => blockers = SellsRunning + timers + Busy - CountingUp + CountingDown)
  BY Zenon DEF BlockersCounted, Busy, CountingUp, CountingDown, Up, Down
<1>5. QED
  BY <1>3, <1>4, Zenon DEF Balanced

LEMMA CountedIsBalancedNext == Shape' => (BlockersCounted' <=> Balanced')
BY CountedIsBalanced, PTL

(***************************************************************************)
(* A goroutine moves from one place to another.  It may wake up the one    *)
(* that offers the worker.                                                 *)
(***************************************************************************)
LEMMA MoveHeld ==
  ASSUME NEW t \in Threads, NEW from, NEW to, pc[t] = from, pc'[t] = to,
         \A u \in Threads \ {t} :
           \/ pc'[u] = pc[u]
           \/ u = Offering /\ pc[u] = "wait" /\ pc'[u] = "woken"
  PROVE  /\ Held \in Int
         /\ Held' = Held + Weight(t, to) - Weight(t, from)
<1>1. \A u \in Threads \ {t} : pc'[u] = Up <=> pc[u] = Up
  BY DEF Up
<1>2. \A u \in Threads \ {t} : pc'[u] = Down <=> pc[u] = Down
  BY DEF Down
<1>3. \A u \in SellThreads \ {t} : pc'[u] = pc[u]
  BY ThreadsApart DEF SellThreads
<1>4. QED
  BY <1>1, <1>2, <1>3, HeldChange

LEMMA GotoMoves ==
  ASSUME NEW t \in Threads, NEW from, NEW to,
         pc = [u \in Threads |-> pc[u]], Goto(t, from, to)
  PROVE  /\ pc[t] = from /\ pc'[t] = to /\ pc' = [u \in Threads |-> pc'[u]]
         /\ \A u \in Threads \ {t} : pc'[u] = pc[u]
  BY DEF Goto

LEMMA BroadcastMoves ==
  ASSUME NEW t \in Threads \ {Offering}, NEW to,
         pc = [u \in Threads |-> pc[u]],
         pc' = Broadcast([pc EXCEPT ![t] = to])
  PROVE  /\ pc'[t] = to /\ pc' = [u \in Threads |-> pc'[u]]
         /\ \A u \in Threads \ {t} :
              \/ pc'[u] = pc[u]
              \/ u = Offering /\ pc[u] = "wait" /\ pc'[u] = "woken"
<1>1. Offering \in Threads
  BY ThreadsApart
<1>2. CASE pc[Offering] = "wait"
  <2>1. pc' = [pc EXCEPT ![t] = to, ![Offering] = "woken"]
    BY <1>1, <1>2 DEF Broadcast
  <2>2. QED
    BY <1>1, <1>2, <2>1
<1>3. CASE pc[Offering] # "wait"
  <2>1. pc' = [pc EXCEPT ![t] = to]
    BY <1>1, <1>3 DEF Broadcast
  <2>2. QED
    BY <1>1, <2>1
<1>4. QED
  BY <1>2, <1>3

LEMMA StoreCounts ==
  ASSUME NEW t \in Threads, NEW d \in Int, Shape, Store(t, d)
  PROVE  /\ blockers' \in Int /\ loaded' \in [Threads -> Int] /\ raced' \in BOOLEAN
         /\ ~raced' => ~raced /\ blockers' = blockers + d
<1>1. loaded[t] \in Int /\ blockers \in Int
  BY DEF Shape
<1>2. blockers' = loaded[t] + d
  BY DEF Store
<1>3. blockers' \in Int
  BY <1>1, <1>2
<1>4. loaded' \in [Threads -> Int]
  BY DEF Store, Shape
<1>5. raced' \in BOOLEAN
  BY DEF Store, Shape
<1>6. ~raced' => ~raced /\ loaded[t] = blockers
  BY Zenon DEF Store
<1>7. QED
  BY <1>2, <1>3, <1>4, <1>5, <1>6

LEMMA MoveKeeps ==
  ASSUME Inv, NEW t \in Threads, NEW from, NEW to, pc[t] = from, pc'[t] = to,
         pc' = [u \in Threads |-> pc'[u]],
         \A u \in Threads \ {t} :
           \/ pc'[u] = pc[u]
           \/ u = Offering /\ pc[u] = "wait" /\ pc'[u] = "woken",
         to = "newsell_ok" => \E s \in Sells : pc[Sell(s)] = "none",
         from = "none" => t \in {Reporting, Waking},
         to = "none" => t \notin SellThreads,
         t = Waking /\ to = "sleep_over" => timers' > 0,
         t # Waking => timers' >= timers,
         idle' \in BOOLEAN, raced' \in BOOLEAN, blockers' \in Int, timers' \in Nat,
         loaded' \in [Threads -> Int],
         NEW w \in Int, Held \in Int, Held' = Held + w,
         ~raced' => ~raced /\ blockers' = blockers + w + (timers' - timers) + (Busy' - Busy)
  PROVE  Inv'
<1>1. Shape'
  BY DEF Shape
<1>2. CanStart'
  <2> SUFFICES ASSUME pc'[Offering] = "newsell_ok" PROVE CanSpawn'
    BY DEF CanStart
  <2>1. pc[Offering] = "newsell_ok" => CanSpawn
    BY DEF Inv, CanStart
  <2>3. PICK s \in Sells : pc[Sell(s)] = "none"
    BY <2>1, ThreadsApart DEF CanSpawn
  <2>4. pc'[Sell(s)] = "none"
    BY <2>3, ThreadsApart
  <2>5. QED
    BY <2>4 DEF CanSpawn, Sells
<1>3. WorkAfterSell'
  <2> SUFFICES ASSUME NEW s \in Sells, pc'[Sell(s)] = "none"
               PROVE  pc'[Work(s)] = "none"
    BY DEF WorkAfterSell, Sells, Sell, Work
  <2>1. pc[Sell(s)] = "none" => pc[Work(s)] = "none"
    BY DEF Inv, WorkAfterSell
  <2>2. Sell(s) # t
    BY DEF SellThreads
  <2>3. pc[Work(s)] = "none"
    BY <2>1, <2>2, ThreadsApart
  <2>4. QED
    BY <2>3, ThreadsApart
<1>4. Asleep'
  <2> SUFFICES ASSUME pc'[Waking] = "sleep_over" PROVE timers' > 0
    BY DEF Asleep
  <2>1. timers \in Nat
    BY DEF Inv, Shape
  <2>2. pc[Waking] = "sleep_over" => timers > 0
    BY DEF Inv, Asleep
  <2>3. QED
    BY <2>1, <2>2, ThreadsApart
<1>5. BlockersCounted'
  <2>1. timers \in Int /\ blockers \in Int /\ Busy \in Int /\ Busy' \in Int /\ timers' \in Int
    BY DEF Inv, Shape, Busy
  <2>2. ~raced => blockers = Held + timers + Busy
    BY CountedIsBalanced DEF Inv, Balanced
  <2>3. ~raced' => blockers' = Held' + timers' + Busy'
    BY <2>1, <2>2
  <2>4. Balanced'
    BY <2>3 DEF Balanced
  <2>5. QED
    BY <1>1, <2>4, CountedIsBalancedNext
<1>6. QED
  BY <1>1, <1>2, <1>3, <1>4, <1>5 DEF Inv

LEMMA WeightIsInt == \A t, p : Weight(t, p) \in Int
  BY DEF Weight, Runs, Is

LEMMA WeightOf ==
  ASSUME NEW t, NEW p
  PROVE  /\ t \notin SellThreads /\ p = "busy_count" => Weight(t, p) = -1
         /\ t \notin SellThreads /\ p = "free_count" => Weight(t, p) = 1
         /\ t \notin SellThreads /\ p \notin {"busy_count", "free_count"} => Weight(t, p) = 0
         /\ p \in {"none", "gone"} => Weight(t, p) = 0
         /\ t \in SellThreads /\ p \notin {"none", "gone", "busy_count", "free_count"}
              => Weight(t, p) = 1
  BY DEF Weight, Runs, Is, Away, Up, Down

(* A move that neither starts nor ends what is counted.                    *)
LEMMA MoveKeepsQuiet ==
  ASSUME Inv, NEW t \in Threads, NEW from, NEW to, pc[t] = from, pc'[t] = to,
         pc' = [u \in Threads |-> pc'[u]],
         \A u \in Threads \ {t} :
           \/ pc'[u] = pc[u]
           \/ u = Offering /\ pc[u] = "wait" /\ pc'[u] = "woken",
         to = "newsell_ok" => \E s \in Sells : pc[Sell(s)] = "none",
         from = "none" => t \in {Reporting, Waking},
         to = "none" => t \notin SellThreads,
         t = Waking /\ to = "sleep_over" => timers > 0,
         loaded' \in [Threads -> Int],
         Held \in Int, Held' = Held,
         UNCHANGED <<idle, blockers, timers, raced>>
  PROVE  Inv'
<1>1. idle \in BOOLEAN /\ raced \in BOOLEAN /\ blockers \in Int /\ timers \in Nat
  BY DEF Inv, Shape
<1>2. Busy \in Int /\ Busy' = Busy
  BY DEF Busy
<1>3. blockers = blockers + 0 + (timers - timers) + (Busy - Busy)
  BY <1>1, <1>2
<1>4. /\ t # Waking => timers' >= timers
      /\ t = Waking /\ to = "sleep_over" => timers' > 0
  BY <1>1
<1>5. ~raced' => ~raced /\ blockers' = blockers + 0 + (timers' - timers) + (Busy' - Busy)
  BY <1>2, <1>3
<1>6. idle' \in BOOLEAN /\ raced' \in BOOLEAN /\ blockers' \in Int /\ timers' \in Nat
  BY <1>1
<1>7. Held' = Held + 0 /\ 0 \in Int
  OBVIOUS
<1>8. QED
  BY <1>4, <1>5, <1>6, <1>7, MoveKeeps
-----------------------------------------------------------------------------
(***************************************************************************)
(* The goroutine that offers the worker.                                   *)
(***************************************************************************)
LEMMA OfferingIsNoSell ==
  /\ Offering \in Threads \ SellThreads /\ Reporting \in Threads \ SellThreads
  /\ Waking \in Threads \ SellThreads /\ Works \subseteq Threads \ SellThreads
  /\ SellThreads \subseteq Threads
  BY ThreadsApart DEF SellThreads, Works

LEMMA QuietGotoKeeps ==
  ASSUME Inv, NEW t \in Threads, NEW from, NEW to, Goto(t, from, to),
         to = "newsell_ok" => \E s \in Sells : pc[Sell(s)] = "none",
         from = "none" => t \in {Reporting, Waking},
         to = "none" => t \notin SellThreads,
         t = Waking /\ to = "sleep_over" => timers > 0,
         loaded' \in [Threads -> Int],
         Weight(t, from) = Weight(t, to),
         UNCHANGED <<idle, blockers, timers, raced>>
  PROVE  Inv'
<1>1. /\ pc[t] = from /\ pc'[t] = to /\ pc' = [u \in Threads |-> pc'[u]]
      /\ \A u \in Threads \ {t} : pc'[u] = pc[u]
  BY GotoMoves DEF Inv, Shape
<1>2. Held \in Int /\ Held' = Held + Weight(t, to) - Weight(t, from)
  BY <1>1, MoveHeld
<1>3. Weight(t, to) \in Int
  BY WeightIsInt
<1>4. Held' = Held
  BY <1>2, <1>3
<1>5. QED
  BY <1>1, <1>2, <1>4, MoveKeepsQuiet

(* A goroutine stores the counter and wakes up the one that offers.        *)
LEMMA ReleaseKeeps ==
  ASSUME Inv, NEW t \in Threads \ {Offering}, NEW from, NEW to, NEW d \in Int,
         pc[t] = from, pc' = Broadcast([pc EXCEPT ![t] = to]), Store(t, d),
         from # "none", to \notin {"newsell_ok", "sleep_over"},
         to = "none" => t \notin SellThreads,
         t # Waking => timers' >= timers,
         timers' \in Nat, idle' = idle,
         d = (Weight(t, to) - Weight(t, from)) + (timers' - timers)
  PROVE  Inv'
<1>1. /\ pc'[t] = to /\ pc' = [u \in Threads |-> pc'[u]]
      /\ \A u \in Threads \ {t} :
           \/ pc'[u] = pc[u]
           \/ u = Offering /\ pc[u] = "wait" /\ pc'[u] = "woken"
  BY BroadcastMoves DEF Inv, Shape
<1>2. Held \in Int /\ Held' = Held + Weight(t, to) - Weight(t, from)
  BY <1>1, MoveHeld
<1>3. /\ blockers' \in Int /\ loaded' \in [Threads -> Int] /\ raced' \in BOOLEAN
      /\ ~raced' => ~raced /\ blockers' = blockers + d
  BY StoreCounts DEF Inv
<1>4. PICK w \in Int : w = Weight(t, to) - Weight(t, from)
  BY WeightIsInt
<1>5. Held' = Held + w
  <2>1. Weight(t, to) \in Int /\ Weight(t, from) \in Int
    BY WeightIsInt
  <2>2. QED
    BY <1>2, <1>4, <2>1
<1>6. idle' \in BOOLEAN /\ timers \in Nat /\ blockers \in Int
  BY DEF Inv, Shape
<1>7. Busy' = Busy /\ Busy \in Int
  BY DEF Busy
<1>8. ~raced' => ~raced /\ blockers' = blockers + w + (timers' - timers) + (Busy' - Busy)
  BY <1>3, <1>4, <1>6, <1>7
<1>9. QED
  BY <1>1, <1>2, <1>3, <1>5, <1>6, <1>8, MoveKeeps

LEMMA OfferCheckKeeps == Inv /\ OfferCheck => Inv'
<1> SUFFICES ASSUME Inv, OfferCheck PROVE Inv'
  OBVIOUS
<1>1. PICK to \in {"done", "newsell", "to_wait"} : pc' = [pc EXCEPT ![Offering] = to]
  BY DEF OfferCheck
<1>2. Goto(Offering, "top", to) /\ UNCHANGED <<idle, blockers, timers, raced, loaded>>
  BY <1>1 DEF OfferCheck, Goto
<1>3. Weight(Offering, "top") = Weight(Offering, to)
  BY OfferingIsNoSell, WeightOf
<1>4. loaded' \in [Threads -> Int]
  BY <1>2 DEF Inv, Shape
<1>5. QED
  BY <1>2, <1>3, <1>4, OfferingIsNoSell, ThreadsApart, QuietGotoKeeps

LEMMA LoadTyped == \A t : Shape /\ Load(t) => loaded' \in [Threads -> Int]
  BY DEF Shape, Load

LEMMA NewSellKeeps == Inv /\ NewSell => Inv'
<1> SUFFICES ASSUME Inv, NewSell PROVE Inv'
  OBVIOUS
<1>1. PICK to \in {"newsell_ok", "newsell_failed"} :
        Goto(Offering, "newsell", to) /\ (to = "newsell_ok" => CanSpawn)
  BY DEF NewSell
<1>2. Weight(Offering, "newsell") = Weight(Offering, to)
  BY OfferingIsNoSell, WeightOf
<1>3. loaded' \in [Threads -> Int]
  BY LoadTyped DEF Inv, NewSell
<1>4. UNCHANGED <<idle, blockers, timers, raced>>
  BY DEF NewSell
<1>5. to = "newsell_ok" => \E s \in Sells : pc[Sell(s)] = "none"
  BY <1>1 DEF CanSpawn
<1>6. QED
  BY <1>1, <1>2, <1>3, <1>4, <1>5, OfferingIsNoSell, ThreadsApart, QuietGotoKeeps

LEMMA NewSellFailedKeeps == Inv /\ NewSellFailed => Inv'
<1> SUFFICES ASSUME Inv, NewSellFailed PROVE Inv'
  OBVIOUS
<1>1. Goto(Offering, "newsell_failed", "to_wait") /\ Store(Offering, 1)
      /\ timers' = timers + 1 /\ idle' = idle
  BY DEF NewSellFailed
<1>2. /\ pc[Offering] = "newsell_failed" /\ pc'[Offering] = "to_wait"
      /\ pc' = [u \in Threads |-> pc'[u]]
      /\ \A u \in Threads \ {Offering} : pc'[u] = pc[u]
  BY <1>1, OfferingIsNoSell, GotoMoves DEF Inv, Shape
<1>3. /\ blockers' \in Int /\ loaded' \in [Threads -> Int] /\ raced' \in BOOLEAN
      /\ ~raced' => ~raced /\ blockers' = blockers + 1
  BY <1>1, OfferingIsNoSell, StoreCounts DEF Inv
<1>4. Weight(Offering, "newsell_failed") = 0 /\ Weight(Offering, "to_wait") = 0
  BY OfferingIsNoSell, WeightOf
<1>5. Held \in Int /\ Held' = Held + 0
  BY <1>2, <1>4, OfferingIsNoSell, MoveHeld
<1>6. idle' \in BOOLEAN /\ timers \in Nat /\ timers' \in Nat /\ timers' >= timers /\ blockers \in Int
  BY <1>1 DEF Inv, Shape
<1>7. Busy' = Busy /\ Busy \in Int
  BY <1>1 DEF Busy
<1>8. ~raced' => ~raced /\ blockers' = blockers + 0 + (timers' - timers) + (Busy' - Busy)
  BY <1>1, <1>3, <1>6, <1>7
<1>9. QED
  BY <1>2, <1>3, <1>5, <1>6, <1>8, OfferingIsNoSell, ThreadsApart, MoveKeeps

LEMMA WaitKeeps == Inv /\ (Wait \/ WakeUp) => Inv'
<1> SUFFICES ASSUME Inv, Wait \/ WakeUp PROVE Inv'
  OBVIOUS
<1>1. PICK from \in {"to_wait", "woken"}, to \in {"wait", "top"} : Goto(Offering, from, to)
  BY DEF Wait, WakeUp
<1>2. UNCHANGED <<idle, blockers, timers, raced, loaded>>
  BY DEF Wait, WakeUp
<1>3. Weight(Offering, from) = Weight(Offering, to)
  BY OfferingIsNoSell, WeightOf
<1>4. loaded' \in [Threads -> Int]
  BY <1>2 DEF Inv, Shape
<1>5. QED
  BY <1>1, <1>2, <1>3, <1>4, OfferingIsNoSell, ThreadsApart, QuietGotoKeeps

(* The goroutines of the sell start, and the one that offers goes on.      *)
LEMMA StartSellKeeps == Inv /\ StartSell => Inv'
<1> SUFFICES ASSUME Inv, StartSell PROVE Inv'
  OBVIOUS
<1>1. PICK n \in Sells : n = NextSell /\ pc[Sell(n)] = "none"
  <2>1. CanSpawn
    BY DEF Inv, CanStart, StartSell
  <2>2. QED
    BY <2>1 DEF CanSpawn, NextSell
<1>2. pc[Work(n)] = "none" /\ pc[Offering] = "newsell_ok"
  BY <1>1 DEF Inv, WorkAfterSell, StartSell
<1>3. /\ Sell(n) \in Threads /\ Work(n) \in Threads /\ Offering \in Threads
      /\ Sell(n) # Work(n) /\ Sell(n) # Offering /\ Work(n) # Offering
      /\ Work(n) \notin SellThreads /\ Offering \notin SellThreads /\ Sell(n) \in SellThreads
      /\ Waking \notin {Sell(n), Work(n), Offering}
  BY ThreadsApart DEF SellThreads
<1>4. pc' = [pc EXCEPT ![Offering] = "to_wait", ![Sell(n)] = "perform", ![Work(n)] = "uncalled"]
  BY <1>1 DEF StartSell
<1>5. pc = [u \in Threads |-> pc[u]]
  BY DEF Inv, Shape
<1>6. /\ pc' = [u \in Threads |-> pc'[u]]
      /\ pc'[Offering] = "to_wait" /\ pc'[Sell(n)] = "perform" /\ pc'[Work(n)] = "uncalled"
      /\ \A u \in Threads \ {Offering, Sell(n), Work(n)} : pc'[u] = pc[u]
  BY <1>3, <1>4, <1>5
<1>7. Store(Offering, 1) /\ UNCHANGED <<idle, timers>>
  BY DEF StartSell
<1>8. /\ blockers' \in Int /\ loaded' \in [Threads -> Int] /\ raced' \in BOOLEAN
      /\ ~raced' => ~raced /\ blockers' = blockers + 1
  BY <1>3, <1>7, StoreCounts DEF Inv
<1>9. Shape'
  BY <1>6, <1>7, <1>8 DEF Inv, Shape
<1>10. CanStart'
  BY <1>6 DEF CanStart
<1>11. WorkAfterSell'
  <2> SUFFICES ASSUME NEW s \in Sells, pc'[Sell(s)] = "none" PROVE pc'[Work(s)] = "none"
    BY DEF WorkAfterSell, Sells, Sell, Work
  <2>1. s # n
    BY <1>6
  <2>2. pc'[Sell(s)] = pc[Sell(s)] /\ pc'[Work(s)] = pc[Work(s)]
    BY <2>1, <1>6, ThreadsApart
  <2>3. QED
    BY <2>2 DEF Inv, WorkAfterSell
<1>12. Asleep'
  BY <1>3, <1>6, <1>7, ThreadsApart DEF Inv, Asleep
<1>13. Held \in Int /\ Held' = Held + 1
  <2>1. \A u \in Threads \ {Sell(n)} : pc'[u] = Up <=> pc[u] = Up
    BY <1>2, <1>6 DEF Up
  <2>2. \A u \in Threads \ {Sell(n)} : pc'[u] = Down <=> pc[u] = Down
    BY <1>2, <1>6 DEF Down
  <2>3. \A u \in SellThreads \ {Sell(n)} : pc'[u] \in Away <=> pc[u] \in Away
    BY <1>3, <1>6, OfferingIsNoSell
  <2>4. /\ Held \in Int
        /\ Held' = Held + Weight(Sell(n), pc'[Sell(n)]) - Weight(Sell(n), pc[Sell(n)])
    BY <1>3, <2>1, <2>2, <2>3, HeldChange
  <2>5. Weight(Sell(n), "perform") = 1 /\ Weight(Sell(n), "none") = 0
    BY <1>3, WeightOf
  <2>6. QED
    BY <1>1, <1>6, <2>4, <2>5
<1>14. BlockersCounted'
  <2>1. ~raced => blockers = Held + timers + Busy
    BY CountedIsBalanced DEF Inv, Balanced
  <2>2. timers \in Int /\ blockers \in Int /\ Busy \in Int /\ Busy' = Busy
    BY <1>7 DEF Inv, Shape, Busy
  <2>3. ~raced' => blockers' = Held' + timers' + Busy'
    BY <1>7, <1>8, <1>13, <2>1, <2>2
  <2>4. Balanced'
    BY <2>3 DEF Balanced
  <2>5. QED
    BY <1>9, <2>4, CountedIsBalancedNext
<1>15. QED
  BY <1>9, <1>10, <1>11, <1>12, <1>14 DEF Inv
-----------------------------------------------------------------------------
(***************************************************************************)
(* Sells, the delays after errors, and setIdle.                            *)
(***************************************************************************)
LEMMA PerformSellKeeps == \A s \in Sells : Inv /\ PerformSell(s) => Inv'
<1> SUFFICES ASSUME NEW s \in Sells, Inv, PerformSell(s) PROVE Inv'
  OBVIOUS
<1>1. Sell(s) \in SellThreads /\ Sell(s) \in Threads \ {Reporting, Waking, Offering}
  BY ThreadsApart DEF SellThreads
<1>2. PICK to \in {"end", "failed"} : Goto(Sell(s), "perform", to)
  BY DEF PerformSell
<1>3. UNCHANGED <<idle, blockers, timers, raced, loaded>>
  BY DEF PerformSell
<1>4. Weight(Sell(s), "perform") = Weight(Sell(s), to)
  BY <1>1, WeightOf
<1>5. loaded' \in [Threads -> Int]
  BY <1>3 DEF Inv, Shape
<1>6. QED
  BY <1>1, <1>2, <1>3, <1>4, <1>5, QuietGotoKeeps

LEMMA SellFailedKeeps == \A s \in Sells : Inv /\ SellFailed(s) => Inv'
<1> SUFFICES ASSUME NEW s \in Sells, Inv, SellFailed(s) PROVE Inv'
  OBVIOUS
<1>1. Sell(s) \in SellThreads /\ Sell(s) \in Threads \ {Reporting, Waking, Offering}
  BY ThreadsApart DEF SellThreads
<1>2. /\ Weight(Sell(s), "failed") = 1 /\ Weight(Sell(s), "block") = 1
      /\ Weight(Sell(s), "end") = 1
  BY <1>1, WeightOf
<1>3. CASE Acquire(Sell(s), "failed", "block")
  <2>1. Goto(Sell(s), "failed", "block") /\ Load(Sell(s))
        /\ UNCHANGED <<idle, blockers, timers, raced>>
    BY <1>3 DEF Acquire
  <2>2. loaded' \in [Threads -> Int]
    BY <2>1, LoadTyped DEF Inv
  <2>3. QED
    BY <1>1, <1>2, <2>1, <2>2, QuietGotoKeeps
<1>4. CASE Release(Sell(s), "block", "end", 1) /\ timers' = timers + 1
  <2>1. /\ pc[Sell(s)] = "block" /\ pc' = Broadcast([pc EXCEPT ![Sell(s)] = "end"])
        /\ Store(Sell(s), 1) /\ idle' = idle
    BY <1>4 DEF Release
  <2>2. timers \in Nat /\ timers' \in Nat /\ timers' >= timers
    BY <1>4 DEF Inv, Shape
  <2>3. 1 = (Weight(Sell(s), "end") - Weight(Sell(s), "block")) + (timers' - timers)
    BY <1>2, <1>4, <2>2
  <2>4. QED
    BY <1>1, <2>1, <2>2, <2>3, ReleaseKeeps
<1>5. QED
  BY <1>3, <1>4 DEF SellFailed

LEMMA SellEndsKeeps == \A s \in Sells : Inv /\ SellEnds(s) => Inv'
<1> SUFFICES ASSUME NEW s \in Sells, Inv, SellEnds(s) PROVE Inv'
  OBVIOUS
<1>1. Sell(s) \in SellThreads /\ Sell(s) \in Threads \ {Reporting, Waking, Offering}
  BY ThreadsApart DEF SellThreads
<1>2. /\ Weight(Sell(s), "end") = 1 /\ Weight(Sell(s), "ended") = 1
      /\ Weight(Sell(s), "gone") = 0
  BY <1>1, WeightOf
<1>3. CASE Acquire(Sell(s), "end", "ended")
  <2>1. Goto(Sell(s), "end", "ended") /\ Load(Sell(s))
        /\ UNCHANGED <<idle, blockers, timers, raced>>
    BY <1>3 DEF Acquire
  <2>2. loaded' \in [Threads -> Int]
    BY <2>1, LoadTyped DEF Inv
  <2>3. QED
    BY <1>1, <1>2, <2>1, <2>2, QuietGotoKeeps
<1>4. CASE Release(Sell(s), "ended", "gone", -1) /\ UNCHANGED timers
  <2>1. /\ pc[Sell(s)] = "ended" /\ pc' = Broadcast([pc EXCEPT ![Sell(s)] = "gone"])
        /\ Store(Sell(s), -1) /\ idle' = idle
    BY <1>4 DEF Release
  <2>2. timers \in Nat /\ timers' \in Nat /\ timers' >= timers
    BY <1>4 DEF Inv, Shape
  <2>3. -1 = (Weight(Sell(s), "gone") - Weight(Sell(s), "ended")) + (timers' - timers)
    BY <1>2, <1>4, <2>2
  <2>4. -1 \in Int
    OBVIOUS
  <2>5. QED
    BY <1>1, <2>1, <2>2, <2>3, <2>4, ReleaseKeeps
<1>5. QED
  BY <1>3, <1>4 DEF SellEnds

LEMMA TimerFiresKeeps == Inv /\ TimerFires => Inv'
<1> SUFFICES ASSUME Inv, TimerFires PROVE Inv'
  OBVIOUS
<1>1. Waking \in Threads \ {Offering} /\ Waking \notin SellThreads /\ Waking \notin Works
  BY OfferingIsNoSell, ThreadsApart DEF Works
<1>2. Weight(Waking, "none") = 0 /\ Weight(Waking, "sleep_over") = 0
  BY <1>1, WeightOf
<1>3. CASE timers > 0 /\ Acquire(Waking, "none", "sleep_over")
  <2>1. Goto(Waking, "none", "sleep_over") /\ Load(Waking)
        /\ UNCHANGED <<idle, blockers, timers, raced>>
    BY <1>3 DEF Acquire
  <2>2. loaded' \in [Threads -> Int]
    BY <2>1, LoadTyped DEF Inv
  <2>3. QED
    BY <1>1, <1>2, <1>3, <2>1, <2>2, QuietGotoKeeps
<1>4. CASE Release(Waking, "sleep_over", "none", -1) /\ timers' = timers - 1
  <2>1. /\ pc[Waking] = "sleep_over" /\ pc' = Broadcast([pc EXCEPT ![Waking] = "none"])
        /\ Store(Waking, -1) /\ idle' = idle
    BY <1>4 DEF Release
  <2>2. timers > 0
    BY <2>1 DEF Inv, Asleep
  <2>3. timers \in Nat /\ timers' \in Nat
    BY <1>4, <2>2 DEF Inv, Shape
  <2>4. -1 = (Weight(Waking, "none") - Weight(Waking, "sleep_over")) + (timers' - timers)
    BY <1>2, <1>4, <2>3
  <2>5. -1 \in Int
    OBVIOUS
  <2>6. QED
    BY <1>1, <2>1, <2>3, <2>4, <2>5, ReleaseKeeps
<1>5. QED
  BY <1>3, <1>4 DEF TimerFires

LEMMA SetIdleTestKeeps ==
  ASSUME Inv, NEW t \in Threads \ ({Offering, Waking} \cup SellThreads),
         NEW value \in BOOLEAN,
         NEW from \in {"uncalled", "free"}, NEW mid \in {"busy_flag", "free_flag"},
         NEW to \in {"post", "none"}, SetIdleTest(t, value, from, mid, to)
  PROVE  Inv'
<1>1. PICK next \in {mid, to} : Goto(t, from, next)
  BY DEF SetIdleTest
<1>2. UNCHANGED <<idle, blockers, timers, raced, loaded>>
  BY DEF SetIdleTest
<1>3. Weight(t, from) = 0 /\ Weight(t, next) = 0
  BY WeightOf
<1>4. loaded' \in [Threads -> Int]
  BY <1>2 DEF Inv, Shape
<1>5. QED
  BY <1>1, <1>2, <1>3, <1>4, QuietGotoKeeps

LEMMA SetIdleFlagKeeps ==
  ASSUME Inv, NEW t \in Threads \ ({Offering, Waking} \cup SellThreads),
         NEW value \in BOOLEAN,
         NEW from \in {"busy_flag", "free_flag"}, NEW to \in {"busy_count", "free_count"},
         value <=> to = "free_count", SetIdleFlag(t, value, from, to)
  PROVE  Inv'
<1>1. Goto(t, from, to) /\ Load(t) /\ idle' = value /\ blockers' = blockers /\ timers' = timers
  BY DEF SetIdleFlag
<1>2. /\ pc[t] = from /\ pc'[t] = to /\ pc' = [u \in Threads |-> pc'[u]]
      /\ \A u \in Threads \ {t} : pc'[u] = pc[u]
  BY <1>1, GotoMoves DEF Inv, Shape
<1>3. idle \in BOOLEAN /\ blockers \in Int /\ timers \in Nat /\ raced \in BOOLEAN
  BY DEF Inv, Shape
<1>4. raced' \in BOOLEAN /\ (~raced' => ~raced /\ idle # value)
  BY <1>3, Zenon DEF SetIdleFlag
<1>5. loaded' \in [Threads -> Int]
  BY <1>1, LoadTyped DEF Inv
<1>6. /\ Weight(t, from) = 0
      /\ to = "busy_count" => Weight(t, to) = -1
      /\ to = "free_count" => Weight(t, to) = 1
  BY WeightOf
<1>7. PICK w \in Int : w = Weight(t, to)
  BY WeightIsInt
<1>8. Held \in Int /\ Held' = Held + w
  <2>1. Held \in Int /\ Held' = Held + Weight(t, to) - Weight(t, from)
    BY <1>2, MoveHeld
  <2>2. QED
    BY <2>1, <1>6, <1>7
<1>9. ~raced' => w + (Busy' - Busy) = 0
  <2> SUFFICES ASSUME ~raced' PROVE w + (Busy' - Busy) = 0
    OBVIOUS
  <2>1. CASE value
    <3>1. ~idle /\ idle'
      BY <2>1, <1>1, <1>3, <1>4, Zenon
    <3>2. Busy = 1 /\ Busy' = 0
      BY <3>1, Zenon DEF Busy
    <3>3. to = "free_count"
      BY <2>1, Zenon
    <3>4. w = 1
      BY <3>3, <1>6, <1>7
    <3>5. QED
      BY <3>2, <3>4
  <2>2. CASE ~value
    <3>1. idle /\ ~idle'
      BY <2>2, <1>1, <1>3, <1>4, Zenon
    <3>2. Busy = 0 /\ Busy' = 1
      BY <3>1, Zenon DEF Busy
    <3>3. to = "busy_count"
      BY <2>2
    <3>4. w = -1
      BY <3>3, <1>6, <1>7
    <3>5. QED
      BY <3>2, <3>4
  <2>3. QED
    BY <2>1, <2>2, Zenon
<1>10. ASSUME ~raced'
       PROVE  blockers' = blockers + w + (timers' - timers) + (Busy' - Busy)
  <2>1. Busy \in Int /\ Busy' \in Int
    BY DEF Busy
  <2>2. blockers' = blockers /\ timers' = timers
    BY DEF SetIdleFlag
  <2>3. w + (Busy' - Busy) = 0
    BY <1>9, <1>10, Zenon
  <2>4. blockers \in Int /\ timers \in Int
    BY <1>3
  <2>5. PICK p \in Int, q \in Int : p = Busy /\ q = Busy'
    BY <2>1
  <2>6. w + (q - p) = 0
    BY <2>3, <2>5
  <2>7. blockers = blockers + w + (timers - timers) + (q - p)
    <3>1. blockers \in Int /\ timers \in Int /\ w \in Int /\ p \in Int /\ q \in Int
      BY <1>7, <2>4, <2>5
    <3>2. QED
      BY <3>1, <2>6, SMT
  <2>8. QED
    BY <2>2, <2>5, <2>7
<1>11. ~raced' => ~raced /\ blockers' = blockers + w + (timers' - timers) + (Busy' - Busy)
  BY <1>4, <1>10, Zenon
<1>12. idle' \in BOOLEAN /\ blockers' \in Int /\ timers' \in Nat /\ timers' >= timers
  BY <1>1, <1>3
<1>13. QED
  BY <1>2, <1>4, <1>5, <1>8, <1>11, <1>12, MoveKeeps

LEMMA SetIdleCountKeeps ==
  ASSUME Inv, NEW t \in Threads \ ({Offering, Waking} \cup SellThreads),
         NEW d \in {-1, 1}, NEW from \in {"busy_count", "free_count"},
         NEW to \in {"post", "none"},
         d = 1 <=> from = "busy_count", SetIdleCount(t, d, from, to)
  PROVE  Inv'
<1>1. /\ pc[t] = from /\ pc' = Broadcast([pc EXCEPT ![t] = to])
      /\ Store(t, d) /\ idle' = idle /\ timers' = timers
  BY DEF SetIdleCount
<1>2. timers \in Nat /\ timers' \in Nat /\ timers' >= timers /\ d \in Int
  BY <1>1 DEF Inv, Shape
<1>3. /\ Weight(t, to) = 0
      /\ from = "busy_count" => Weight(t, from) = -1
      /\ from = "free_count" => Weight(t, from) = 1
  BY WeightOf
<1>4. d = (Weight(t, to) - Weight(t, from)) + (timers' - timers)
  BY <1>1, <1>2, <1>3
<1>5. QED
  BY <1>1, <1>2, <1>4, ReleaseKeeps

LEMMA SetFreeKeeps ==
  ASSUME Inv, NEW t \in Works \cup {Reporting}, SetFree(t, "free")
  PROVE  Inv'
<1>1. t \in Threads \ ({Offering, Waking} \cup SellThreads)
  BY OfferingIsNoSell, ThreadsApart DEF Works
<1>2. CASE SetIdleTest(t, TRUE, "free", "free_flag", "none")
  BY <1>1, <1>2, SetIdleTestKeeps
<1>3. CASE SetIdleFlag(t, TRUE, "free_flag", "free_count")
  BY <1>1, <1>3, SetIdleFlagKeeps
<1>4. CASE SetIdleCount(t, -1, "free_count", "none")
  <2>1. -1 \in {-1, 1} /\ -1 # 1
    OBVIOUS
  <2>2. QED
    BY <1>1, <1>4, <2>1, SetIdleCountKeeps
<1>5. QED
  BY <1>2, <1>3, <1>4 DEF SetFree

LEMMA DoWorkKeeps == \A s \in Sells : Inv /\ DoWork(s) => Inv'
<1> SUFFICES ASSUME NEW s \in Sells, Inv, DoWork(s) PROVE Inv'
  OBVIOUS
<1>1. Work(s) \in Works /\ Work(s) \in Threads \ ({Offering, Waking} \cup SellThreads)
  BY OfferingIsNoSell, ThreadsApart DEF Works
<1>2. CASE SetIdleTest(Work(s), FALSE, "uncalled", "busy_flag", "post")
  BY <1>1, <1>2, SetIdleTestKeeps
<1>3. CASE SetIdleFlag(Work(s), FALSE, "busy_flag", "busy_count")
  BY <1>1, <1>3, SetIdleFlagKeeps
<1>4. CASE SetIdleCount(Work(s), 1, "busy_count", "post")
  BY <1>1, <1>4, SetIdleCountKeeps
<1>5. CASE Post(s)
  <2>1. PICK to \in {"free", "none"} : Goto(Work(s), "post", to)
    BY <1>5 DEF Post
  <2>2. UNCHANGED <<idle, blockers, timers, raced, loaded>>
    BY <1>5 DEF Post
  <2>3. Weight(Work(s), "post") = Weight(Work(s), to)
    BY <1>1, WeightOf
  <2>4. loaded' \in [Threads -> Int]
    BY <2>2 DEF Inv, Shape
  <2>5. QED
    BY <1>1, <2>1, <2>2, <2>3, <2>4, QuietGotoKeeps
<1>6. CASE SetFree(Work(s), "free")
  BY <1>1, <1>6, SetFreeKeeps
<1>7. QED
  BY <1>2, <1>3, <1>4, <1>5, <1>6 DEF DoWork, SetBusy

LEMMA NotCalledKeeps == \A s \in Sells : Inv /\ NotCalled(s) => Inv'
<1> SUFFICES ASSUME NEW s \in Sells, Inv, NotCalled(s) PROVE Inv'
  OBVIOUS
<1>1. Work(s) \in Threads \ ({Offering, Waking} \cup SellThreads)
  BY OfferingIsNoSell, ThreadsApart DEF Works
<1>2. Goto(Work(s), "uncalled", "none") /\ UNCHANGED <<idle, blockers, timers, raced, loaded>>
  BY DEF NotCalled
<1>3. Weight(Work(s), "uncalled") = Weight(Work(s), "none")
  BY <1>1, WeightOf
<1>4. loaded' \in [Threads -> Int]
  BY <1>2 DEF Inv, Shape
<1>5. QED
  BY <1>1, <1>2, <1>3, <1>4, QuietGotoKeeps

LEMMA ReportKeeps == Inv /\ Report => Inv'
<1> SUFFICES ASSUME Inv, Report PROVE Inv'
  OBVIOUS
<1>1. Reporting \in Threads \ ({Offering, Waking} \cup SellThreads)
  BY OfferingIsNoSell, ThreadsApart
<1>2. Goto(Reporting, "none", "free") /\ UNCHANGED <<idle, blockers, timers, raced, loaded>>
  BY DEF Report
<1>3. Weight(Reporting, "none") = Weight(Reporting, "free")
  BY <1>1, WeightOf
<1>4. loaded' \in [Threads -> Int]
  BY <1>2 DEF Inv, Shape
<1>5. QED
  BY <1>1, <1>2, <1>3, <1>4, QuietGotoKeeps

(* Also when nothing changes at all.                                       *)
LEMMA StutterKeeps ==
  ASSUME Inv, UNCHANGED <<idle, blockers, timers, pc, loaded, raced>>
  PROVE  Inv'
<1>1. Shape' /\ CanStart' /\ WorkAfterSell' /\ Asleep'
  BY DEF Inv, Shape, CanStart, CanSpawn, WorkAfterSell, Asleep, Sells, Sell, Work
<1>2. BlockersCounted'
  BY DEF Inv, BlockersCounted, SellsRunning, At, Sell
<1>3. QED
  BY <1>1, <1>2 DEF Inv

LEMMA UnregisterWorkerKeeps == Inv /\ UnregisterWorker => Inv'
<1> SUFFICES ASSUME Inv, UnregisterWorker PROVE Inv'
  OBVIOUS
<1>1. pc' = Broadcast(pc) /\ UNCHANGED <<idle, blockers, timers, loaded, raced>>
  BY DEF UnregisterWorker
<1>2. CASE pc[Offering] = "wait"
  <2>1. Goto(Offering, "wait", "woken")
    BY <1>1, <1>2 DEF Broadcast, Goto
  <2>2. Weight(Offering, "wait") = Weight(Offering, "woken")
    BY OfferingIsNoSell, WeightOf
  <2>3. loaded' \in [Threads -> Int]
    BY <1>1 DEF Inv, Shape
  <2>4. QED
    BY <1>1, <2>1, <2>2, <2>3, OfferingIsNoSell, ThreadsApart, QuietGotoKeeps
<1>3. CASE pc[Offering] # "wait"
  <2>1. pc' = pc
    BY <1>1, <1>3 DEF Broadcast
  <2>2. QED
    BY <1>1, <2>1, StutterKeeps
<1>4. QED
  BY <1>2, <1>3
-----------------------------------------------------------------------------
(***************************************************************************)
(* The theorems.                                                           *)
(***************************************************************************)
LEMMA InitKeeps == Init => Inv
<1> SUFFICES ASSUME Init PROVE Inv
  OBVIOUS
<1>1. Shape
  <2>1. pc = [t \in Threads |-> pc[t]] /\ loaded \in [Threads -> Int]
    BY DEF Init
  <2>2. blockers \in Int /\ timers \in Nat
    BY DEF Init
  <2>3. idle \in BOOLEAN /\ raced \in BOOLEAN
    BY Zenon DEF Init
  <2>4. QED
    BY <2>1, <2>2, <2>3, Zenon DEF Shape
<1>2. \A t \in Threads : pc[t] \in {"top", "none"} /\ (t # Offering => pc[t] = "none")
  BY DEF Init
<1>3. pc[Offering] = "top"
  BY ThreadsApart DEF Init
<1>4. CanStart /\ WorkAfterSell /\ Asleep
  BY <1>2, <1>3, ThreadsApart DEF CanStart, WorkAfterSell, Asleep
<1>5. \A r : r \notin {"top", "none"} => At(r) = 0
  <2>1. \A r : r \notin {"top", "none"} => {t \in Threads : pc[t] = r} = {}
    BY <1>2
  <2>2. QED
    BY <2>1, FS_EmptySet DEF At
<1>6. SellsRunning = 0
  <2>1. {s \in Sells : pc[Sell(s)] \notin {"none", "gone"}} = {}
    BY <1>2, ThreadsApart
  <2>2. QED
    BY <2>1, FS_EmptySet DEF SellsRunning
<1>7. At("busy_count") = 0 /\ At("free_count") = 0
  BY <1>5
<1>8. BlockersCounted
  BY <1>6, <1>7 DEF BlockersCounted, Init
<1>9. QED
  BY <1>1, <1>4, <1>8 DEF Inv

LEMMA NextKeeps == Inv /\ [Next]_vars => Inv'
<1> SUFFICES ASSUME Inv, [Next]_vars PROVE Inv'
  OBVIOUS
<1>1. CASE Offer
  BY <1>1, OfferCheckKeeps, NewSellKeeps, StartSellKeeps, NewSellFailedKeeps, WaitKeeps
  DEF Offer
<1>2. CASE SetFree(Reporting, "free")
  BY <1>2, SetFreeKeeps
<1>3. ASSUME NEW s \in Sells, \/ PerformSell(s) \/ SellFailed(s) \/ SellEnds(s)
                              \/ DoWork(s) \/ NotCalled(s)
      PROVE  Inv'
  BY <1>3, PerformSellKeeps, SellFailedKeeps, SellEndsKeeps, DoWorkKeeps, NotCalledKeeps
<1>4. CASE UNCHANGED vars
  BY <1>4, StutterKeeps DEF vars
<1>5. QED
  BY <1>1, <1>2, <1>3, <1>4, TimerFiresKeeps, ReportKeeps, UnregisterWorkerKeeps DEF Next

LEMMA AlwaysInv == Spec => []Inv
  BY InitKeeps, NextKeeps, PTL DEF Spec

(* The counter of blockers stands for the sells being made, the delays     *)
(* after errors and the worker's being busy ("count of currently blocking  *)
(* circumstances"), as long as no update without the lock met another one. *)
THEOREM CounterIsRight == Spec => []BlockersCounted
<1>1. Inv => BlockersCounted
  BY DEF Inv
<1>2. QED
  BY <1>1, AlwaysInv, PTL

(* Only OfferCheck takes the goroutine that offers to a new sell.          *)
LEMMA OthersDoNotOffer ==
  ASSUME Shape, NEW t \in Threads \ {Offering}, NEW to, pc[Offering] = "top",
         \/ pc' = [pc EXCEPT ![t] = to]
         \/ pc' = Broadcast([pc EXCEPT ![t] = to])
  PROVE  pc'[Offering] = "top"
<1>1. pc = [u \in Threads |-> pc[u]] /\ Offering \in Threads
  BY ThreadsApart DEF Shape
<1>2. [pc EXCEPT ![t] = to][Offering] = "top"
  BY <1>1
<1>3. QED
  BY <1>2 DEF Broadcast

LEMMA OnlyOfferCheckOffers ==
  ASSUME Inv, Next, pc[Offering] = "top", pc'[Offering] = "newsell"
  PROVE  OfferCheck
<1>1. Shape
  BY DEF Inv
<1>2. CASE NewSell \/ StartSell \/ NewSellFailed \/ Wait \/ WakeUp
  BY <1>2 DEF NewSell, StartSell, NewSellFailed, Wait, WakeUp, Goto
<1>3. CASE UnregisterWorker
  <2>1. pc' = pc
    BY <1>3 DEF UnregisterWorker, Broadcast
  <2>2. QED
    BY <2>1
<1>4. ASSUME NEW t \in Threads \ {Offering}, NEW to,
             \/ pc' = [pc EXCEPT ![t] = to]
             \/ pc' = Broadcast([pc EXCEPT ![t] = to])
      PROVE  FALSE
  BY <1>1, <1>4, OthersDoNotOffer
<1>5. Waking \in Threads \ {Offering} /\ Reporting \in Threads \ {Offering}
  BY ThreadsApart
<1>6. ~TimerFires /\ ~Report /\ ~SetFree(Reporting, "free")
  BY <1>4, <1>5
  DEF TimerFires, Report, SetFree, SetIdleTest, SetIdleFlag, SetIdleCount, Acquire, Release, Goto
<1>7. ASSUME NEW s \in Sells PROVE ~PerformSell(s) /\ ~SellFailed(s) /\ ~SellEnds(s)
  <2>1. Sell(s) \in Threads \ {Offering}
    BY ThreadsApart
  <2>2. QED
    BY <1>4, <2>1 DEF PerformSell, SellFailed, SellEnds, Acquire, Release, Goto
<1>8. ASSUME NEW s \in Sells PROVE ~DoWork(s) /\ ~NotCalled(s)
  <2>1. Work(s) \in Threads \ {Offering}
    BY ThreadsApart
  <2>2. ~SetBusy(s) /\ ~Post(s) /\ ~NotCalled(s)
    BY <1>4, <2>1 DEF SetBusy, Post, NotCalled, SetIdleTest, SetIdleFlag, SetIdleCount, Goto
  <2>3. ~SetFree(Work(s), "free")
    BY <1>4, <2>1 DEF SetFree, SetIdleTest, SetIdleFlag, SetIdleCount, Goto
  <2>4. QED
    BY <2>2, <2>3 DEF DoWork
<1>9. QED
  BY <1>2, <1>3, <1>6, <1>7, <1>8 DEF Next, Offer

(* The counter is zero only if nothing that it counts is there.            *)
LEMMA NothingBlocks ==
  ASSUME Inv, blockers = 0
  PROVE  (idle /\ SellsRunning = 0 /\ timers = 0) \/ SettingIdle \/ raced
<1> SUFFICES ASSUME ~SettingIdle, ~raced
             PROVE  idle /\ SellsRunning = 0 /\ timers = 0
  OBVIOUS
<1>1. SellsRunning \in Nat /\ At("busy_count") \in Nat /\ At("free_count") \in Nat
  BY SellsRunningChange, AtIsNat
<1>2. timers \in Nat
  BY DEF Inv, Shape
<1>3. At("busy_count") = 0 /\ At("free_count") = 0
  BY <1>1 DEF SettingIdle
<1>4. blockers = SellsRunning + timers + Busy - At("busy_count") + At("free_count")
  BY Zenon DEF Inv, BlockersCounted, Busy
<1>5. Busy \in {0, 1} /\ (Busy = 0 => idle)
  BY DEF Busy
<1>6. Busy = 0 /\ SellsRunning = 0 /\ timers = 0
  <2>1. PICK b \in {0, 1}, r \in Nat, n \in Nat : b = Busy /\ r = SellsRunning /\ n = timers
    BY <1>1, <1>2, <1>5
  <2>2. PICK u, d : u = At("busy_count") /\ d = At("free_count")
    OBVIOUS
  <2>3. u = 0 /\ d = 0 /\ 0 = r + n + b - u + d
    BY <1>3, <1>4, <2>1, <2>2, Zenon
  <2>4. b = 0 /\ r = 0 /\ n = 0
    BY <2>1, <2>3
  <2>5. QED
    BY <2>1, <2>4
<1>7. QED
  BY <1>5, <1>6

(* "As long as a worker is marked as busy (not idle), no attempt is made   *)
(* to sell with it.": nor while another sell is made or delayed, apart     *)
(* from the races of setIdle.                                              *)
THEOREM OnlyUnblockedOffered == Spec => NoSellWhileBlocked
<1>1. ASSUME Inv, [Next]_vars
      PROVE  [pc[Offering] = "top" /\ pc'[Offering] = "newsell" =>
                \/ idle /\ SellsRunning = 0 /\ timers = 0
                \/ SettingIdle \/ raced]_vars
  <2> SUFFICES ASSUME Next, pc[Offering] = "top", pc'[Offering] = "newsell"
               PROVE  (idle /\ SellsRunning = 0 /\ timers = 0) \/ SettingIdle \/ raced
    BY <1>1
  <2>1. OfferCheck
    BY <1>1, OnlyOfferCheckOffers
  <2>2. blockers = 0
    <3>1. pc = [u \in Threads |-> pc[u]] /\ Offering \in Threads
      BY <1>1, ThreadsApart DEF Inv, Shape
    <3>2. QED
      BY <2>1, <3>1 DEF OfferCheck
  <2>3. QED
    BY <1>1, <2>2, NothingBlocks
<1>2. QED
  BY <1>1, AlwaysInv, PTL DEF Spec, NoSellWhileBlocked
=============================================================================
