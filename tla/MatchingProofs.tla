--------------------------- MODULE MatchingProofs ---------------------------
(***************************************************************************)
(* Proofs about the matching of bids, for any number of requests, bids and *)
(* passes and any clock: first what the semaphore of Batch is good for,    *)
(* then that the passes of HotZone leave no two bids apart that should     *)
(* have met, take the best price, and neither lose nor repeat a bid.       *)
(***************************************************************************)
EXTENDS Batch, HotZone, FiniteSetTheorems, SequenceTheorems, TLAPS

-----------------------------------------------------------------------------
(***************************************************************************)
(* Batch: types.                                                           *)
(***************************************************************************)
LEMMA InitTyped == Init => TypeOK
<1> SUFFICES ASSUME Init
             PROVE  TypeOK
  OBVIOUS
<1>1. pc \in [Handlers -> Steps] /\ leased \in [Handlers -> SUBSET Bids]
  BY DEF Init, Steps
<1>2. forgotten \in BOOLEAN /\ overflowed \in BOOLEAN
  BY DEF Init
<1>3. QED
  BY <1>1, <1>2 DEF Init, TypeOK

\* What counting down does to the variables of the count, whether it fails.
LEMMA CountsDown ==
  ASSUME TypeOK, NEW h \in Counted, NEW step \in Steps \ {"leaving", "waiting"},
         CountDown(h, step) \/ CountDownFails(h, step)
  PROVE  /\ Counted' = Counted \ {h}
         /\ pc' = [pc EXCEPT ![h] = step]
         /\ forgotten' = (forgotten /\ Counted # {h})
         /\ failures' \in Nat
         /\ \/ semaphore' = Down /\ leaks' = leaks
            \/ semaphore' = semaphore /\ leaks' = leaks + 1
<1>1. pc' = [pc EXCEPT ![h] = step]
  BY DEF CountDown, CountDownFails, Goto
<1>2. Counted' = Counted \ {h}
  BY <1>1 DEF Counted, TypeOK
<1>3. failures' \in Nat
  BY DEF CountDown, CountDownFails, MayFail, TypeOK
<1>4. QED
  BY <1>1, <1>2, <1>3 DEF CountDown, CountDownFails

LEMMA LeavesOrWakes ==
  ASSUME TypeOK, NEW h \in Handlers, Leave(h) \/ Wake(h)
  PROVE  /\ h \in Counted
         /\ UNCHANGED <<pullTasks, work>>
         /\ \E step \in Steps \ {"leaving", "waiting"} :
              CountDown(h, step) \/ CountDownFails(h, step)
  BY DEF Leave, Wake, Counted, Steps

LEMMA StepTyped ==
  ASSUME TypeOK, [Next]_vars
  PROVE  TypeOK'
<1> USE BatchAssumption DEF TypeOK, Steps, Goto, counting, pullTasks, work
<1>1. ASSUME NEW h \in Handlers, Enqueue(h)
      PROVE  TypeOK'
  BY <1>1 DEF Enqueue
<1>2. ASSUME NEW h \in Handlers, Trigger(h)
      PROVE  TypeOK'
  <2>1. CASE Increment(h)
    BY <2>1 DEF Increment
  <2>2. CASE Leave(h) \/ Wake(h)
    <3>1. PICK step \in Steps : CountDown(h, step) \/ CountDownFails(h, step)
      BY <2>2, LeavesOrWakes
    <3>2. semaphore' \in Nat /\ leaks' \in Nat /\ failures' \in Nat
      BY <3>1 DEF CountDown, CountDownFails, MayFail, Down
    <3>5. pc' \in [Handlers -> Steps]
      BY <3>1 DEF CountDown, CountDownFails
    <3>6. forgotten' \in BOOLEAN
      BY <3>1 DEF CountDown, CountDownFails
    <3>3. UNCHANGED <<pullTasks, work>>
      BY <2>2, LeavesOrWakes
    <3>4. QED
      BY <3>2, <3>3, <3>5, <3>6
  <2>4. CASE LeaseQueue(h)
    <3>1. PICK got \in Leasable : /\ leased' = [leased EXCEPT ![h] = got]
                                  /\ hidden' = hidden \cup got
                                  /\ overflowed' = (overflowed \/ got # queue \ hidden)
      BY <2>4 DEF LeaseQueue
    <3>2. got \subseteq queue
      BY DEF Leasable
    <3>3. QED
      BY <2>4, <3>1, <3>2 DEF LeaseQueue
  <2>5. CASE CommitBatch(h)
    BY <2>5 DEF CommitBatch
  <2>6. CASE Delete(h)
    BY <2>6 DEF Delete
  <2>7. CASE DeleteFails(h)
    BY <2>7 DEF DeleteFails
  <2>8. QED
    BY <1>2, <2>1, <2>2, <2>4, <2>5, <2>6, <2>7 DEF Trigger
<1>3. ASSUME NEW h \in Handlers, IncrementFails(h)
      PROVE  TypeOK'
  BY <1>3 DEF IncrementFails, MayFail
<1>4. ASSUME NEW h \in Handlers, LeaseFails(h)
      PROVE  TypeOK'
  <2>1. PICK got \in Leasable \cup {{}} : hidden' = hidden \cup got
    BY <1>4 DEF LeaseFails
  <2>2. got \subseteq queue
    BY DEF Leasable
  <2>3. QED
    BY <1>4, <2>1, <2>2 DEF LeaseFails, MayFail
<1>5. ASSUME NEW h \in Handlers, CommitFails(h)
      PROVE  TypeOK'
  BY <1>5 DEF CommitFails, MayFail
<1>6. ASSUME NEW h \in Handlers, Die(h)
      PROVE  TypeOK'
  BY <1>6 DEF Die, MayFail
<1>7. ASSUME NEW b \in Bids, LeaseEnds(b)
      PROVE  TypeOK'
  BY <1>7 DEF LeaseEnds
<1>8. CASE Evict
  BY <1>8 DEF Evict
<1>9. CASE UNCHANGED vars
  BY <1>9 DEF vars
<1>10. QED
  BY <1>1, <1>2, <1>3, <1>4, <1>5, <1>6, <1>7, <1>8, <1>9 DEF Next

-----------------------------------------------------------------------------
(***************************************************************************)
(* Batch: the semaphore and the handlers counted in it.                    *)
(***************************************************************************)
LEMMA CountedFinite == IsFiniteSet(Counted)
  BY BatchAssumption, FS_Subset DEF Counted

\* Types, for the arithmetic.
LEMMA CountsTyped ==
  ASSUME TypeOK
  PROVE  semaphore \in Nat /\ leaks \in Nat /\ Cardinality(Counted) \in Nat
  BY CountedFinite, FS_CardinalityType DEF TypeOK

LEMMA OneLess ==
  ASSUME NEW h \in Counted
  PROVE  /\ Cardinality(Counted \ {h}) = Cardinality(Counted) - 1
         /\ Cardinality(Counted \ {h}) \in Nat
<1>1. IsFiniteSet(Counted \ {h})
  BY CountedFinite, FS_Subset
<1>2. QED
  BY <1>1, CountedFinite, FS_RemoveElement, FS_CardinalityType

\* As long as memcache has not dropped the count of one who is still counted,
\* the semaphore stands for all who are.
CountedCovered == ~forgotten => semaphore >= Cardinality(Counted)

Covered == SemaphoreCovered /\ CountedCovered

LEMMA IncrementCovered ==
  ASSUME TypeOK, Covered, NEW h \in Handlers, Increment(h)
  PROVE  Covered'
<1>1. h \notin Counted /\ Counted' = Counted \cup {h}
  BY DEF TypeOK, Counted, Increment, Goto
<1>2. Cardinality(Counted') = Cardinality(Counted) + 1
  BY <1>1, CountedFinite, FS_AddElement
<1>3. semaphore' = semaphore + 1 /\ leaks' = leaks /\ forgotten' = forgotten
  BY DEF Increment
<1>4. QED
  BY <1>2, <1>3, CountsTyped DEF Covered, SemaphoreCovered, CountedCovered

\* One is no longer counted: the semaphore is one less or one is lost in it.
LEMMA CountDownCovered ==
  ASSUME TypeOK, Covered, NEW h \in Counted,
         Counted' = Counted \ {h},
         forgotten' = (forgotten /\ Counted # {h}),
         \/ semaphore' = Down /\ leaks' = leaks
         \/ semaphore' = semaphore /\ leaks' = leaks + 1
  PROVE  Covered'
<1>1. Cardinality(Counted') = Cardinality(Counted) - 1 /\ Cardinality(Counted') \in Nat
  BY OneLess
<1>2. semaphore' \in Nat
  BY CountsTyped DEF Down
<1>3. SemaphoreCovered'
  BY <1>1, CountsTyped DEF Down, Covered, SemaphoreCovered
<1>4. ASSUME ~forgotten'
      PROVE  semaphore' >= Cardinality(Counted')
  <2>1. CASE forgotten
    <3>1. Counted' = {}
      BY <1>4, <2>1
    <3>2. Cardinality(Counted') = 0
      BY <3>1, FS_EmptySet
    <3>3. QED
      BY <1>2, <3>2
  <2>2. CASE ~forgotten
    <3>1. semaphore >= Cardinality(Counted)
      BY <2>2 DEF Covered, CountedCovered
    <3>2. QED
      BY <1>1, <3>1, CountsTyped DEF Down
  <2>3. QED
    BY <2>1, <2>2
<1>5. QED
  BY <1>3, <1>4 DEF Covered, CountedCovered

\* A step that touches none of them.
LEMMA SameCovered ==
  ASSUME Covered, Counted' = Counted, UNCHANGED counting
  PROVE  Covered'
  BY DEF Covered, SemaphoreCovered, CountedCovered, counting

LEMMA StepCovered ==
  ASSUME TypeOK, Covered, [Next]_vars
  PROVE  Covered'
<1>1. ASSUME NEW h \in Handlers, Enqueue(h)
      PROVE  Covered'
  <2>1. Counted' = Counted
    BY <1>1 DEF TypeOK, Counted, Enqueue, Goto
  <2>2. QED
    BY <1>1, <2>1, SameCovered DEF Enqueue
<1>2. ASSUME NEW h \in Handlers, Increment(h)
      PROVE  Covered'
  BY <1>2, IncrementCovered
<1>3. ASSUME NEW h \in Handlers, Leave(h) \/ Wake(h)
      PROVE  Covered'
  <2>1. h \in Counted
    BY <1>3, LeavesOrWakes
  <2>2. PICK step \in Steps \ {"leaving", "waiting"} :
          CountDown(h, step) \/ CountDownFails(h, step)
    BY <1>3, LeavesOrWakes
  <2>3. /\ Counted' = Counted \ {h}
        /\ forgotten' = (forgotten /\ Counted # {h})
        /\ \/ semaphore' = Down /\ leaks' = leaks
           \/ semaphore' = semaphore /\ leaks' = leaks + 1
    BY <2>1, <2>2, CountsDown
  <2>4. QED
    BY <2>1, <2>3, CountDownCovered
<1>4. ASSUME NEW h \in Handlers,
             \/ LeaseQueue(h) \/ CommitBatch(h) \/ Delete(h) \/ DeleteFails(h)
             \/ LeaseFails(h) \/ CommitFails(h)
      PROVE  Covered'
  <2>1. PICK step \in {"matching", "deleting", "idle"} :
          pc' = [pc EXCEPT ![h] = step] /\ pc[h] \in {"leasing", "matching", "deleting"}
    BY <1>4 DEF LeaseQueue, CommitBatch, Delete, DeleteFails, LeaseFails, CommitFails, Goto
  <2>2. Counted' = Counted
    BY <2>1 DEF TypeOK, Counted
  <2>3. UNCHANGED counting
    BY <1>4 DEF LeaseQueue, CommitBatch, Delete, DeleteFails, LeaseFails, CommitFails
  <2>4. QED
    BY <2>2, <2>3, SameCovered
<1>5. ASSUME NEW h \in Handlers, IncrementFails(h)
      PROVE  Covered'
  <2>1. Counted' = Counted
    BY <1>5 DEF TypeOK, Counted, IncrementFails, Goto
  <2>2. PICK more \in {0, 1} : semaphore' = semaphore + more /\ leaks' = leaks + more
    BY <1>5 DEF IncrementFails
  <2>3. forgotten' = forgotten
    BY <1>5 DEF IncrementFails
  <2>4. semaphore \in Nat /\ leaks \in Nat /\ Cardinality(Counted) \in Nat
    BY CountsTyped
  <2>5. Cardinality(Counted') = Cardinality(Counted)
    BY <2>1
  <2>6. SemaphoreCovered'
    BY <2>2, <2>4, <2>5 DEF Covered, SemaphoreCovered
  <2>7. CountedCovered'
    BY <2>2, <2>3, <2>4, <2>5 DEF Covered, CountedCovered
  <2>8. QED
    BY <2>6, <2>7 DEF Covered
<1>6. ASSUME NEW h \in Handlers, Die(h)
      PROVE  Covered'
  <2>1. Counted' = Counted \ {h}
    BY <1>6 DEF TypeOK, Counted, Die, Goto
  <2>2. CASE h \in Counted
    BY <1>6, <2>1, <2>2, CountDownCovered DEF Die
  <2>3. CASE h \notin Counted
    <3>1. Counted' = Counted /\ semaphore' = semaphore /\ leaks' = leaks
      BY <1>6, <2>1, <2>3 DEF Die
    <3>2. Counted # {h}
      BY <2>3
    <3>3. forgotten' = forgotten
      BY <1>6, <3>2 DEF Die, TypeOK
    <3>4. QED
      BY <3>1, <3>3, SameCovered DEF counting
  <2>4. QED
    BY <2>2, <2>3
<1>7. ASSUME NEW b \in Bids, LeaseEnds(b)
      PROVE  Covered'
  <2>1. Counted' = Counted
    BY <1>7 DEF Counted, LeaseEnds
  <2>2. QED
    BY <1>7, <2>1, SameCovered DEF LeaseEnds
<1>8. CASE Evict
  <2>1. Counted' = Counted /\ semaphore' = 0 /\ leaks' = 0 /\ forgotten' = (Counted # {})
    BY <1>8 DEF Counted, Evict
  <2>2. Counted = {} => Cardinality(Counted) = 0
    BY FS_EmptySet
  <2>3. Cardinality(Counted) \in Nat /\ Cardinality(Counted') = Cardinality(Counted)
    BY <2>1, CountsTyped
  <2>4. SemaphoreCovered'
    BY <2>1, <2>3 DEF SemaphoreCovered
  <2>5. ASSUME ~forgotten'
        PROVE  semaphore' >= Cardinality(Counted')
    <3>1. Counted = {}
      BY <2>1, <2>5
    <3>2. semaphore' = 0 /\ Cardinality(Counted') = 0
      BY <2>1, <2>2, <2>3, <3>1
    <3>3. QED
      BY <3>2
  <2>6. QED
    BY <2>4, <2>5 DEF Covered, CountedCovered
<1>9. CASE UNCHANGED vars
  <2>1. Counted' = Counted /\ UNCHANGED counting
    BY <1>9 DEF vars, Counted
  <2>2. QED
    BY <2>1, SameCovered
<1>10. QED
  BY <1>1, <1>2, <1>3, <1>4, <1>5, <1>6, <1>7, <1>8, <1>9 DEF Next, Trigger

LEMMA InitCovered == Init => Covered
<1> SUFFICES ASSUME Init
             PROVE  Covered
  OBVIOUS
<1>1. Counted = {}
  BY DEF Init, Counted
<1>2. Cardinality(Counted) = 0
  BY <1>1, FS_EmptySet
<1>3. QED
  BY <1>2 DEF Init, Covered, SemaphoreCovered, CountedCovered

\* The semaphore never stands for more than the handlers counted in it and
\* those that did not count down: whatever memcache drops, if there are none of
\* these, once nobody waits or leaves it is zero and the next handler gets
\* through.
THEOREM SemaphoreIsCovered == Spec => []SemaphoreCovered
<1>1. Init => TypeOK /\ Covered
  BY InitTyped, InitCovered
<1>2. TypeOK /\ Covered /\ [Next]_vars => TypeOK' /\ Covered'
  BY StepTyped, StepCovered
<1>3. Covered => SemaphoreCovered
  BY DEF Covered
<1>4. QED
  BY <1>1, <1>2, <1>3, PTL DEF Spec

-----------------------------------------------------------------------------
(***************************************************************************)
(* Batch: the handler that waits.                                          *)
(***************************************************************************)
Waiting == {h \in Handlers : pc[h] = "waiting"}

\* Who is to wait is alone: nobody else is counted.
LEMMA WaiterAlone ==
  ASSUME TypeOK, Covered, ~forgotten, NEW h \in Handlers, Increment(h),
         Waiting' # Waiting
  PROVE  Counted' = {h}
<1>1. Counted' = Counted \cup {h}
  BY DEF TypeOK, Counted, Increment, Goto
<1>2. pc'[h] = "waiting"
  BY DEF TypeOK, Waiting, Increment, Goto
<1>3. ~(semaphore + 1 >= 2)
  BY <1>2 DEF TypeOK, Increment, Goto, OthersActive
<1>4. Cardinality(Counted) = 0
  BY <1>3, CountsTyped DEF Covered, CountedCovered
<1>5. Counted = {}
  BY <1>4, CountedFinite, FS_EmptySet
<1>6. QED
  BY <1>1, <1>5

AtMostOne(S) == \A g, h \in S : g = h

LEMMA StepWaitsAlone ==
  ASSUME TypeOK, Covered, ~forgotten => AtMostOne(Waiting), [Next]_vars
  PROVE  (~forgotten => AtMostOne(Waiting))'
<1> SUFFICES ASSUME ~forgotten'
             PROVE  AtMostOne(Waiting)'
  OBVIOUS
<1>1. ASSUME NEW h \in Handlers, Increment(h)
      PROVE  AtMostOne(Waiting)'
  <2>1. ~forgotten
    BY <1>1 DEF Increment
  <2>2. CASE Waiting' = Waiting
    BY <2>1, <2>2 DEF AtMostOne
  <2>3. CASE Waiting' # Waiting
    <3>1. Counted' = {h}
      BY <1>1, <2>1, <2>3, WaiterAlone
    <3>2. Waiting' \subseteq Counted'
      BY DEF Waiting, Counted
    <3>3. QED
      BY <3>1, <3>2 DEF AtMostOne
  <2>4. QED
    BY <2>2, <2>3
<1>2. ASSUME ~(\E h \in Handlers : Increment(h))
      PROVE  AtMostOne(Waiting)'
  <2>1. Waiting' \subseteq Waiting
    <3>1. ASSUME NEW h \in Handlers, NEW step \in Steps \ {"waiting"},
                 Goto(h, step)
          PROVE  Waiting' \subseteq Waiting
      BY <3>1 DEF Waiting, Goto, TypeOK
    <3>2. CASE \E h \in Handlers : \E step \in Steps \ {"waiting"} : Goto(h, step)
      BY <3>1, <3>2
    <3>3. CASE UNCHANGED pc
      BY <3>3 DEF Waiting
    <3>4. \/ \E h \in Handlers : \E step \in Steps \ {"waiting"} : Goto(h, step)
          \/ UNCHANGED pc
      BY <1>2 DEF Next, Trigger, Enqueue, Leave, Wake, CountDown, CountDownFails,
                  LeaseQueue, CommitBatch, Delete, DeleteFails, IncrementFails,
                  LeaseFails, CommitFails, Die, LeaseEnds, Evict, vars, Steps
    <3>5. QED
      BY <3>2, <3>3, <3>4
  <2>2. CASE ~forgotten
    BY <2>1, <2>2 DEF AtMostOne
  <2>3. CASE forgotten
    <3>1. Counted' = {}
      <4>1. ASSUME NEW h \in Handlers, Leave(h) \/ Wake(h)
            PROVE  Counted' = {}
        <5>1. PICK step \in Steps \ {"leaving", "waiting"} :
                CountDown(h, step) \/ CountDownFails(h, step)
          BY <4>1, LeavesOrWakes
        <5>2. h \in Counted
          BY <4>1, LeavesOrWakes
        <5>3. Counted' = Counted \ {h} /\ forgotten' = (forgotten /\ Counted # {h})
          BY <5>1, <5>2, CountsDown
        <5>4. QED
          BY <2>3, <5>3
      <4>2. ASSUME NEW h \in Handlers, Die(h)
            PROVE  Counted' = {}
        <5>1. Counted = {h}
          BY <2>3, <4>2 DEF Die
        <5>2. Counted' = Counted \ {h}
          BY <4>2 DEF TypeOK, Counted, Die, Goto
        <5>3. QED
          BY <5>1, <5>2
      <4>3. CASE Evict
        <5>1. Counted' = Counted /\ Counted = {}
          BY <4>3 DEF Evict, Counted
        <5>2. QED
          BY <5>1
      <4>4. ASSUME UNCHANGED forgotten
            PROVE  FALSE
        BY <2>3, <4>4
      <4>5. QED
        BY <1>2, <4>1, <4>2, <4>3, <4>4
           DEF Next, Trigger, Enqueue, LeaseQueue, CommitBatch, Delete, DeleteFails,
               IncrementFails, LeaseFails, CommitFails, LeaseEnds, vars, counting
    <3>2. Waiting' \subseteq Counted'
      BY DEF Waiting, Counted
    <3>3. QED
      BY <3>1, <3>2 DEF AtMostOne
  <2>4. QED
    BY <2>2, <2>3
<1>3. QED
  BY <1>1, <1>2

LEMMA OneOrNone ==
  ASSUME AtMostOne(Waiting)
  PROVE  Cardinality(Waiting) <= 1
<1>1. CASE Waiting = {}
  BY <1>1, FS_EmptySet
<1>2. CASE Waiting # {}
  <2>1. PICK h \in Waiting : Waiting = {h}
    BY <1>2 DEF AtMostOne
  <2>2. QED
    BY <2>1, FS_Singleton
<1>3. QED
  BY <1>1, <1>2

\* One handler at a time waits for the bids of others, whichever calls fail and
\* whoever dies, as long as memcache keeps the count of those who are counted.
THEOREM OnlyOneWaits == Spec => []WaitsAlone
<1> DEFINE Inv == TypeOK /\ Covered /\ (~forgotten => AtMostOne(Waiting))
<1>1. Init => Inv
  BY InitTyped, InitCovered DEF Init, Waiting, AtMostOne
<1>2. Inv /\ [Next]_vars => Inv'
  BY StepTyped, StepCovered, StepWaitsAlone
<1>3. Inv => WaitsAlone
  BY OneOrNone DEF WaitsAlone, Waiting
<1>4. QED
  BY <1>1, <1>2, <1>3, PTL DEF Spec

-----------------------------------------------------------------------------
(***************************************************************************)
(* Sequences and finite sets.                                              *)
(***************************************************************************)
\* The image of a finite set is finite.
LEMMA ImageFinite ==
  ASSUME NEW S, IsFiniteSet(S), NEW f, DOMAIN f = S, NEW T, T = {f[x] : x \in S}
  PROVE  IsFiniteSet(T)
<1> DEFINE g == [x \in S |-> f[x]]
<1>1. g \in Surjection(S, T)
  BY DEF Surjection
<1>2. QED
  BY <1>1, FS_Surjection

\* A sequence holds finitely many elements, those at its indices.
LEMMA RangeFinite ==
  ASSUME NEW S, NEW s \in Seq(S)
  PROVE  IsFiniteSet(Range(s))
<1>1. IsFiniteSet(DOMAIN s)
  BY FS_Interval, LenProperties
<1>2. QED
  BY <1>1, ImageFinite DEF Range

\* A sequence without repetition.
Distinct(s) == \A i, j \in DOMAIN s : s[i] = s[j] => i = j

LEMMA RangeIn ==
  ASSUME NEW S, NEW s \in Seq(S)
  PROVE  /\ Range(s) \subseteq S
         /\ \A x : x \in Range(s) <=> \E i \in 1 .. Len(s) : s[i] = x
  BY LenProperties DEF Range

\* The sequences of SetToSeqs hold every element of the set once.
LEMMA SeqsOfSet ==
  ASSUME NEW S, IsFiniteSet(S), NEW s \in SetToSeqs(S)
  PROVE  s \in Seq(S) /\ Range(s) = S /\ Distinct(s)
<1> DEFINE n == Cardinality(S)
           D == 1 .. n
<1>1. n \in Nat
  BY FS_CardinalityType
<1>2. s \in [D -> S] /\ \A i, j \in D : i # j => s[i] # s[j]
  BY DEF SetToSeqs
<1> HIDE DEF n
<1>3. s \in Seq(S)
  BY <1>1, <1>2
<1>4. Range(s) \subseteq S /\ s \in Surjection(D, Range(s)) /\ s \in Injection(D, Range(s))
  BY <1>2 DEF Range, Surjection, Injection, IsInjective
<1>5. IsFiniteSet(D) /\ Cardinality(D) = n
  BY <1>1, FS_Interval
<1>6. Cardinality(Range(s)) = n
  BY <1>4, <1>5, FS_Surjection
<1>7. Range(s) = S
  BY <1>4, <1>6, FS_Subset DEF n
<1>8. QED
  BY <1>2, <1>3, <1>7 DEF Distinct

\* Taking the head off a sequence.
LEMMA HeadTail ==
  ASSUME NEW S, NEW s \in Seq(S), s # <<>>
  PROVE  /\ Tail(s) \in Seq(S) /\ Head(s) \in S
         /\ Head(s) = s[1] /\ Len(s) \in Nat \ {0}
         /\ Len(Tail(s)) = Len(s) - 1
         /\ \A i \in 1 .. Len(Tail(s)) : Tail(s)[i] = s[i + 1] /\ i + 1 \in 1 .. Len(s)
         /\ Range(s) = {Head(s)} \cup Range(Tail(s))
<1>1. /\ Head(s) \in S /\ Tail(s) \in Seq(S) /\ Len(Tail(s)) = Len(s) - 1
      /\ \A i \in 1 .. Len(Tail(s)) : Tail(s)[i] = s[i + 1]
  BY HeadTailProperties
<1>2. Len(s) \in Nat \ {0}
  BY EmptySeq
<1>3. Head(s) = s[1]
  OBVIOUS
<1>4. \A i \in 1 .. Len(Tail(s)) : i + 1 \in 1 .. Len(s)
  BY <1>1, <1>2
<1>5. ASSUME NEW x
      PROVE  x \in Range(s) <=> x = Head(s) \/ x \in Range(Tail(s))
  <2>1. x \in Range(s) <=> \E i \in 1 .. Len(s) : s[i] = x
    BY RangeIn
  <2>2. x \in Range(Tail(s)) <=> \E i \in 1 .. Len(Tail(s)) : Tail(s)[i] = x
    BY <1>1, RangeIn
  <2>3. ASSUME NEW i \in 1 .. Len(s), s[i] = x, i # 1
        PROVE  \E j \in 1 .. Len(Tail(s)) : Tail(s)[j] = x
    <3>1. i - 1 \in 1 .. Len(Tail(s)) /\ (i - 1) + 1 = i
      BY <1>1, <1>2, <2>3
    <3>2. QED
      BY <1>1, <2>3, <3>1
  <2>4. 1 \in 1 .. Len(s)
    BY <1>2
  <2>5. QED
    BY <1>1, <1>3, <1>4, <2>1, <2>2, <2>3, <2>4
<1>6. QED
  BY <1>1, <1>2, <1>3, <1>4, <1>5

LEMMA TailDistinct ==
  ASSUME NEW S, NEW s \in Seq(S), s # <<>>, Distinct(s)
  PROVE  Distinct(Tail(s)) /\ Head(s) \notin Range(Tail(s))
<1>1. DOMAIN s = 1 .. Len(s) /\ DOMAIN Tail(s) = 1 .. Len(Tail(s))
  BY HeadTail, LenProperties
<1>2. ASSUME NEW i \in DOMAIN Tail(s), NEW j \in DOMAIN Tail(s), Tail(s)[i] = Tail(s)[j]
      PROVE  i = j
  <2>1. s[i + 1] = s[j + 1] /\ i + 1 \in DOMAIN s /\ j + 1 \in DOMAIN s
    BY <1>1, <1>2, HeadTail
  <2>2. i + 1 = j + 1
    BY <2>1 DEF Distinct
  <2>3. QED
    BY <1>1, <2>2, HeadTail
<1>3. ASSUME NEW i \in DOMAIN Tail(s), Tail(s)[i] = Head(s)
      PROVE  FALSE
  <2>1. s[i + 1] = s[1] /\ i + 1 \in DOMAIN s /\ 1 \in DOMAIN s
    BY <1>1, <1>3, HeadTail
  <2>2. i + 1 = 1
    BY <2>1 DEF Distinct
  <2>3. QED
    BY <1>1, <2>2, HeadTail
<1>4. QED
  BY <1>2, <1>3 DEF Distinct, Range

LEMMA Appended ==
  ASSUME NEW S, NEW s \in Seq(S), NEW x \in S
  PROVE  /\ Append(s, x) \in Seq(S)
         /\ DOMAIN Append(s, x) = DOMAIN s \cup {Len(s) + 1}
         /\ Len(s) + 1 \notin DOMAIN s
         /\ Append(s, x)[Len(s) + 1] = x
         /\ \A i \in DOMAIN s : Append(s, x)[i] = s[i]
         /\ Last(Append(s, x)) = x /\ Append(s, x) # s
<1>1. /\ Append(s, x) \in Seq(S) /\ Len(Append(s, x)) = Len(s) + 1
      /\ \A i \in 1 .. Len(s) : Append(s, x)[i] = s[i]
      /\ Append(s, x)[Len(s) + 1] = x
  BY AppendProperties
<1>2. Len(s) \in Nat /\ DOMAIN s = 1 .. Len(s)
  BY LenProperties
<1>3. DOMAIN Append(s, x) = 1 .. Len(s) + 1
  BY <1>1, LenProperties
<1>4. Append(s, x) # s
  <2>1. Len(s) + 1 \in DOMAIN Append(s, x) /\ Len(s) + 1 \notin DOMAIN s
    BY <1>2, <1>3
  <2>2. QED
    BY <2>1
<1>5. DOMAIN Append(s, x) = DOMAIN s \cup {Len(s) + 1} /\ Len(s) + 1 \notin DOMAIN s
  BY <1>2, <1>3
<1>6. Last(Append(s, x)) = x
  BY <1>1 DEF Last
<1>7. QED
  BY <1>1, <1>2, <1>4, <1>5, <1>6

-----------------------------------------------------------------------------
(***************************************************************************)
(* HotZone: the tip of a queue.                                            *)
(***************************************************************************)
\* Stored bids in the order of the query.
Sorted(type, s) ==
  \A i, j \in DOMAIN s :
    i < j => IF type = "SELL" THEN s[i].bid.price <= s[j].bid.price
                              ELSE s[i].bid.price >= s[j].bid.price

\* h is no better a price than tip.
NoBetter(type, h, tip) ==
  IF type = "SELL" THEN h.price >= tip.price ELSE h.price <= tip.price

\* Being hotter is a strict order.
LEMMA HotterIrreflexive ==
  ASSUME NEW h \in HotBid
  PROVE  ~HotterThan(h, h)
  BY DEF HotterThan, HotBid

LEMMA HotterTransitive ==
  ASSUME NEW h \in HotBid, NEW i \in HotBid, NEW j \in HotBid,
         h.type = i.type, HotterThan(h, i), HotterThan(i, j)
  PROVE  HotterThan(h, j)
  BY DEF HotterThan, HotBid

\* Every finite set of bids of one type that is not empty has a hottest one.
LEMMA HottestExists ==
  ASSUME NEW type \in Sides, NEW C \in SUBSET {h \in HotBid : h.type = type},
         IsFiniteSet(C), C # {}
  PROVE  \E h \in C : \A other \in C : ~HotterThan(other, h)
<1> DEFINE Above(h) == {other \in C : HotterThan(other, h)}
           R == {Above(h) : h \in C}
<1>1. R \subseteq SUBSET C /\ R # {}
  OBVIOUS
<1>2. /\ FiniteSubsetsOf(C) = SUBSET C
      /\ IsWellFoundedOn(StrictSubsetOrdering(C), FiniteSubsetsOf(C))
  BY FS_FiniteSubsetsOfFinite, FS_StrictSubsetOrderingWellFounded
<1>3. PICK A \in R : \A B \in R : ~(<<B, A>> \in StrictSubsetOrdering(C))
  <2> HIDE DEF R
  <2>1. QED
    BY <1>1, <1>2, WFMin
<1>4. PICK h \in C : A = Above(h)
  OBVIOUS
<1>5. ASSUME NEW other \in C, HotterThan(other, h)
      PROVE  FALSE
  <2>1. Above(other) \subseteq Above(h)
    BY <1>5, HotterTransitive
  <2>2. other \in Above(h) /\ other \notin Above(other)
    BY <1>5, HotterIrreflexive
  <2>3. <<Above(other), Above(h)>> \in StrictSubsetOrdering(C)
    <3>1. Above(other) \in SUBSET C /\ Above(h) \in SUBSET C /\ Above(other) # Above(h)
      BY <2>2
    <3> HIDE DEF Above
    <3>2. QED
      BY <2>1, <3>1 DEF StrictSubsetOrdering
  <2>4. Above(other) \in R
    OBVIOUS
  <2>5. QED
    BY <1>3, <1>4, <2>3, <2>4
<1>6. QED
  BY <1>5

\* The head of stored bids in the query's order has the best price of them.
LEMMA HeadIsBest ==
  ASSUME NEW type \in Sides, NEW q \in Queue(type), q.stored # <<>>, Sorted(type, q.stored),
         NEW e \in Range(q.stored)
  PROVE  NoBetter(type, e.bid, Head(q.stored).bid)
<1> DEFINE S == {d \in Entity : d.bid.type = type}
<1>1. q.stored \in Seq(S)
  BY DEF Queue
<1>2. PICK i \in 1 .. Len(q.stored) : q.stored[i] = e
  <2> HIDE DEF S
  <2>1. QED
    BY <1>1, RangeIn
<1>3. Head(q.stored) = q.stored[1] /\ Head(q.stored) \in S /\ Len(q.stored) \in Nat \ {0}
  <2> HIDE DEF S
  <2>1. QED
    BY <1>1, HeadTail
<1>4. DOMAIN q.stored = 1 .. Len(q.stored)
  <2> HIDE DEF S
  <2>1. QED
    BY <1>1, LenProperties
<1>5. CASE i = 1
  BY <1>2, <1>3, <1>5 DEF NoBetter, Entity, HotBid
<1>6. CASE i # 1
  <2>1. 1 \in DOMAIN q.stored /\ i \in DOMAIN q.stored /\ 1 < i
    BY <1>3, <1>4, <1>6
  <2>2. QED
    BY <1>2, <1>3, <2>1 DEF Sorted, NoBetter
<1>7. QED
  BY <1>5, <1>6

\* What is not hotter is no better a price.
LEMMA ColderIsNoBetter ==
  ASSUME NEW type \in Sides, NEW h \in HotBid, NEW tip \in HotBid,
         h.type = type, tip.type = type
  PROVE  /\ ~HotterThan(h, tip) => NoBetter(type, h, tip)
         /\ HotterThan(tip, h) => NoBetter(type, h, tip)
  BY DEF HotterThan, NoBetter, HotBid, Sides

LEMMA NoBetterTransitive ==
  ASSUME NEW type \in Sides, NEW h \in HotBid, NEW i \in HotBid, NEW j \in HotBid,
         NoBetter(type, h, i), NoBetter(type, i, j)
  PROVE  NoBetter(type, h, j)
  BY DEF NoBetter, HotBid

\* The candidates of a queue are bids of its type.
LEMMA CandidatesTyped ==
  ASSUME NEW type \in Sides, NEW q \in Queue(type)
  PROVE  /\ q.stored \in Seq({e \in Entity : e.bid.type = type})
         /\ \A e \in Range(q.stored) : e \in Entity /\ e.bid \in HotBid /\ e.bid.type = type
         /\ \A h \in q.cached : h \in HotBid /\ h.type = type
         /\ \A h \in Candidates(q) : h \in HotBid /\ h.type = type
<1> DEFINE S == {e \in Entity : e.bid.type = type}
<1>1. q.stored \in Seq(S) /\ q.cached \subseteq {h \in HotBid : h.type = type}
  BY DEF Queue
<1>2. Range(q.stored) \subseteq S
  <2> HIDE DEF S
  <2>1. QED
    BY <1>1, RangeIn
<1>3. \A e \in S : e.bid \in HotBid
  BY DEF Entity
<1>4. QED
  BY <1>1, <1>2, <1>3 DEF Candidates

LEMMA StoredHead ==
  ASSUME NEW type \in Sides, NEW q \in Queue(type)
  PROVE  /\ q.stored # <<>> => Head(q.stored) \in Range(q.stored)
         /\ Range(q.stored) # {} => q.stored # <<>>
<1> DEFINE S == {e \in Entity : e.bid.type = type}
           s == q.stored
<1>1. s \in Seq(S)
  BY CandidatesTyped
<1> HIDE DEF S, s
<1>2. s # <<>> => Head(s) \in Range(s)
  BY <1>1, HeadTail
<1>3. Range(s) # {} => s # <<>>
  <2>1. ASSUME s = <<>> PROVE Range(s) = {}
    BY <2>1 DEF Range
  <2>2. QED
    BY <2>1
<1>4. QED
  BY <1>2, <1>3 DEF s

LEMMA TopExists ==
  ASSUME NEW type \in Sides, NEW q \in Queue(type), IsFiniteSet(q.cached), q.cached # {}
  PROVE  HeapTops(q) # {}
<1>1. q.cached \in SUBSET {h \in HotBid : h.type = type}
  BY DEF Queue
<1>2. \E h \in q.cached : \A other \in q.cached : ~HotterThan(other, h)
  BY <1>1, HottestExists
<1>3. QED
  BY <1>2 DEF HeapTops

\* A tip is one of the candidates, and none of them has a better price.
LEMMA TipIsBest ==
  ASSUME NEW type \in Sides, NEW q \in Queue(type), NEW tip \in Tips(q)
  PROVE  /\ tip \in Candidates(q)
         /\ Sorted(type, q.stored) /\ IsFiniteSet(q.cached) =>
              \A h \in Candidates(q) : NoBetter(type, h, tip)
<1>1. CASE StoredFirst(q)
  <2>1. tip = Head(q.stored).bid /\ q.stored # <<>>
    BY <1>1 DEF Tips, StoredFirst
  <2>2. Head(q.stored) \in Range(q.stored)
    BY <2>1, StoredHead
  <2>3. tip \in Candidates(q)
    BY <2>1, <2>2 DEF Candidates
  <2>4. ASSUME Sorted(type, q.stored), IsFiniteSet(q.cached), NEW h \in Candidates(q)
        PROVE  NoBetter(type, h, tip)
    <3>1. CASE h \in q.cached
      <4>1. PICK top \in HeapTops(q) : TRUE
        BY <2>4, <3>1, TopExists
      <4>2. top \in HotBid /\ top.type = type /\ h \in HotBid /\ h.type = type
        BY <3>1, <4>1, CandidatesTyped DEF HeapTops
      <4>3. ~HotterThan(h, top) /\ HotterThan(tip, top)
        BY <1>1, <2>1, <3>1, <4>1 DEF HeapTops, StoredFirst
      <4>4. NoBetter(type, h, top) /\ NoBetter(type, top, tip)
        BY <2>3, <4>2, <4>3, ColderIsNoBetter, CandidatesTyped
      <4>5. QED
        BY <2>3, <4>2, <4>4, NoBetterTransitive, CandidatesTyped
    <3>2. CASE \E e \in Range(q.stored) : h = e.bid
      BY <2>1, <2>4, <3>2, HeadIsBest
    <3>3. QED
      BY <2>4, <3>1, <3>2 DEF Candidates
  <2>5. QED
    BY <2>3, <2>4
<1>2. CASE ~StoredFirst(q)
  <2>1. tip \in HeapTops(q)
    BY <1>2 DEF Tips
  <2>2. tip \in q.cached /\ tip \in Candidates(q) /\ \A h \in q.cached : ~HotterThan(h, tip)
    BY <2>1 DEF HeapTops, Candidates
  <2>3. ASSUME Sorted(type, q.stored), NEW h \in Candidates(q)
        PROVE  NoBetter(type, h, tip)
    <3>1. CASE h \in q.cached
      BY <2>2, <3>1, ColderIsNoBetter, CandidatesTyped
    <3>2. CASE \E e \in Range(q.stored) : h = e.bid
      <4>1. PICK e \in Range(q.stored) : h = e.bid
        BY <3>2
      <4>2. q.stored # <<>>
        BY <4>1, StoredHead
      <4>3. PICK top \in HeapTops(q) : ~HotterThan(Head(q.stored).bid, top)
        BY <1>2, <4>2 DEF StoredFirst
      <4>4. /\ top \in HotBid /\ top.type = type /\ top \in q.cached
            /\ tip \in HotBid /\ tip.type = type
            /\ h \in HotBid /\ h.type = type
        BY <2>2, <2>3, <4>3, CandidatesTyped DEF HeapTops
      <4>5. Head(q.stored) \in Range(q.stored)
        BY <4>2, StoredHead
      <4>6. Head(q.stored).bid \in HotBid /\ Head(q.stored).bid.type = type
        BY <4>5, CandidatesTyped
      <4>7. NoBetter(type, h, Head(q.stored).bid)
        BY <2>3, <4>1, <4>2, HeadIsBest
      <4>8. NoBetter(type, Head(q.stored).bid, top)
        BY <4>3, <4>4, <4>6, ColderIsNoBetter
      <4>9. NoBetter(type, top, tip)
        BY <2>2, <4>4, ColderIsNoBetter
      <4>10. NoBetter(type, h, top)
        BY <4>4, <4>6, <4>7, <4>8, NoBetterTransitive
      <4>11. QED
        BY <4>4, <4>9, <4>10, NoBetterTransitive
    <3>3. QED
      BY <2>3, <3>1, <3>2 DEF Candidates
  <2>4. QED
    BY <2>2, <2>3
<1>3. QED
  BY <1>1, <1>2

\* A queue that has a candidate has a tip.
LEMMA TipExists ==
  ASSUME NEW type \in Sides, NEW q \in Queue(type), IsFiniteSet(q.cached), Candidates(q) # {}
  PROVE  Tips(q) # {}
<1>1. CASE StoredFirst(q)
  BY <1>1 DEF Tips
<1>2. CASE ~StoredFirst(q)
  <2>1. q.cached # {} => HeapTops(q) # {}
    BY TopExists
  <2>2. q.cached = {} => q.stored # <<>> /\ HeapTops(q) = {}
    <3>1. ASSUME q.cached = {} PROVE q.stored # <<>>
      <4>1. PICK h \in Candidates(q) : TRUE
        OBVIOUS
      <4>2. Range(q.stored) # {}
        BY <3>1, <4>1 DEF Candidates
      <4>3. QED
        BY <4>2, StoredHead
    <3>2. QED
      BY <3>1 DEF HeapTops
  <2>3. q.cached # {}
    BY <1>2, <2>2 DEF StoredFirst
  <2>4. QED
    BY <1>2, <2>1, <2>3 DEF Tips
<1>3. QED
  BY <1>1, <1>2

\* No bid is in a queue twice.
Once(q) ==
  /\ Distinct(q.stored)
  /\ \A d, e \in Range(q.stored) : d.bid = e.bid => d = e
  /\ \A e \in Range(q.stored) : e.bid \notin q.cached

\* What taking the tip off a queue does to it.
LEMMA PoppedQueue ==
  ASSUME NEW type \in Sides, NEW q \in Queue(type), NEW tip \in Tips(q),
         NEW r, r = Popped(q, tip)
  PROVE  /\ r \in Queue(type)
         /\ IsFiniteSet(q.cached) => IsFiniteSet(r.cached)
         /\ Candidates(q) = Candidates(r) \cup {tip}
         /\ Range(r.stored) \subseteq Range(q.stored) /\ r.cached \subseteq q.cached
         /\ Sorted(type, q.stored) => Sorted(type, r.stored)
         /\ Distinct(q.stored) => Distinct(r.stored)
         /\ Once(q) => tip \notin Candidates(r)
<1> DEFINE S == {e \in Entity : e.bid.type = type}
<1>0. q \in [stored : Seq(S), cached : SUBSET {h \in HotBid : h.type = type}]
  BY DEF Queue
<1>1. CASE StoredFirst(q)
  <2> DEFINE s == q.stored
  <2>1. r = [q EXCEPT !.stored = Tail(@)]
    BY <1>1 DEF Popped
  <2>2. s \in Seq(S) /\ s # <<>> /\ tip = Head(s).bid
    BY <1>0, <1>1 DEF Tips, StoredFirst
  <2>3. r.stored = Tail(s) /\ r.cached = q.cached
    BY <1>0, <2>1
  <2> HIDE DEF S, s
  <2>4. /\ Tail(s) \in Seq(S) /\ Len(s) \in Nat \ {0}
        /\ Len(Tail(s)) = Len(s) - 1
        /\ \A i \in 1 .. Len(Tail(s)) : Tail(s)[i] = s[i + 1] /\ i + 1 \in 1 .. Len(s)
        /\ Range(s) = {Head(s)} \cup Range(Tail(s))
    BY <2>2, HeadTail
  <2>5. r \in Queue(type)
    BY <1>0, <2>1, <2>4 DEF Queue, S, s
  <2>6. Candidates(q) = Candidates(r) \cup {tip}
    BY <2>2, <2>3, <2>4 DEF Candidates, s
  <2>7. Sorted(type, q.stored) => Sorted(type, r.stored)
    <3> SUFFICES ASSUME Sorted(type, s)
                 PROVE  Sorted(type, Tail(s))
      BY <2>3 DEF s
    <3>1. DOMAIN s = 1 .. Len(s) /\ DOMAIN Tail(s) = 1 .. Len(Tail(s))
      BY <2>2, <2>4, LenProperties
    <3>2. ASSUME NEW i \in DOMAIN Tail(s), NEW j \in DOMAIN Tail(s), i < j
          PROVE  IF type = "SELL" THEN Tail(s)[i].bid.price <= Tail(s)[j].bid.price
                                  ELSE Tail(s)[i].bid.price >= Tail(s)[j].bid.price
      <4>1. /\ Tail(s)[i] = s[i + 1] /\ i + 1 \in DOMAIN s
            /\ Tail(s)[j] = s[j + 1] /\ j + 1 \in DOMAIN s
        BY <2>4, <3>1
      <4>2. i + 1 < j + 1
        BY <2>4, <3>1, <3>2
      <4>3. QED
        BY <4>1, <4>2 DEF Sorted
    <3>3. QED
      BY <3>2 DEF Sorted
  <2>8. Distinct(q.stored) => Distinct(r.stored) /\ Head(s) \notin Range(Tail(s))
    BY <2>2, <2>3, TailDistinct DEF s
  <2>9. Once(q) => tip \notin Candidates(r)
    BY <2>2, <2>3, <2>4, <2>8 DEF Once, Candidates, s
  <2>10. QED
    BY <2>3, <2>4, <2>5, <2>6, <2>7, <2>8, <2>9 DEF s
<1>2. CASE ~StoredFirst(q)
  <2>1. r = [q EXCEPT !.cached = @ \ {tip}] /\ tip \in q.cached
    BY <1>2 DEF Popped, Tips, HeapTops
  <2>2. r.stored = q.stored /\ r.cached = q.cached \ {tip} /\ r \in Queue(type)
    BY <1>0, <2>1 DEF Queue
  <2>3. IsFiniteSet(q.cached) => IsFiniteSet(r.cached)
    BY <2>2, FS_Subset
  <2>4. Candidates(q) = Candidates(r) \cup {tip}
    BY <2>1, <2>2 DEF Candidates
  <2>5. Once(q) => tip \notin Candidates(r)
    BY <2>1, <2>2 DEF Once, Candidates
  <2>6. QED
    BY <2>2, <2>3, <2>4, <2>5
<1>3. QED
  BY <1>1, <1>2

-----------------------------------------------------------------------------
(***************************************************************************)
(* HotZone: the rounds of a pass, field by field.                          *)
(***************************************************************************)
\* Only the pass of w changes, and it remains the pass it was.
InRound(w) ==
  /\ pass' \in [Passes -> Pass] /\ \A v \in Passes \ {w} : pass'[v] = pass[v]
  /\ pass[w].pc = "matching" /\ pass'[w].pc = "matching"
  /\ pass'[w].tasks = pass[w].tasks /\ pass'[w].until = pass[w].until
  /\ pass'[w].stamp = pass[w].stamp
  /\ pass[w].todo # <<>>
  /\ UNCHANGED <<now, arrived, hotTasks, zone, applyTasks, fails, overruns>>

\* The queue of one type changes, and how.
QueueBecomes(w, type, q) ==
  /\ pass'[w].queue[type] = q
  /\ \A other \in Sides : other # type => pass'[w].queue[other] = pass[w].queue[other]

LEMMA OtherType ==
  ASSUME NEW type \in Sides
  PROVE  Other(type) \in Sides /\ Other(type) # type /\ Other(Other(type)) = type
         /\ \A side \in Sides : side = type \/ side = Other(type)
  BY DEF Other, Sides

\* The parts of a pass, typed.
LEMMA PassTyped ==
  ASSUME HotTypeOK, NEW w \in Passes
  PROVE  /\ pass[w] \in Pass
         /\ pass[w].pc \in {"idle", "leased", "matching", "ended"}
         /\ pass[w].tasks \subseteq HotBid
         /\ pass[w].todo \in Seq(HotBid)
         /\ pass[w].until \in Nat /\ pass[w].stamp \in Nat
         /\ \A type \in Sides : pass[w].queue[type] \in Queue(type)
         /\ pass[w].matched \in Seq(Pair)
<1>1. pass[w] \in Pass
  BY DEF HotTypeOK
<1>2. pass[w].queue \in [BUY : Queue("BUY"), SELL : Queue("SELL")]
  BY <1>1 DEF Pass
<1>3. \A type \in Sides : pass[w].queue[type] \in Queue(type)
  BY <1>2 DEF Sides
<1>4. QED
  BY <1>1, <1>3 DEF Pass

LEMMA IncomingTyped ==
  ASSUME HotTypeOK, NEW w \in Passes, Matching(w)
  PROVE  /\ Incoming(w) \in HotBid /\ Incoming(w).type \in Sides
         /\ Tail(pass[w].todo) \in Seq(HotBid)
         /\ Other(Incoming(w).type) \in Sides
         /\ OtherQueue(w) \in Queue(Other(Incoming(w).type))
<1>1. pass[w].todo \in Seq(HotBid) /\ pass[w].todo # <<>>
  BY PassTyped DEF Matching
<1>2. Incoming(w) \in HotBid /\ Tail(pass[w].todo) \in Seq(HotBid)
  BY <1>1, HeadTail DEF Incoming
<1>3. QED
  BY <1>2, OtherType, PassTyped DEF HotBid, OtherQueue

\* A bid of the other type than the first incoming one.
Facing(w) == Other(Incoming(w).type)

SkipEffect(w, tip) ==
  /\ InRound(w)
  /\ tip \in Tips(OtherQueue(w)) /\ Expired(tip, pass[w].stamp)
  /\ QueueBecomes(w, Facing(w), Popped(OtherQueue(w), tip))
  /\ pass'[w].todo = pass[w].todo /\ pass'[w].matched = pass[w].matched

MatchEffect(w, tip) ==
  /\ InRound(w)
  /\ tip \in Tips(OtherQueue(w)) /\ ~Expired(tip, pass[w].stamp)
  /\ QueueBecomes(w, Facing(w), Popped(OtherQueue(w), tip))
  /\ pass'[w].todo = Tail(pass[w].todo)
  /\ pass'[w].matched = Append(pass[w].matched, <<Incoming(w), tip>>)

LEMMA SkipIsEffect ==
  ASSUME HotTypeOK, NEW w \in Passes, SkipExpired(w)
  PROVE  \E tip \in HotBid : SkipEffect(w, tip)
<1>1. Matching(w)
  BY DEF SkipExpired
<1>2. PICK tip \in Tips(OtherQueue(w)) :
        /\ Expired(tip, pass[w].stamp)
        /\ pass' = [pass EXCEPT ![w].queue[tip.type] = Popped(@, tip)]
  BY DEF SkipExpired
<1> DEFINE type == Facing(w)
           q == OtherQueue(w)
           r == Popped(q, tip)
<1>3. type \in Sides /\ q \in Queue(type) /\ q = pass[w].queue[type]
  BY <1>1, IncomingTyped DEF OtherQueue, Facing
<1>4. tip \in Candidates(q) /\ r \in Queue(type)
  BY <1>2, <1>3, TipIsBest, PoppedQueue
<1>5. tip \in HotBid /\ tip.type = type
  BY <1>3, <1>4, CandidatesTyped
<1>6. pass' = [pass EXCEPT ![w].queue[type] = r]
  BY <1>2, <1>3, <1>5
<1> HIDE DEF type, q, r
<1>7. pass \in [Passes -> Pass]
  BY DEF HotTypeOK
<1>8. PICK p \in Pass : p = pass[w]
  BY <1>7
<1>9. pass'[w] = [p EXCEPT !.queue[type] = r]
  BY <1>6, <1>7, <1>8
<1>10. p.queue \in [BUY : Queue("BUY"), SELL : Queue("SELL")]
  BY <1>8 DEF Pass
<1>11. [p.queue EXCEPT ![type] = r] \in [BUY : Queue("BUY"), SELL : Queue("SELL")]
  BY <1>3, <1>4, <1>10 DEF Sides
<1>12. pass'[w] \in Pass
  BY <1>8, <1>9, <1>11 DEF Pass
<1>13. /\ pass'[w].pc = p.pc /\ pass'[w].tasks = p.tasks /\ pass'[w].until = p.until
       /\ pass'[w].stamp = p.stamp /\ pass'[w].todo = p.todo /\ pass'[w].matched = p.matched
       /\ pass'[w].queue = [p.queue EXCEPT ![type] = r]
  BY <1>8, <1>9 DEF Pass
<1>14. QueueBecomes(w, type, r)
  BY <1>3, <1>8, <1>10, <1>13 DEF QueueBecomes, Sides
<1>15. /\ pass' \in [Passes -> Pass] /\ \A v \in Passes \ {w} : pass'[v] = pass[v]
  BY <1>6, <1>7, <1>12
<1>16. InRound(w)
  BY <1>1, <1>8, <1>13, <1>15 DEF InRound, Matching, SkipExpired
<1>17. QED
  BY <1>2, <1>5, <1>8, <1>13, <1>14, <1>16 DEF SkipEffect, type, q, r

LEMMA MatchIsEffect ==
  ASSUME HotTypeOK, NEW w \in Passes, Match(w)
  PROVE  \E tip \in HotBid : MatchEffect(w, tip) /\ IsMatch(tip, Incoming(w))
<1>1. Matching(w)
  BY DEF Match
<1>2. PICK tip \in Tips(OtherQueue(w)) :
        /\ ~Expired(tip, pass[w].stamp)
        /\ IsMatch(tip, Incoming(w))
        /\ pass' = [pass EXCEPT ![w].queue[tip.type] = Popped(@, tip),
                                ![w].matched = Append(@, <<Incoming(w), tip>>),
                                ![w].todo = Tail(@)]
  BY DEF Match
<1> DEFINE type == Facing(w)
           q == OtherQueue(w)
           r == Popped(q, tip)
           todo == Tail(pass[w].todo)
           matched == Append(pass[w].matched, <<Incoming(w), tip>>)
<1>3. type \in Sides /\ q \in Queue(type) /\ q = pass[w].queue[type] /\ todo \in Seq(HotBid)
  BY <1>1, IncomingTyped DEF OtherQueue, Facing
<1>4. tip \in Candidates(q) /\ r \in Queue(type)
  BY <1>2, <1>3, TipIsBest, PoppedQueue
<1>5. tip \in HotBid /\ tip.type = type
  BY <1>3, <1>4, CandidatesTyped
<1>6. matched \in Seq(Pair)
  BY <1>1, <1>5, IncomingTyped, PassTyped, Appended DEF Pair
<1>7. pass \in [Passes -> Pass]
  BY DEF HotTypeOK
<1>8. PICK p \in Pass : p = pass[w]
  BY <1>7
<1>9. pass' = [pass EXCEPT ![w] = [p EXCEPT !.queue[type] = r, !.matched = matched, !.todo = todo]]
  BY <1>2, <1>3, <1>5, <1>7, <1>8
<1> HIDE DEF type, q, r, todo, matched
<1>10. pass'[w] = [p EXCEPT !.queue[type] = r, !.matched = matched, !.todo = todo]
  BY <1>7, <1>9
<1>11. p.queue \in [BUY : Queue("BUY"), SELL : Queue("SELL")]
  BY <1>8 DEF Pass
<1>12. [p.queue EXCEPT ![type] = r] \in [BUY : Queue("BUY"), SELL : Queue("SELL")]
  BY <1>3, <1>4, <1>11 DEF Sides
<1>13. pass'[w] \in Pass
  BY <1>3, <1>6, <1>8, <1>10, <1>12 DEF Pass
<1>14. /\ pass'[w].pc = p.pc /\ pass'[w].tasks = p.tasks /\ pass'[w].until = p.until
       /\ pass'[w].stamp = p.stamp /\ pass'[w].todo = todo /\ pass'[w].matched = matched
       /\ pass'[w].queue = [p.queue EXCEPT ![type] = r]
  BY <1>8, <1>10 DEF Pass
<1>15. QueueBecomes(w, type, r)
  BY <1>3, <1>8, <1>11, <1>14 DEF QueueBecomes, Sides
<1>16. /\ pass' \in [Passes -> Pass] /\ \A v \in Passes \ {w} : pass'[v] = pass[v]
  BY <1>7, <1>9, <1>10, <1>13
<1>17. InRound(w)
  BY <1>1, <1>8, <1>14, <1>16 DEF InRound, Matching, Match
<1>18. QED
  BY <1>2, <1>5, <1>8, <1>14, <1>15, <1>17 DEF MatchEffect, type, q, r, todo, matched

InsertEffect(w) ==
  /\ InRound(w)
  /\ \A tip \in Tips(OtherQueue(w)) : ~Expired(tip, pass[w].stamp) /\ ~IsMatch(tip, Incoming(w))
  /\ LET type == Incoming(w).type IN
       QueueBecomes(w, type,
         [pass[w].queue[type] EXCEPT !.cached = @ \cup {Incoming(w)}])
  /\ pass'[w].todo = Tail(pass[w].todo) /\ pass'[w].matched = pass[w].matched

LEMMA InsertIsEffect ==
  ASSUME HotTypeOK, NEW w \in Passes, Insert(w)
  PROVE  InsertEffect(w)
<1>1. Matching(w)
  BY DEF Insert
<1> DEFINE h == Incoming(w)
           type == h.type
           q == pass[w].queue[type]
           r == [q EXCEPT !.cached = @ \cup {h}]
           todo == Tail(pass[w].todo)
<1>2. type \in Sides /\ q \in Queue(type) /\ h \in HotBid /\ todo \in Seq(HotBid)
  BY <1>1, IncomingTyped, PassTyped
<1>3. r \in Queue(type)
  <2> HIDE DEF type, q
  <2>1. QED
    BY <1>2 DEF Queue, type
<1>4. pass \in [Passes -> Pass]
  BY DEF HotTypeOK
<1>5. PICK p \in Pass : p = pass[w]
  BY <1>4
<1>6. pass' = [pass EXCEPT ![w] = [p EXCEPT !.queue[type] = r, !.todo = todo]]
  BY <1>2, <1>4, <1>5 DEF Insert
<1> HIDE DEF h, type, q, r, todo
<1>7. pass'[w] = [p EXCEPT !.queue[type] = r, !.todo = todo]
  BY <1>4, <1>6
<1>8. p.queue \in [BUY : Queue("BUY"), SELL : Queue("SELL")]
  BY <1>5 DEF Pass
<1>9. [p.queue EXCEPT ![type] = r] \in [BUY : Queue("BUY"), SELL : Queue("SELL")]
  BY <1>2, <1>3, <1>8 DEF Sides
<1>10. pass'[w] \in Pass
  BY <1>2, <1>5, <1>7, <1>9 DEF Pass
<1>11. /\ pass'[w].pc = p.pc /\ pass'[w].tasks = p.tasks /\ pass'[w].until = p.until
       /\ pass'[w].stamp = p.stamp /\ pass'[w].todo = todo /\ pass'[w].matched = p.matched
       /\ pass'[w].queue = [p.queue EXCEPT ![type] = r]
  BY <1>5, <1>7 DEF Pass
<1>12. QueueBecomes(w, type, r)
  BY <1>2, <1>5, <1>8, <1>11 DEF QueueBecomes, Sides
<1>13. /\ pass' \in [Passes -> Pass] /\ \A v \in Passes \ {w} : pass'[v] = pass[v]
  BY <1>4, <1>6, <1>7, <1>10
<1>14. InRound(w)
  BY <1>1, <1>5, <1>11, <1>13 DEF InRound, Matching, Insert
<1>15. QED
  BY <1>5, <1>11, <1>12, <1>14 DEF InsertEffect, h, type, q, r, todo, Insert

-----------------------------------------------------------------------------
(***************************************************************************)
(* HotZone: the other steps of a pass, field by field.                     *)
(***************************************************************************)
\* What CHOOSE and sorting rely on.
HotFinite ==
  /\ IsFiniteSet(hotTasks) /\ IsFiniteSet(zone)
  /\ \A w \in Passes, type \in Sides : IsFiniteSet(pass[w].queue[type].cached)

\* The pass of w becomes p, and no other changes.
Becomes(w, p) ==
  /\ pass' \in [Passes -> Pass] /\ pass'[w] = p
  /\ \A v \in Passes \ {w} : pass'[v] = pass[v]

LEMMA BecomesTyped ==
  ASSUME HotTypeOK, NEW w \in Passes, NEW p \in Pass, pass' = [pass EXCEPT ![w] = p]
  PROVE  Becomes(w, p)
  BY DEF HotTypeOK, Becomes

LEMMA IdleTyped ==
  /\ Idle \in Pass
  /\ Idle.pc = "idle" /\ Idle.tasks = {} /\ Idle.todo = <<>> /\ Idle.matched = <<>>
  /\ \A type \in Sides : Idle.queue[type].stored = <<>> /\ Idle.queue[type].cached = {}
<1>1. EmptyQueue \in Queue("BUY") /\ EmptyQueue \in Queue("SELL")
  BY DEF EmptyQueue, Queue
<1> HIDE DEF EmptyQueue
<1>2. Idle \in Pass
  BY <1>1 DEF Idle, Pass
<1>3. \A type \in Sides : Idle.queue[type] = EmptyQueue
  BY DEF Idle, Sides
<1>4. EmptyQueue.stored = <<>> /\ EmptyQueue.cached = {}
  BY DEF EmptyQueue
<1>5. QED
  BY <1>2, <1>3, <1>4 DEF Idle

\* A pass that ended keeps its tasks only.
LEMMA EndedTyped ==
  ASSUME NEW p \in Pass
  PROVE  /\ Ended(p) \in Pass
         /\ Ended(p).pc = "ended" /\ Ended(p).tasks = p.tasks /\ Ended(p).until = p.until
         /\ Ended(p).todo = <<>> /\ Ended(p).matched = <<>>
         /\ \A type \in Sides : Ended(p).queue[type].stored = <<>> /\ Ended(p).queue[type].cached = {}
<1>1. PICK i \in Pass : i = Idle
  BY IdleTyped
<1>2. Ended(p) = [i EXCEPT !.pc = "ended", !.tasks = p.tasks, !.until = p.until]
  BY <1>1 DEF Ended
<1>3. Ended(p) \in Pass
  BY <1>2 DEF Pass
<1>4. /\ Ended(p).pc = "ended" /\ Ended(p).tasks = p.tasks /\ Ended(p).until = p.until
      /\ Ended(p).todo = i.todo /\ Ended(p).matched = i.matched /\ Ended(p).queue = i.queue
  BY <1>2 DEF Pass
<1>5. QED
  BY <1>1, <1>3, <1>4, IdleTyped

\* What a pass that leased these tasks is.
LeaseEffect(w, tasks) ==
  /\ pass[w].pc = "idle" /\ tasks \subseteq Available
  /\ Becomes(w, pass'[w])
  /\ pass'[w].pc = "leased" /\ pass'[w].tasks = {task.bid : task \in tasks}
  /\ Range(pass'[w].todo) = pass'[w].tasks /\ Distinct(pass'[w].todo)
  /\ pass'[w].until = now + LeaseTime /\ pass'[w].matched = <<>>
  /\ \A type \in Sides : pass'[w].queue[type].stored = <<>> /\ pass'[w].queue[type].cached = {}
  /\ hotTasks' = (hotTasks \ tasks) \cup {[task EXCEPT !.free = now + LeaseTime] : task \in tasks}
  /\ UNCHANGED <<now, arrived, zone, applyTasks, fails, overruns>>

LEMMA LeaseIsEffect ==
  ASSUME HotTypeOK, HotFinite, NEW w \in Passes, Lease(w)
  PROVE  \E tasks \in SUBSET hotTasks : LeaseEffect(w, tasks)
<1>1. PICK tasks \in SUBSET Available :
        /\ \E todo \in SetToSeqs({task.bid : task \in tasks}) :
             pass' = [pass EXCEPT ![w] = [Idle EXCEPT !.pc = "leased", !.todo = todo,
                        !.tasks = {task.bid : task \in tasks}, !.until = now + LeaseTime]]
        /\ hotTasks' = (hotTasks \ tasks) \cup {[task EXCEPT !.free = now + LeaseTime] : task \in tasks}
  BY DEF Lease
<1> DEFINE bids == {task.bid : task \in tasks}
<1>2. tasks \in SUBSET hotTasks /\ tasks \subseteq [bid : HotBid, free : Nat]
  BY DEF Available, HotTypeOK
<1>3. IsFiniteSet(bids) /\ bids \subseteq HotBid
  <2>1. IsFiniteSet(tasks)
    BY <1>2, FS_Subset DEF HotFinite
  <2>2. IsFiniteSet(bids)
    <3> DEFINE f == [task \in tasks |-> task.bid]
    <3>1. DOMAIN f = tasks /\ bids = {f[x] : x \in tasks}
      OBVIOUS
    <3> HIDE DEF f, bids
    <3>2. QED
      BY <2>1, <3>1, ImageFinite
  <2>3. QED
    BY <1>2, <2>2
<1>4. PICK todo \in SetToSeqs(bids) :
        pass' = [pass EXCEPT ![w] = [Idle EXCEPT !.pc = "leased", !.todo = todo,
                        !.tasks = bids, !.until = now + LeaseTime]]
  BY <1>1
<1> HIDE DEF bids
<1>5. todo \in Seq(bids) /\ Range(todo) = bids /\ Distinct(todo)
  BY <1>3, SeqsOfSet
<1>6. todo \in Seq(HotBid)
  BY <1>3, <1>5
<1>7. PICK until \in Nat : until = now + LeaseTime
  BY HotAssumption DEF HotTypeOK
<1>8. PICK i \in Pass : i = Idle
  BY IdleTyped
<1>9. PICK p : p = [i EXCEPT !.pc = "leased", !.todo = todo, !.tasks = bids, !.until = until]
  OBVIOUS
<1>10. p \in Pass
  BY <1>3, <1>6, <1>9 DEF Pass
<1>11. /\ p.pc = "leased" /\ p.todo = todo /\ p.tasks = bids /\ p.until = until
       /\ p.matched = i.matched /\ p.queue = i.queue
  BY <1>9 DEF Pass
<1>12. Becomes(w, p)
  BY <1>4, <1>7, <1>8, <1>9, <1>10, BecomesTyped
<1>13. pass'[w] = p
  BY <1>12 DEF Becomes
<1>14. UNCHANGED <<now, arrived, zone, applyTasks, fails, overruns>> /\ pass[w].pc = "idle"
  BY DEF Lease
<1>15. LeaseEffect(w, tasks)
  BY <1>1, <1>5, <1>7, <1>8, <1>11, <1>12, <1>13, <1>14, IdleTyped DEF LeaseEffect, bids
<1>16. QED
  BY <1>2, <1>15

BeginEffect(w) ==
  /\ pass[w].pc = "leased" /\ \A v \in Passes : pass[v].pc # "matching"
  /\ Becomes(w, pass'[w])
  /\ pass'[w].pc = "matching" /\ pass'[w].stamp = now
  /\ pass'[w].tasks = pass[w].tasks /\ pass'[w].todo = pass[w].todo
  /\ pass'[w].until = pass[w].until /\ pass'[w].matched = pass[w].matched
  /\ \A type \in Sides :
       LET q == pass'[w].queue[type] IN
       /\ Range(q.stored) = {e \in zone : e.bid.type = type} /\ q.cached = {}
       /\ Distinct(q.stored) /\ Sorted(type, q.stored)
  /\ UNCHANGED <<now, arrived, hotTasks, zone, applyTasks, fails, overruns>>

LEMMA OrderTyped ==
  ASSUME HotTypeOK, HotFinite, NEW type \in Sides, NEW s \in QueryOrders(type)
  PROVE  /\ s \in Seq({e \in Entity : e.bid.type = type})
         /\ Range(s) = {e \in zone : e.bid.type = type} /\ Distinct(s) /\ Sorted(type, s)
<1> DEFINE S == {e \in zone : e.bid.type = type}
<1>1. IsFiniteSet(S) /\ S \subseteq {e \in Entity : e.bid.type = type}
  BY FS_Subset DEF HotTypeOK, HotFinite
<1>2. s \in SetToSeqs(S) /\ Sorted(type, s)
  BY DEF QueryOrders, Sorted
<1>3. s \in Seq(S) /\ Range(s) = S /\ Distinct(s)
  <2> HIDE DEF S
  <2>1. QED
    BY <1>1, <1>2, SeqsOfSet
<1>4. s \in Seq({e \in Entity : e.bid.type = type})
  <2> HIDE DEF S
  <2>1. QED
    BY <1>1, <1>3
<1>5. QED
  BY <1>2, <1>3, <1>4

LEMMA BeginIsEffect ==
  ASSUME HotTypeOK, HotFinite, NEW w \in Passes, Begin(w)
  PROVE  BeginEffect(w)
<1>1. PICK buys \in QueryOrders("BUY"), sells \in QueryOrders("SELL") :
        pass' = [pass EXCEPT ![w] = [@ EXCEPT !.pc = "matching", !.stamp = now,
                   !.queue = [BUY |-> [stored |-> buys, cached |-> {}],
                              SELL |-> [stored |-> sells, cached |-> {}]]]]
  BY DEF Begin
<1>2. "BUY" \in Sides /\ "SELL" \in Sides
  BY DEF Sides
<1>3. PICK b : b = [stored |-> buys, cached |-> {}]
  OBVIOUS
<1>4. PICK s : s = [stored |-> sells, cached |-> {}]
  OBVIOUS
<1>5. b \in Queue("BUY") /\ b.stored = buys /\ b.cached = {}
  BY <1>2, <1>3, OrderTyped DEF Queue
<1>6. s \in Queue("SELL") /\ s.stored = sells /\ s.cached = {}
  BY <1>2, <1>4, OrderTyped DEF Queue
<1>7. PICK both \in [BUY : Queue("BUY"), SELL : Queue("SELL")] :
        both = [BUY |-> b, SELL |-> s]
  BY <1>5, <1>6
<1>8. PICK p \in Pass : p = pass[w]
  BY DEF HotTypeOK
<1>9. PICK n \in Nat : n = now
  BY DEF HotTypeOK
<1>10. PICK r : r = [p EXCEPT !.pc = "matching", !.stamp = n, !.queue = both]
  OBVIOUS
<1>11. /\ r \in Pass
       /\ r.pc = "matching" /\ r.stamp = n /\ r.queue = both
       /\ r.tasks = p.tasks /\ r.todo = p.todo /\ r.until = p.until /\ r.matched = p.matched
  BY <1>10 DEF Pass
<1>12. pass' = [pass EXCEPT ![w] = r]
  BY <1>1, <1>3, <1>4, <1>7, <1>8, <1>9, <1>10
<1>13. Becomes(w, r)
  BY <1>11, <1>12, BecomesTyped
<1>14. pass'[w] = r
  BY <1>13 DEF Becomes
<1>15. ASSUME NEW type \in Sides
       PROVE  LET q == pass'[w].queue[type] IN
              /\ Range(q.stored) = {e \in zone : e.bid.type = type} /\ q.cached = {}
              /\ Distinct(q.stored) /\ Sorted(type, q.stored)
  <2>1. CASE type = "BUY"
    <3>1. pass'[w].queue[type] = b
      BY <1>7, <1>11, <1>14, <2>1
    <3>2. QED
      BY <1>2, <1>5, <2>1, <3>1, OrderTyped
  <2>2. CASE type = "SELL"
    <3>1. pass'[w].queue[type] = s
      BY <1>7, <1>11, <1>14, <2>2
    <3>2. QED
      BY <1>2, <1>6, <2>2, <3>1, OrderTyped
  <2>3. QED
    BY <2>1, <2>2 DEF Sides
<1>16. QED
  BY <1>8, <1>9, <1>11, <1>13, <1>14, <1>15 DEF BeginEffect, Begin

\* A transaction that ends, in whatever way.
LEMMA EndIsEffect ==
  ASSUME HotTypeOK, NEW w \in Passes, pass' = [pass EXCEPT ![w] = Ended(pass[w])]
  PROVE  Becomes(w, Ended(pass[w]))
  BY PassTyped, EndedTyped, BecomesTyped

LEMMA IdleIsEffect ==
  ASSUME HotTypeOK, NEW w \in Passes, pass' = [pass EXCEPT ![w] = Idle]
  PROVE  Becomes(w, Idle)
  BY IdleTyped, BecomesTyped

\* A finite hot zone has room for one more copy of a bid.
LEMMA FreshCopy ==
  ASSUME IsFiniteSet(zone), NEW h
  PROVE  \E n \in 0 .. Cardinality(zone) : [bid |-> h, copy |-> n] \notin zone
<1> DEFINE c == Cardinality(zone)
           N == 0 .. c
           f == [n \in N |-> [bid |-> h, copy |-> n]]
<1>1. c \in Nat
  BY FS_CardinalityType
<1>2. SUFFICES ASSUME \A n \in N : [bid |-> h, copy |-> n] \in zone
               PROVE  FALSE
  BY DEF N, c
<1>3. f \in Injection(N, zone)
  BY <1>2 DEF Injection, IsInjective
<1> HIDE DEF f, c
<1>4. IsFiniteSet(N) /\ Cardinality(N) = c + 1
  BY <1>1, FS_Interval
<1>5. Cardinality(N) <= c
  <2> HIDE DEF N
  <2>1. QED
    BY <1>3, <1>4, FS_Injection DEF c
<1>6. QED
  BY <1>1, <1>4, <1>5

LEMMA CachedTyped ==
  ASSUME HotTypeOK, NEW w \in Passes
  PROVE  CachedBids(pass[w]) \subseteq HotBid
<1>1. "BUY" \in Sides /\ "SELL" \in Sides
  BY DEF Sides
<1>2. QED
  <2>1. pass[w].queue["BUY"] \in Queue("BUY") /\ pass[w].queue["SELL"] \in Queue("SELL")
    BY <1>1, PassTyped
  <2>2. ASSUME NEW type \in Sides, NEW q \in Queue(type)
        PROVE  q.cached \subseteq HotBid
    BY DEF Queue
  <2>3. QED
    BY <1>1, <2>1, <2>2 DEF CachedBids

\* What is persisted is one new entity for each cached bid.
LEMMA PersistedNew ==
  ASSUME HotTypeOK, HotFinite, NEW w \in Passes
  PROVE  /\ Persisted(pass[w]) \subseteq Entity /\ IsFiniteSet(Persisted(pass[w]))
         /\ Persisted(pass[w]) \cap zone = {}
         /\ \A e, f \in Persisted(pass[w]) : e.bid = f.bid => e = f
         /\ \A e \in Persisted(pass[w]) : e.bid \in CachedBids(pass[w])
         /\ \A h \in CachedBids(pass[w]) : \E e \in Persisted(pass[w]) : e.bid = h
<1> DEFINE C == CachedBids(pass[w])
           copy(h) == CHOOSE n \in 0 .. Cardinality(zone) : [bid |-> h, copy |-> n] \notin zone
           entity(h) == [bid |-> h, copy |-> copy(h)]
<1>1. \A h \in C : copy(h) \in Nat /\ entity(h) \notin zone
  BY FreshCopy DEF HotFinite
<1>2. C \subseteq HotBid
  BY CachedTyped
<1>3. IsFiniteSet(C)
  <2>1. "BUY" \in Sides /\ "SELL" \in Sides
    BY DEF Sides
  <2>2. QED
    BY <2>1, FS_Union DEF CachedBids, HotFinite
<1>4. Persisted(pass[w]) = {entity(h) : h \in C}
  BY DEF Persisted
<1> HIDE DEF C, copy
<1>5. \A h \in C : entity(h) \in Entity /\ entity(h).bid = h
  BY <1>1, <1>2 DEF Entity
<1> HIDE DEF entity
<1>6. IsFiniteSet({entity(h) : h \in C})
  <2> DEFINE f == [h \in C |-> entity(h)]
  <2>1. DOMAIN f = C /\ {entity(h) : h \in C} = {f[x] : x \in C}
    OBVIOUS
  <2> HIDE DEF f
  <2>2. QED
    BY <1>3, <2>1, ImageFinite
<1>7. QED
  BY <1>1, <1>4, <1>5, <1>6 DEF C

CommitEffect(w) ==
  /\ pass[w].pc = "matching" /\ pass[w].todo = <<>>
  /\ Becomes(w, Ended(pass[w]))
  /\ zone' = Remaining(pass[w]) \cup Persisted(pass[w])
  /\ applyTasks' =
       IF pass[w].matched = <<>> /\ CachedBids(pass[w]) = {} THEN applyTasks
       ELSE applyTasks \cup {[stamp |-> pass[w].stamp, matched |-> pass[w].matched,
                              placed |-> CachedBids(pass[w])]}
  /\ UNCHANGED <<now, arrived, hotTasks, fails, overruns>>

FailEffect(w) ==
  /\ fails + overruns < MaxMishaps
  /\ pass[w].pc \in {"leased", "matching"}
  /\ Becomes(w, Ended(pass[w]))
  /\ fails' = fails + 1
  /\ UNCHANGED <<now, arrived, hotTasks, zone, applyTasks, overruns>>

DeleteEffect(w) ==
  /\ pass[w].pc = "ended"
  /\ Becomes(w, Idle)
  /\ hotTasks' = {task \in hotTasks : task.bid \notin pass[w].tasks}
  /\ UNCHANGED <<now, arrived, zone, applyTasks, fails, overruns>>

CrashEffect(w) ==
  /\ fails + overruns < MaxMishaps
  /\ pass[w].pc # "idle"
  /\ Becomes(w, Idle)
  /\ overruns' = overruns + 1
  /\ UNCHANGED <<now, arrived, hotTasks, zone, applyTasks, fails>>

\* The steps of a pass, by their effects.
PassEffect(w) ==
  \/ \E tasks \in SUBSET hotTasks : LeaseEffect(w, tasks)
  \/ BeginEffect(w)
  \/ \E tip \in HotBid : SkipEffect(w, tip)
  \/ \E tip \in HotBid : MatchEffect(w, tip) /\ IsMatch(tip, Incoming(w))
  \/ InsertEffect(w)
  \/ CommitEffect(w)
  \/ FailEffect(w)
  \/ DeleteEffect(w)
  \/ CrashEffect(w)

LEMMA PassStepIsEffect ==
  ASSUME HotTypeOK, HotFinite, NEW w \in Passes, PassStep(w)
  PROVE  PassEffect(w)
<1>1. CASE Lease(w)
  BY <1>1, LeaseIsEffect DEF PassEffect
<1>2. CASE Begin(w)
  BY <1>2, BeginIsEffect DEF PassEffect
<1>3. CASE SkipExpired(w)
  BY <1>3, SkipIsEffect DEF PassEffect
<1>4. CASE Match(w)
  BY <1>4, MatchIsEffect DEF PassEffect
<1>5. CASE Insert(w)
  BY <1>5, InsertIsEffect DEF PassEffect
<1>6. CASE Commit(w)
  <2>1. CommitEffect(w)
    BY <1>6, EndIsEffect DEF Commit, CommitEffect
  <2>2. QED
    BY <2>1 DEF PassEffect
<1>7. CASE Fail(w)
  <2>1. Becomes(w, Ended(pass[w]))
    BY <1>7, EndIsEffect DEF Fail, HotTypeOK
  <2>2. FailEffect(w)
    BY <1>7, <2>1 DEF Fail, FailEffect
  <2>3. QED
    BY <2>2 DEF PassEffect
<1>8. CASE DeleteTasks(w)
  <2>1. DeleteEffect(w)
    BY <1>8, IdleIsEffect DEF DeleteTasks, DeleteEffect
  <2>2. QED
    BY <2>1 DEF PassEffect
<1>9. CASE Crash(w)
  <2>1. CrashEffect(w)
    BY <1>9, IdleIsEffect DEF Crash, CrashEffect
  <2>2. QED
    BY <2>1 DEF PassEffect
<1>10. QED
  BY <1>1, <1>2, <1>3, <1>4, <1>5, <1>6, <1>7, <1>8, <1>9 DEF PassStep

LEMMA StepIsEffect ==
  ASSUME HotTypeOK, HotFinite, [HotNext]_hotVars
  PROVE  \/ UNCHANGED hotVars
         \/ \E h \in HotBid : Arrive(h)
         \/ \E w \in Passes : PassEffect(w)
         \/ Tick
<1>1. ASSUME NEW k \in Keys, NEW type \in Sides, NEW price \in HotPrices,
             NEW expires \in 0 .. HotMaxTime + BidLife
      PROVE  [key |-> k, type |-> type, price |-> price, expires |-> expires] \in HotBid
  BY HotAssumption DEF HotBid
<1>2. QED
  BY <1>1, PassStepIsEffect DEF HotNext

-----------------------------------------------------------------------------
(***************************************************************************)
(* HotZone: types.                                                         *)
(***************************************************************************)
\* The other passes have the queues they had.
LEMMA OthersFinite ==
  ASSUME HotFinite, NEW w \in Passes, \A v \in Passes \ {w} : pass'[v] = pass[v],
         \A type \in Sides : IsFiniteSet(pass'[w].queue[type].cached)
  PROVE  \A v \in Passes, type \in Sides : IsFiniteSet(pass'[v].queue[type].cached)
  BY DEF HotFinite

LEMMA PoppedTyped ==
  ASSUME HotTypeOK, HotFinite, NEW w \in Passes, InRound(w), Matching(w),
         NEW tip \in Tips(OtherQueue(w)),
         QueueBecomes(w, Facing(w), Popped(OtherQueue(w), tip))
  PROVE  HotTypeOK' /\ HotFinite'
<1>1. HotTypeOK'
  BY DEF HotTypeOK, InRound
<1>2. /\ Facing(w) \in Sides /\ OtherQueue(w) \in Queue(Facing(w))
      /\ OtherQueue(w) = pass[w].queue[Facing(w)]
  BY IncomingTyped DEF Facing, OtherQueue
<1>3. IsFiniteSet(Popped(OtherQueue(w), tip).cached)
  BY <1>2, PoppedQueue DEF HotFinite
<1>4. \A type \in Sides : IsFiniteSet(pass'[w].queue[type].cached)
  BY <1>2, <1>3 DEF QueueBecomes, HotFinite
<1>5. QED
  BY <1>1, <1>4, OthersFinite DEF HotFinite, InRound

LEMMA InsertedTyped ==
  ASSUME HotTypeOK, HotFinite, NEW w \in Passes, InsertEffect(w)
  PROVE  HotTypeOK' /\ HotFinite'
<1>1. HotTypeOK'
  BY DEF HotTypeOK, InRound, InsertEffect
<1> DEFINE type == Incoming(w).type
           q == pass[w].queue[type]
<1>2. Matching(w)
  BY DEF InsertEffect, InRound, Matching
<1>3. type \in Sides /\ q \in Queue(type)
  BY <1>2, IncomingTyped, PassTyped
<1>4. [q EXCEPT !.cached = @ \cup {Incoming(w)}].cached = q.cached \cup {Incoming(w)}
  <2> HIDE DEF q, type
  <2>1. QED
    BY <1>3 DEF Queue
<1>5. IsFiniteSet(q.cached \cup {Incoming(w)})
  BY <1>3, FS_AddElement DEF HotFinite
<1>6. \A side \in Sides : IsFiniteSet(pass'[w].queue[side].cached)
  BY <1>4, <1>5 DEF QueueBecomes, HotFinite, InsertEffect
<1>7. QED
  BY <1>1, <1>6, OthersFinite DEF HotFinite, InRound, InsertEffect

LEMMA RemainingTyped ==
  ASSUME HotTypeOK, NEW w \in Passes
  PROVE  /\ IsFiniteSet(Remaining(pass[w])) /\ Remaining(pass[w]) \subseteq Entity
         /\ \A e \in Remaining(pass[w]) : \E type \in Sides :
              e \in Range(pass[w].queue[type].stored) /\ e.bid \in Candidates(pass[w].queue[type])
<1>1. "BUY" \in Sides /\ "SELL" \in Sides
  BY DEF Sides
<1>2. ASSUME NEW type \in Sides
      PROVE  /\ Range(pass[w].queue[type].stored) \subseteq Entity
             /\ IsFiniteSet(Range(pass[w].queue[type].stored))
  <2>1. pass[w].queue[type] \in Queue(type)
    BY PassTyped
  <2>2. pass[w].queue[type].stored \in Seq({e \in Entity : e.bid.type = type})
    BY <2>1, CandidatesTyped
  <2>3. QED
    BY <2>2, RangeFinite, RangeIn
<1>3. IsFiniteSet(Range(pass[w].queue["BUY"].stored) \cup Range(pass[w].queue["SELL"].stored))
  BY <1>1, <1>2, FS_Union
<1>4. IsFiniteSet(Remaining(pass[w]))
  BY <1>3, FS_Subset DEF Remaining
<1>5. QED
  BY <1>1, <1>2, <1>4 DEF Remaining, Candidates

LEMMA CommitTyped ==
  ASSUME HotTypeOK, HotFinite, NEW w \in Passes, CommitEffect(w)
  PROVE  HotTypeOK' /\ HotFinite'
<1>1. zone' \subseteq Entity /\ IsFiniteSet(zone')
  BY RemainingTyped, PersistedNew, FS_Union DEF CommitEffect
<1>2. [stamp |-> pass[w].stamp, matched |-> pass[w].matched, placed |-> CachedBids(pass[w])]
        \in ApplyTask
  BY PassTyped, CachedTyped DEF ApplyTask
<1>3. applyTasks' \subseteq ApplyTask
  BY <1>2 DEF CommitEffect, HotTypeOK
<1>4. HotTypeOK'
  BY <1>1, <1>3 DEF CommitEffect, HotTypeOK, Becomes
<1>5. \A type \in Sides : IsFiniteSet(pass'[w].queue[type].cached)
  BY PassTyped, EndedTyped, FS_EmptySet DEF CommitEffect, Becomes
<1>6. QED
  BY <1>1, <1>4, <1>5, OthersFinite DEF CommitEffect, HotFinite, Becomes

LEMMA LeaseTyped ==
  ASSUME HotTypeOK, HotFinite, NEW w \in Passes, NEW tasks \in SUBSET hotTasks,
         LeaseEffect(w, tasks)
  PROVE  HotTypeOK' /\ HotFinite'
<1> DEFINE f == [task \in tasks |-> [task EXCEPT !.free = now + LeaseTime]]
           L == {[task EXCEPT !.free = now + LeaseTime] : task \in tasks}
<1>1. now + LeaseTime \in Nat
  BY HotAssumption DEF HotTypeOK
<1>2. L \subseteq [bid : HotBid, free : Nat]
  BY <1>1 DEF HotTypeOK
<1>3. hotTasks' \subseteq [bid : HotBid, free : Nat]
  BY <1>2 DEF LeaseEffect, HotTypeOK
<1>4. IsFiniteSet(hotTasks')
  <2>1. IsFiniteSet(tasks) /\ IsFiniteSet(hotTasks \ tasks)
    BY FS_Subset DEF HotFinite
  <2>2. DOMAIN f = tasks /\ L = {f[x] : x \in tasks}
    OBVIOUS
  <2>3. hotTasks' = (hotTasks \ tasks) \cup L
    BY DEF LeaseEffect
  <2> HIDE DEF f, L
  <2>4. IsFiniteSet(L)
    BY <2>1, <2>2, ImageFinite
  <2>5. QED
    BY <2>1, <2>3, <2>4, FS_Union
<1>5. HotTypeOK'
  BY <1>3 DEF LeaseEffect, HotTypeOK, Becomes
<1>6. \A type \in Sides : IsFiniteSet(pass'[w].queue[type].cached)
  BY FS_EmptySet DEF LeaseEffect
<1>7. QED
  BY <1>4, <1>5, <1>6, OthersFinite DEF LeaseEffect, HotFinite, Becomes

LEMMA HotInitTyped == HotInit => HotTypeOK /\ HotFinite
<1> SUFFICES ASSUME HotInit PROVE HotTypeOK /\ HotFinite
  OBVIOUS
<1>1. HotTypeOK
  BY HotAssumption, IdleTyped DEF HotInit, HotTypeOK
<1>2. \A w \in Passes, type \in Sides : pass[w].queue[type].cached = {}
  BY IdleTyped DEF HotInit
<1>3. QED
  BY <1>1, <1>2, FS_EmptySet DEF HotInit, HotFinite

LEMMA HotStepTyped ==
  ASSUME HotTypeOK, HotFinite, [HotNext]_hotVars
  PROVE  HotTypeOK' /\ HotFinite'
<1>1. CASE UNCHANGED hotVars
  BY <1>1 DEF hotVars, HotTypeOK, HotFinite
<1>2. ASSUME NEW h \in HotBid, Arrive(h)
      PROVE  HotTypeOK' /\ HotFinite'
  <2>1. IsFiniteSet(hotTasks')
    BY <1>2, FS_AddElement DEF Arrive, AddHotTask, HotFinite
  <2>2. QED
    BY <1>2, <2>1 DEF Arrive, AddHotTask, HotTypeOK, HotFinite
<1>3. ASSUME NEW w \in Passes, PassEffect(w)
      PROVE  HotTypeOK' /\ HotFinite'
  <2>1. ASSUME NEW tasks \in SUBSET hotTasks, LeaseEffect(w, tasks)
        PROVE  HotTypeOK' /\ HotFinite'
    BY <2>1, LeaseTyped
  <2>2. CASE BeginEffect(w)
    <3>1. \A type \in Sides : IsFiniteSet(pass'[w].queue[type].cached)
      BY <2>2, FS_EmptySet DEF BeginEffect
    <3>2. QED
      BY <2>2, <3>1, OthersFinite DEF BeginEffect, HotTypeOK, HotFinite, Becomes
  <2>3. ASSUME NEW tip \in HotBid, SkipEffect(w, tip)
        PROVE  HotTypeOK' /\ HotFinite'
    BY <2>3, PoppedTyped DEF SkipEffect, InRound, Matching
  <2>4. ASSUME NEW tip \in HotBid, MatchEffect(w, tip)
        PROVE  HotTypeOK' /\ HotFinite'
    BY <2>4, PoppedTyped DEF MatchEffect, InRound, Matching
  <2>5. CASE InsertEffect(w)
    BY <2>5, InsertedTyped
  <2>6. CASE CommitEffect(w)
    BY <2>6, CommitTyped
  <2>7. CASE FailEffect(w)
    <3>1. \A type \in Sides : IsFiniteSet(pass'[w].queue[type].cached)
      BY <2>7, PassTyped, EndedTyped, FS_EmptySet DEF FailEffect, Becomes
    <3>2. HotTypeOK'
      BY <2>7, HotAssumption DEF FailEffect, HotTypeOK, Becomes
    <3>3. QED
      BY <2>7, <3>1, <3>2, OthersFinite DEF FailEffect, HotFinite, Becomes
  <2>8. CASE DeleteEffect(w)
    <3>1. \A type \in Sides : IsFiniteSet(pass'[w].queue[type].cached)
      BY <2>8, IdleTyped, FS_EmptySet DEF DeleteEffect, Becomes
    <3>2. hotTasks' \subseteq hotTasks /\ IsFiniteSet(hotTasks')
      BY <2>8, FS_Subset DEF DeleteEffect, HotFinite
    <3>3. QED
      BY <2>8, <3>1, <3>2, OthersFinite DEF DeleteEffect, HotTypeOK, HotFinite, Becomes
  <2>9. CASE CrashEffect(w)
    <3>1. \A type \in Sides : IsFiniteSet(pass'[w].queue[type].cached)
      BY <2>9, IdleTyped, FS_EmptySet DEF CrashEffect, Becomes
    <3>2. HotTypeOK'
      BY <2>9, HotAssumption DEF CrashEffect, HotTypeOK, Becomes
    <3>3. QED
      BY <2>9, <3>1, <3>2, OthersFinite DEF CrashEffect, HotFinite, Becomes
  <2>10. QED
    BY <1>3, <2>1, <2>2, <2>3, <2>4, <2>5, <2>6, <2>7, <2>8, <2>9 DEF PassEffect
<1>4. CASE Tick
  <2>1. overruns' \in 0 .. MaxMishaps /\ now' \in Nat
    BY <1>4, HotAssumption DEF Tick, HotTypeOK
  <2>2. UNCHANGED <<arrived, hotTasks, zone, pass, applyTasks, fails>>
    BY <1>4 DEF Tick
  <2>3. QED
    BY <2>1, <2>2 DEF HotTypeOK, HotFinite
<1>5. QED
  BY <1>1, <1>2, <1>3, <1>4, StepIsEffect

\* The clock, the bids, the tasks, the hot zone and the passes have their types.
THEOREM HotTypeCorrect == HotSpec => []HotTypeOK
<1>1. HotTypeOK /\ HotFinite /\ [HotNext]_hotVars => HotTypeOK' /\ HotFinite'
  BY HotStepTyped
<1>2. QED
  BY <1>1, HotInitTyped, PTL DEF HotSpec

-----------------------------------------------------------------------------
(***************************************************************************)
(* HotZone: no two live bids that should have met.                         *)
(***************************************************************************)
\* The bids of two sets are apart at a time: no live buy is above a live sell.
Apart(buys, sells, t) ==
  \A b \in buys, s \in sells : Live(b, t) /\ Live(s, t) => b.price <= s.price

\* The queues of a running transaction are, as of its stamp, and their stored
\* bids come in the order of the query.
QueuesApart(p) ==
  /\ p.stamp <= now
  /\ Apart(Candidates(p.queue["BUY"]), Candidates(p.queue["SELL"]), p.stamp)
  /\ \A type \in Sides : Sorted(type, p.queue[type].stored)

HotApart ==
  /\ NotCrossed
  /\ \A w \in Passes : pass[w].pc = "matching" => QueuesApart(pass[w])

\* Queues with fewer candidates remain apart.
LEMMA PoppedApart ==
  ASSUME HotTypeOK, HotApart, NEW w \in Passes, InRound(w), Matching(w),
         NEW tip \in Tips(OtherQueue(w)),
         QueueBecomes(w, Facing(w), Popped(OtherQueue(w), tip))
  PROVE  QueuesApart(pass[w])'
<1>1. /\ Facing(w) \in Sides /\ OtherQueue(w) \in Queue(Facing(w))
      /\ OtherQueue(w) = pass[w].queue[Facing(w)]
  BY IncomingTyped DEF Facing, OtherQueue
<1>2. QueuesApart(pass[w])
  BY DEF HotApart, InRound
<1>3. \A type \in Sides : /\ Candidates(pass'[w].queue[type]) \subseteq Candidates(pass[w].queue[type])
                          /\ Sorted(type, pass'[w].queue[type].stored)
  BY <1>1, <1>2, PoppedQueue DEF QueueBecomes, QueuesApart
<1>4. "BUY" \in Sides /\ "SELL" \in Sides
  BY DEF Sides
<1>5. Apart(Candidates(pass'[w].queue["BUY"]), Candidates(pass'[w].queue["SELL"]), pass[w].stamp)
  BY <1>2, <1>3, <1>4 DEF QueuesApart, Apart
<1>6. pass'[w].stamp = pass[w].stamp /\ now' = now
  BY DEF InRound
<1>7. QED
  BY <1>2, <1>3, <1>5, <1>6 DEF QueuesApart

\* A bid that matches no tip is apart from all candidates of the other queue.
LEMMA UnmatchedApart ==
  ASSUME HotTypeOK, HotFinite, HotApart, NEW w \in Passes, InsertEffect(w),
         NEW h \in Candidates(OtherQueue(w))
  PROVE  /\ Incoming(w).type = "BUY" => Incoming(w).price <= h.price
         /\ Incoming(w).type = "SELL" => h.price <= Incoming(w).price
<1>1. Matching(w) /\ pass[w].pc = "matching"
  BY DEF InsertEffect, InRound, Matching
<1> DEFINE type == Facing(w)
           q == OtherQueue(w)
           i == Incoming(w)
<1>2. /\ type \in Sides /\ q \in Queue(type) /\ q = pass[w].queue[type]
      /\ i \in HotBid /\ i.type \in Sides
  BY <1>1, IncomingTyped DEF Facing, OtherQueue
<1>3. IsFiniteSet(q.cached) /\ Sorted(type, q.stored)
  BY <1>1, <1>2 DEF HotFinite, HotApart, QueuesApart
<1>4. PICK tip \in Tips(q) : TRUE
  BY <1>2, <1>3, TipExists
<1>5. tip \in HotBid /\ tip.type = type /\ h \in HotBid /\ h.type = type
  BY <1>2, <1>4, TipIsBest, CandidatesTyped
<1>6. NoBetter(type, h, tip)
  BY <1>2, <1>3, <1>4, TipIsBest
<1>7. ~HotterThan(tip, i)
  BY <1>4 DEF InsertEffect, IsMatch
<1>8. type = Other(i.type)
  BY DEF Facing
<1> HIDE DEF type, q, i
<1>9. CASE i.type = "BUY"
  <2>1. tip.type = "SELL" /\ type = "SELL"
    BY <1>5, <1>8, <1>9 DEF Other
  <2>2. h.price >= tip.price
    BY <1>6, <2>1 DEF NoBetter
  <2>3. i.price <= tip.price
    BY <1>2, <1>5, <1>7, <2>1 DEF HotterThan, HotBid
  <2>4. i.price <= h.price
    BY <1>2, <1>5, <2>2, <2>3 DEF HotBid
  <2>5. QED
    BY <1>9, <2>4 DEF i
<1>10. CASE i.type = "SELL"
  <2>1. tip.type = "BUY" /\ type = "BUY"
    BY <1>5, <1>8, <1>10 DEF Other
  <2>2. h.price <= tip.price
    BY <1>6, <2>1 DEF NoBetter
  <2>3. i.price >= tip.price
    BY <1>2, <1>5, <1>7, <2>1 DEF HotterThan, HotBid
  <2>4. i.price >= h.price
    BY <1>2, <1>5, <2>2, <2>3 DEF HotBid
  <2>5. QED
    BY <1>2, <1>5, <1>10, <2>4 DEF i, HotBid
<1>11. QED
  BY <1>2, <1>9, <1>10 DEF Sides, i

LEMMA InsertedApart ==
  ASSUME HotTypeOK, HotFinite, HotApart, NEW w \in Passes, InsertEffect(w)
  PROVE  QueuesApart(pass[w])'
<1> DEFINE i == Incoming(w)
           q == pass[w].queue[i.type]
           r == [q EXCEPT !.cached = @ \cup {i}]
<1>1. InRound(w) /\ Matching(w) /\ QueuesApart(pass[w])
  BY DEF InsertEffect, InRound, Matching, HotApart
<1>2. /\ i.type \in Sides /\ q \in Queue(i.type) /\ i \in HotBid
      /\ OtherQueue(w) = pass[w].queue[Other(i.type)]
  BY <1>1, IncomingTyped, PassTyped DEF OtherQueue
<1>3. pass'[w].queue[i.type] = r
      /\ \A other \in Sides : other # i.type => pass'[w].queue[other] = pass[w].queue[other]
  BY DEF InsertEffect, QueueBecomes
<1>4. r.stored = q.stored /\ r.cached = q.cached \cup {i}
  <2> HIDE DEF i
  <2>1. PICK p \in Queue(i.type) : p = q
    BY <1>2
  <2>2. [p EXCEPT !.cached = @ \cup {i}].stored = p.stored
        /\ [p EXCEPT !.cached = @ \cup {i}].cached = p.cached \cup {i}
    BY DEF Queue
  <2>3. QED
    BY <2>1, <2>2
<1>5. Candidates(r) = Candidates(q) \cup {i}
  BY <1>4 DEF Candidates
<1> HIDE DEF r
<1>6. \A type \in Sides : Sorted(type, pass'[w].queue[type].stored)
  BY <1>1, <1>3, <1>4 DEF QueuesApart
<1>7. Apart(Candidates(pass'[w].queue["BUY"]), Candidates(pass'[w].queue["SELL"]), pass[w].stamp)
  <2> DEFINE B == Candidates(pass[w].queue["BUY"])
             S == Candidates(pass[w].queue["SELL"])
  <2>1. Apart(B, S, pass[w].stamp)
    BY <1>1 DEF QueuesApart
  <2>2. CASE i.type = "BUY"
    <3>1. \A h \in S : i.price <= h.price
      BY <1>2, <2>2, UnmatchedApart DEF Other
    <3>2. /\ Candidates(pass'[w].queue["BUY"]) = B \cup {i}
          /\ Candidates(pass'[w].queue["SELL"]) = S
      BY <1>3, <1>5, <2>2 DEF Sides
    <3> HIDE DEF B, S, i
    <3>3. QED
      BY <2>1, <3>1, <3>2 DEF Apart
  <2>3. CASE i.type = "SELL"
    <3>1. \A h \in B : h.price <= i.price
      BY <1>2, <2>3, UnmatchedApart DEF Other
    <3>2. /\ Candidates(pass'[w].queue["BUY"]) = B
          /\ Candidates(pass'[w].queue["SELL"]) = S \cup {i}
      BY <1>3, <1>5, <2>3 DEF Sides
    <3> HIDE DEF B, S, i
    <3>3. QED
      BY <2>1, <3>1, <3>2 DEF Apart
  <2>4. QED
    BY <1>2, <2>2, <2>3 DEF Sides
<1>8. pass'[w].stamp = pass[w].stamp /\ now' = now
  BY <1>1 DEF InRound
<1>9. QED
  BY <1>1, <1>6, <1>7, <1>8 DEF QueuesApart

LEMMA BegunApart ==
  ASSUME HotTypeOK, HotApart, NEW w \in Passes, BeginEffect(w)
  PROVE  QueuesApart(pass[w])'
<1>1. "BUY" \in Sides /\ "SELL" \in Sides
  BY DEF Sides
<1>2. ASSUME NEW type \in Sides
      PROVE  Candidates(pass'[w].queue[type]) = {e.bid : e \in {d \in zone : d.bid.type = type}}
  BY DEF BeginEffect, Candidates
<1>3. Apart(Candidates(pass'[w].queue["BUY"]), Candidates(pass'[w].queue["SELL"]), now)
  BY <1>1, <1>2 DEF Apart, HotApart, NotCrossed
<1>4. pass'[w].stamp = now /\ now' = now /\ now <= now
  BY DEF BeginEffect, HotTypeOK
<1>5. \A type \in Sides : Sorted(type, pass'[w].queue[type].stored)
  BY DEF BeginEffect
<1>6. QED
  BY <1>3, <1>4, <1>5 DEF QueuesApart

\* What a transaction leaves is apart at every time since its stamp.
LEMMA CommittedApart ==
  ASSUME HotTypeOK, HotFinite, HotApart, NEW w \in Passes, CommitEffect(w)
  PROVE  NotCrossed'
<1>1. QueuesApart(pass[w])
  BY DEF HotApart, CommitEffect
<1>2. zone' = Remaining(pass[w]) \cup Persisted(pass[w]) /\ now' = now
  BY DEF CommitEffect
<1>3. ASSUME NEW type \in Sides, NEW h \in Candidates(pass[w].queue[type])
      PROVE  h \in HotBid /\ h.type = type
  BY <1>3, PassTyped, CandidatesTyped
<1>4. ASSUME NEW e \in zone'
      PROVE  e.bid \in HotBid /\ e.bid \in Candidates(pass[w].queue[e.bid.type])
  <2>1. CASE e \in Remaining(pass[w])
    BY <2>1, <1>3, RemainingTyped
  <2>2. CASE e \in Persisted(pass[w])
    <3>1. e.bid \in CachedBids(pass[w])
      BY <2>2, PersistedNew
    <3>2. \E type \in Sides : e.bid \in pass[w].queue[type].cached
      BY <3>1 DEF CachedBids, Sides
    <3>3. QED
      BY <1>3, <3>2 DEF Candidates
  <2>3. QED
    BY <1>2, <1>4, <2>1, <2>2
<1>5. ASSUME NEW b \in zone', NEW s \in zone', b.bid.type = "BUY", s.bid.type = "SELL",
             Live(b.bid, now), Live(s.bid, now)
      PROVE  b.bid.price <= s.bid.price
  <2>1. /\ b.bid \in Candidates(pass[w].queue["BUY"]) /\ b.bid \in HotBid
        /\ s.bid \in Candidates(pass[w].queue["SELL"]) /\ s.bid \in HotBid
    BY <1>4, <1>5
  <2>2. pass[w].stamp \in Nat /\ now \in Nat /\ pass[w].stamp <= now
    BY <1>1, PassTyped DEF HotTypeOK, QueuesApart
  <2>3. Live(b.bid, pass[w].stamp) /\ Live(s.bid, pass[w].stamp)
    BY <1>5, <2>1, <2>2 DEF Live, HotBid
  <2>4. QED
    BY <1>1, <2>1, <2>3 DEF QueuesApart, Apart
<1>6. QED
  BY <1>2, <1>5 DEF NotCrossed

\* Another pass than the one that steps.
LEMMA OthersApart ==
  ASSUME HotApart, NEW w \in Passes, \A v \in Passes \ {w} : pass'[v] = pass[v], now' = now,
         pass'[w].pc = "matching" => QueuesApart(pass[w])'
  PROVE  \A v \in Passes : pass'[v].pc = "matching" => QueuesApart(pass[v])'
<1> SUFFICES ASSUME NEW v \in Passes, v # w, pass'[v].pc = "matching"
             PROVE  QueuesApart(pass[v])'
  OBVIOUS
<1>1. pass'[v] = pass[v]
  OBVIOUS
<1>2. QueuesApart(pass[v])
  BY <1>1 DEF HotApart
<1>3. QED
  BY <1>1, <1>2 DEF QueuesApart

LEMMA HotInitApart == HotInit => HotApart
  BY IdleTyped DEF HotInit, HotApart, NotCrossed

LEMMA HotStepApart ==
  ASSUME HotTypeOK, HotFinite, HotApart, [HotNext]_hotVars
  PROVE  HotApart'
<1>1. CASE UNCHANGED hotVars
  BY <1>1 DEF hotVars, HotApart, NotCrossed, QueuesApart
<1>2. ASSUME NEW h \in HotBid, Arrive(h)
      PROVE  HotApart'
  BY <1>2 DEF Arrive, HotApart, NotCrossed, QueuesApart
<1>3. ASSUME NEW w \in Passes, PassEffect(w)
      PROVE  HotApart'
  <2>0. ASSUME UNCHANGED <<now, zone>>
        PROVE  NotCrossed'
    BY <2>0 DEF NotCrossed, HotApart
  <2>1. ASSUME NEW tasks \in SUBSET hotTasks, LeaseEffect(w, tasks)
        PROVE  HotApart'
    BY <2>0, <2>1, OthersApart DEF HotApart, LeaseEffect, Becomes
  <2>2. CASE BeginEffect(w)
    BY <2>0, <2>2, BegunApart, OthersApart DEF HotApart, BeginEffect, Becomes
  <2>3. ASSUME NEW tip \in HotBid, SkipEffect(w, tip)
        PROVE  HotApart'
    <3>1. QueuesApart(pass[w])'
      BY <2>3, PoppedApart DEF SkipEffect, InRound, Matching
    <3>2. QED
      BY <2>0, <2>3, <3>1, OthersApart DEF HotApart, SkipEffect, InRound
  <2>4. ASSUME NEW tip \in HotBid, MatchEffect(w, tip)
        PROVE  HotApart'
    <3>1. QueuesApart(pass[w])'
      BY <2>4, PoppedApart DEF MatchEffect, InRound, Matching
    <3>2. QED
      BY <2>0, <2>4, <3>1, OthersApart DEF HotApart, MatchEffect, InRound
  <2>5. CASE InsertEffect(w)
    BY <2>0, <2>5, InsertedApart, OthersApart DEF HotApart, InsertEffect, InRound
  <2>6. CASE CommitEffect(w)
    <3>1. pass'[w].pc = "ended"
      BY <2>6, PassTyped, EndedTyped DEF CommitEffect, Becomes
    <3>2. QED
      BY <2>6, <3>1, CommittedApart, OthersApart DEF HotApart, CommitEffect, Becomes
  <2>7. CASE FailEffect(w)
    <3>1. pass'[w].pc = "ended"
      BY <2>7, PassTyped, EndedTyped DEF FailEffect, Becomes
    <3>2. QED
      BY <2>0, <2>7, <3>1, OthersApart DEF HotApart, FailEffect, Becomes
  <2>8. CASE DeleteEffect(w)
    BY <2>0, <2>8, IdleTyped, OthersApart DEF HotApart, DeleteEffect, Becomes
  <2>9. CASE CrashEffect(w)
    BY <2>0, <2>9, IdleTyped, OthersApart DEF HotApart, CrashEffect, Becomes
  <2>10. QED
    BY <1>3, <2>1, <2>2, <2>3, <2>4, <2>5, <2>6, <2>7, <2>8, <2>9 DEF PassEffect
<1>4. CASE Tick
  <2>1. now' = now + 1 /\ UNCHANGED <<zone, pass>>
    BY <1>4 DEF Tick
  <2>2. NotCrossed'
    <3>1. \A e \in zone : e.bid \in HotBid
      BY DEF HotTypeOK, Entity
    <3>2. \A h \in HotBid : Live(h, now + 1) => Live(h, now)
      BY DEF Live, HotBid, HotTypeOK
    <3>3. QED
      BY <2>1, <3>1, <3>2 DEF NotCrossed, HotApart
  <2>3. ASSUME NEW w \in Passes, pass[w].pc = "matching"
        PROVE  QueuesApart(pass[w])'
    <3>1. QueuesApart(pass[w]) /\ pass[w].stamp <= now + 1
      BY <2>3, PassTyped DEF HotApart, QueuesApart, HotTypeOK
    <3>2. QED
      BY <2>1, <3>1 DEF QueuesApart
  <2>4. QED
    BY <2>1, <2>2, <2>3 DEF HotApart
<1>5. QED
  BY <1>1, <1>2, <1>3, <1>4, StepIsEffect

\* The hot zone never holds a live buy that offers more than a live sell asks.
THEOREM HotZoneNeverCrossed == HotSpec => []NotCrossed
<1>1. HotTypeOK /\ HotFinite /\ HotApart /\ [HotNext]_hotVars
        => HotTypeOK' /\ HotFinite' /\ HotApart'
  BY HotStepTyped, HotStepApart
<1>2. HotApart => NotCrossed
  BY DEF HotApart
<1>3. QED
  BY <1>1, <1>2, HotInitTyped, HotInitApart, PTL DEF HotSpec

-----------------------------------------------------------------------------
(***************************************************************************)
(* HotZone: a new pair holds the best price.                               *)
(***************************************************************************)
\* What PricePriority says of a step.
TakesBest ==
  \A w \in Passes : pass[w].pc = "matching" /\ NewPair(w) =>
     \A h \in Passed(w) :
       IF h.type = "SELL" THEN h.price >= Taken(w).price ELSE h.price <= Taken(w).price

\* No step but a match adds a pair.
LEMMA OnlyMatchPairs ==
  ASSUME HotTypeOK, HotFinite, [HotNext]_hotVars,
         NEW w \in Passes, pass[w].pc = "matching", NewPair(w)
  PROVE  \E tip \in HotBid : MatchEffect(w, tip)
<1>1. pass'[w] # pass[w] /\ pass'[w].pc = "matching" /\ pass'[w].matched # pass[w].matched
  BY DEF NewPair
<1>2. PICK v \in Passes : PassEffect(v)
  <2>1. ~UNCHANGED hotVars
    BY <1>1 DEF hotVars
  <2>2. ~Tick
    BY <1>1 DEF Tick
  <2>3. \A h \in HotBid : ~Arrive(h)
    BY <1>1 DEF Arrive
  <2>4. QED
    BY <2>1, <2>2, <2>3, StepIsEffect
<1>3. v = w
  BY <1>1, <1>2 DEF PassEffect, LeaseEffect, BeginEffect, SkipEffect, MatchEffect, InsertEffect,
     CommitEffect, FailEffect, DeleteEffect, CrashEffect, Becomes, InRound
<1>4. \A tasks \in SUBSET hotTasks : ~LeaseEffect(w, tasks)
  BY DEF LeaseEffect
<1>5. ~BeginEffect(w)
  BY DEF BeginEffect
<1>6. \A tip \in HotBid : ~SkipEffect(w, tip)
  BY <1>1 DEF SkipEffect
<1>7. ~InsertEffect(w)
  BY <1>1 DEF InsertEffect
<1>8. ~CommitEffect(w) /\ ~FailEffect(w)
  BY <1>1, PassTyped, EndedTyped DEF CommitEffect, FailEffect, Becomes
<1>9. ~DeleteEffect(w) /\ ~CrashEffect(w)
  BY <1>1, IdleTyped DEF DeleteEffect, CrashEffect, Becomes
<1>10. QED
  BY <1>2, <1>3, <1>4, <1>5, <1>6, <1>7, <1>8, <1>9 DEF PassEffect

LEMMA StepTakesBest ==
  ASSUME HotTypeOK, HotFinite, HotApart, [HotNext]_hotVars
  PROVE  TakesBest
<1> SUFFICES ASSUME NEW w \in Passes, pass[w].pc = "matching", NewPair(w), NEW h \in Passed(w)
             PROVE  IF h.type = "SELL" THEN h.price >= Taken(w).price ELSE h.price <= Taken(w).price
  BY DEF TakesBest
<1>1. PICK tip \in HotBid : MatchEffect(w, tip)
  BY OnlyMatchPairs
<1>2. Matching(w) /\ tip \in Tips(OtherQueue(w))
  BY <1>1 DEF MatchEffect, InRound, Matching
<1> DEFINE type == Facing(w)
           q == OtherQueue(w)
<1>3. type \in Sides /\ q \in Queue(type) /\ q = pass[w].queue[type] /\ Incoming(w) \in HotBid
  BY <1>2, IncomingTyped DEF Facing, OtherQueue
<1>4. tip.type = type
  BY <1>2, <1>3, TipIsBest, CandidatesTyped
<1>5. Taken(w) = tip
  <2>1. <<Incoming(w), tip>> \in Pair
    BY <1>3 DEF Pair
  <2>2. Last(pass'[w].matched) = <<Incoming(w), tip>>
    BY <1>1, <2>1, PassTyped, Appended DEF MatchEffect
  <2>3. QED
    BY <2>2 DEF Taken
<1>6. h \in Candidates(pass'[w].queue[type])
  BY <1>4, <1>5 DEF Passed
<1>7. pass'[w].queue[type] = Popped(q, tip)
  BY <1>1 DEF MatchEffect, QueueBecomes
<1>8. h \in Candidates(q) /\ h.type = type
  <2>1. PICK r : r = Popped(q, tip)
    OBVIOUS
  <2>2. h \in Candidates(r) /\ Candidates(q) = Candidates(r) \cup {tip}
    BY <1>2, <1>3, <1>6, <1>7, <2>1, PoppedQueue
  <2>3. h \in Candidates(q)
    BY <2>2
  <2>4. QED
    BY <1>3, <2>3, CandidatesTyped
<1>9. NoBetter(type, h, tip)
  BY <1>2, <1>3, <1>8, TipIsBest DEF HotFinite, HotApart, QueuesApart
<1>10. QED
  BY <1>5, <1>8, <1>9 DEF NoBetter

\* A bid is matched with the best price that the hot zone and the batch offer.
THEOREM BestPriceAlwaysTaken == HotSpec => PricePriority
<1>1. HotTypeOK /\ HotFinite /\ HotApart /\ [HotNext]_hotVars
        => HotTypeOK' /\ HotFinite' /\ HotApart' /\ [TakesBest]_hotVars
  BY HotStepTyped, HotStepApart, StepTakesBest
<1>2. HotSpec => [][TakesBest]_hotVars
  BY <1>1, HotInitTyped, HotInitApart, PTL DEF HotSpec
<1>3. QED
  BY <1>2 DEF PricePriority, TakesBest

-----------------------------------------------------------------------------
(***************************************************************************)
(* HotZone: the bids of a pair meet.                                       *)
(***************************************************************************)
\* A new bid and an older one of the other type that is a match for it.
Meet(pair) == pair[2].type = Other(pair[1].type) /\ IsMatch(pair[2], pair[1])

AllMeet(matched) == \A i \in DOMAIN matched : Meet(matched[i])

PairsMeet ==
  /\ \A task \in applyTasks : AllMeet(task.matched)
  /\ \A w \in Passes : AllMeet(pass[w].matched)

LEMMA NonePair == AllMeet(<<>>)
  BY DEF AllMeet

LEMMA OnePairMore ==
  ASSUME HotTypeOK, NEW w \in Passes, AllMeet(pass[w].matched),
         NEW tip \in HotBid, MatchEffect(w, tip), IsMatch(tip, Incoming(w))
  PROVE  AllMeet(pass'[w].matched)
<1> DEFINE pair == <<Incoming(w), tip>>
           matched == pass[w].matched
<1>1. Matching(w) /\ tip \in Tips(OtherQueue(w))
  BY DEF MatchEffect, InRound, Matching
<1>2. /\ Facing(w) \in Sides /\ OtherQueue(w) \in Queue(Facing(w))
      /\ Incoming(w) \in HotBid /\ matched \in Seq(Pair)
  BY <1>1, IncomingTyped, PassTyped DEF Facing
<1>3. tip.type = Facing(w)
  BY <1>1, <1>2, TipIsBest, CandidatesTyped
<1>4. Meet(pair)
  BY <1>3 DEF Meet, Facing
<1>5. pair \in Pair
  BY <1>2 DEF Pair
<1>6. pass'[w].matched = Append(matched, pair)
  BY DEF MatchEffect
<1> HIDE DEF pair, matched
<1>7. AllMeet(matched)
  BY DEF matched
<1>8. QED
  BY <1>2, <1>4, <1>5, <1>6, <1>7, Appended DEF AllMeet

LEMMA HotInitMeet == HotInit => PairsMeet
<1>1. Idle.matched = <<>>
  BY IdleTyped
<1>2. QED
  BY <1>1, NonePair DEF HotInit, PairsMeet

LEMMA HotStepMeet ==
  ASSUME HotTypeOK, HotFinite, PairsMeet, [HotNext]_hotVars
  PROVE  PairsMeet'
<1>0. ASSUME NEW w \in Passes, \A v \in Passes \ {w} : pass'[v] = pass[v],
             AllMeet(pass'[w].matched), applyTasks' = applyTasks
      PROVE  PairsMeet'
  BY <1>0 DEF PairsMeet
<1>1. CASE UNCHANGED <<pass, applyTasks>>
  BY <1>1 DEF PairsMeet
<1>2. ASSUME NEW w \in Passes, PassEffect(w)
      PROVE  PairsMeet'
  <2>1. AllMeet(pass[w].matched) /\ AllMeet(Idle.matched) /\ AllMeet(Ended(pass[w]).matched)
    BY NonePair, IdleTyped, PassTyped, EndedTyped DEF PairsMeet
  <2>2. ASSUME NEW tasks \in SUBSET hotTasks, LeaseEffect(w, tasks)
        PROVE  PairsMeet'
    BY <1>0, <2>2, NonePair DEF LeaseEffect, Becomes
  <2>3. ASSUME NEW tip \in HotBid, MatchEffect(w, tip), IsMatch(tip, Incoming(w))
        PROVE  PairsMeet'
    BY <1>0, <2>1, <2>3, OnePairMore DEF MatchEffect, InRound
  <2>4. CASE CommitEffect(w)
    <3>1. \A task \in applyTasks' : task \in applyTasks \/ task.matched = pass[w].matched
      BY <2>4 DEF CommitEffect
    <3>2. QED
      BY <2>1, <2>4, <3>1 DEF CommitEffect, Becomes, PairsMeet
  <2>5. CASE BeginEffect(w) \/ FailEffect(w) \/ DeleteEffect(w) \/ CrashEffect(w)
    BY <1>0, <2>1, <2>5 DEF BeginEffect, FailEffect, DeleteEffect, CrashEffect, Becomes
  <2>6. CASE InsertEffect(w) \/ \E tip \in HotBid : SkipEffect(w, tip)
    BY <1>0, <2>1, <2>6 DEF InsertEffect, SkipEffect, InRound
  <2>7. QED
    BY <1>2, <2>2, <2>3, <2>4, <2>5, <2>6 DEF PassEffect
<1>3. QED
  BY <1>1, <1>2, StepIsEffect DEF Arrive, Tick, hotVars

\* Every pair that is to be applied is of a buy and a sell, at prices that both
\* accept: the bids are stored, popped and kept in memory, but never mixed up.
THEOREM PairsAlwaysMeet == HotSpec => []PairsMeet
<1>1. HotTypeOK /\ HotFinite /\ PairsMeet /\ [HotNext]_hotVars
        => HotTypeOK' /\ HotFinite' /\ PairsMeet'
  BY HotStepTyped, HotStepMeet
<1>2. QED
  BY <1>1, HotInitTyped, HotInitMeet, PTL DEF HotSpec

-----------------------------------------------------------------------------
(***************************************************************************)
(* HotZone: the bids that a pass carries.                                  *)
(***************************************************************************)
InQueues(p) == Candidates(p.queue["BUY"]) \cup Candidates(p.queue["SELL"])
MatchedBids(matched) == UNION {Both(matched[i]) : i \in DOMAIN matched}
Carried(p) == Range(p.todo) \cup InQueues(p) \cup MatchedBids(p.matched)

LEMMA InQueuesTyped ==
  ASSUME HotTypeOK, NEW w \in Passes
  PROVE  /\ \A type \in Sides : Candidates(pass[w].queue[type]) \subseteq InQueues(pass[w])
         /\ \A h \in InQueues(pass[w]) :
              /\ h \in HotBid /\ h.type \in Sides
              /\ h \in Candidates(pass[w].queue[h.type])
<1>1. ASSUME NEW type \in Sides, NEW h \in Candidates(pass[w].queue[type])
      PROVE  h \in HotBid /\ h.type = type
  BY <1>1, PassTyped, CandidatesTyped
<1>2. QED
  BY <1>1 DEF InQueues, Sides

\* A pair more.
LEMMA MatchedMore ==
  ASSUME NEW matched \in Seq(Pair), NEW pair \in Pair
  PROVE  MatchedBids(Append(matched, pair)) = MatchedBids(matched) \cup Both(pair)
<1>1. PICK more : more = Append(matched, pair)
  OBVIOUS
<1>2. /\ DOMAIN more = DOMAIN matched \cup {Len(matched) + 1}
      /\ more[Len(matched) + 1] = pair
      /\ \A i \in DOMAIN matched : more[i] = matched[i]
  BY <1>1, Appended
<1>3. MatchedBids(more) = MatchedBids(matched) \cup Both(pair)
  BY <1>2 DEF MatchedBids
<1>4. QED
  BY <1>1, <1>3

\* The queues after one of them was popped.
LEMMA PoppedInQueues ==
  ASSUME HotTypeOK, NEW w \in Passes, InRound(w),
         NEW tip \in Tips(OtherQueue(w)),
         QueueBecomes(w, Facing(w), Popped(OtherQueue(w), tip))
  PROVE  /\ InQueues(pass[w]) = InQueues(pass'[w]) \cup {tip}
         /\ tip \in HotBid /\ tip.type = Facing(w)
         /\ \A type \in Sides :
              /\ Range(pass'[w].queue[type].stored) \subseteq Range(pass[w].queue[type].stored)
              /\ pass'[w].queue[type].cached \subseteq pass[w].queue[type].cached
              /\ Distinct(pass[w].queue[type].stored) => Distinct(pass'[w].queue[type].stored)
         /\ Once(OtherQueue(w)) => tip \notin InQueues(pass'[w])
<1> DEFINE type == Facing(w)
           q == OtherQueue(w)
<1>1. Matching(w)
  BY DEF InRound, Matching
<1>2. type \in Sides /\ q \in Queue(type) /\ q = pass[w].queue[type]
  BY <1>1, IncomingTyped DEF Facing, OtherQueue
<1>3. PICK r : r = Popped(q, tip)
  OBVIOUS
<1>4. /\ r \in Queue(type) /\ Candidates(q) = Candidates(r) \cup {tip}
      /\ Range(r.stored) \subseteq Range(q.stored) /\ r.cached \subseteq q.cached
      /\ Distinct(q.stored) => Distinct(r.stored)
      /\ Once(q) => tip \notin Candidates(r)
  BY <1>2, <1>3, PoppedQueue
<1>5. tip \in Candidates(q)
  BY <1>4
<1>6. tip \in HotBid /\ tip.type = type
  BY <1>2, <1>5, CandidatesTyped
<1>7. pass'[w].queue[type] = r
      /\ \A other \in Sides : other # type => pass'[w].queue[other] = pass[w].queue[other]
  BY <1>3 DEF QueueBecomes
<1>8. \A other \in Sides : other # type => tip \notin Candidates(pass[w].queue[other])
  BY <1>6, PassTyped, CandidatesTyped
<1> HIDE DEF type, q
<1>9. InQueues(pass[w]) = InQueues(pass'[w]) \cup {tip}
  BY <1>2, <1>4, <1>7 DEF InQueues, Sides
<1>10. Once(q) => tip \notin InQueues(pass'[w])
  BY <1>2, <1>4, <1>7, <1>8 DEF InQueues, Sides
<1>11. QED
  BY <1>2, <1>4, <1>6, <1>7, <1>9, <1>10 DEF type, q

\* The queues after the first incoming bid was added to its own.
LEMMA InsertedInQueues ==
  ASSUME HotTypeOK, NEW w \in Passes, InsertEffect(w)
  PROVE  /\ InQueues(pass'[w]) = InQueues(pass[w]) \cup {Incoming(w)}
         /\ \A type \in Sides :
              /\ pass'[w].queue[type].stored = pass[w].queue[type].stored
              /\ pass'[w].queue[type].cached \subseteq pass[w].queue[type].cached \cup {Incoming(w)}
<1> DEFINE i == Incoming(w)
           type == i.type
<1>1. Matching(w)
  BY DEF InsertEffect, InRound, Matching
<1>2. type \in Sides
  BY <1>1, IncomingTyped
<1>3. PICK q \in Queue(type) : q = pass[w].queue[type]
  BY <1>2, PassTyped
<1>4. PICK r : r = [q EXCEPT !.cached = @ \cup {i}]
  OBVIOUS
<1> HIDE DEF i, type
<1>5. r.stored = q.stored /\ r.cached = q.cached \cup {i}
  BY <1>4 DEF Queue
<1>6. Candidates(r) = Candidates(q) \cup {i}
  BY <1>5 DEF Candidates
<1>7. pass'[w].queue[type] = r
      /\ \A other \in Sides : other # type => pass'[w].queue[other] = pass[w].queue[other]
  BY <1>3, <1>4 DEF QueueBecomes, InsertEffect, i, type
<1>8. InQueues(pass'[w]) = InQueues(pass[w]) \cup {i}
  BY <1>2, <1>3, <1>6, <1>7 DEF InQueues, Sides
<1>9. QED
  BY <1>2, <1>3, <1>5, <1>7, <1>8 DEF i, type

\* The first incoming bid leaves the ones to come.
LEMMA TodoShrinks ==
  ASSUME HotTypeOK, NEW w \in Passes, Matching(w)
  PROVE  /\ Range(pass[w].todo) = {Incoming(w)} \cup Range(Tail(pass[w].todo))
         /\ Distinct(pass[w].todo) =>
              /\ Distinct(Tail(pass[w].todo))
              /\ Incoming(w) \notin Range(Tail(pass[w].todo))
<1>1. pass[w].todo \in Seq(HotBid) /\ pass[w].todo # <<>>
  BY PassTyped DEF Matching
<1>2. QED
  BY <1>1, HeadTail, TailDistinct DEF Incoming

\* Only an expired bid stops being carried in a round, and no bid starts to be.
LEMMA SkipCarried ==
  ASSUME HotTypeOK, NEW w \in Passes, NEW tip \in HotBid, SkipEffect(w, tip)
  PROVE  Carried(pass[w]) = Carried(pass'[w]) \cup {tip}
<1>1. InQueues(pass[w]) = InQueues(pass'[w]) \cup {tip}
  BY PoppedInQueues DEF SkipEffect
<1>2. QED
  BY <1>1 DEF Carried, SkipEffect

LEMMA MatchedPair ==
  ASSUME HotTypeOK, NEW w \in Passes, NEW tip \in HotBid, MatchEffect(w, tip)
  PROVE  MatchedBids(pass'[w].matched) = MatchedBids(pass[w].matched) \cup {Incoming(w), tip}
<1>1. Incoming(w) \in HotBid
  BY IncomingTyped DEF MatchEffect, InRound, Matching
<1>2. PICK pair \in Pair : pair = <<Incoming(w), tip>>
  BY <1>1 DEF Pair
<1>3. Both(pair) = {Incoming(w), tip}
  BY <1>2 DEF Both
<1>4. pass'[w].matched = Append(pass[w].matched, pair)
  BY <1>2 DEF MatchEffect
<1>5. QED
  BY <1>3, <1>4, PassTyped, MatchedMore

LEMMA MatchCarried ==
  ASSUME HotTypeOK, NEW w \in Passes, NEW tip \in HotBid, MatchEffect(w, tip)
  PROVE  Carried(pass'[w]) = Carried(pass[w])
<1>1. InQueues(pass[w]) = InQueues(pass'[w]) \cup {tip}
  BY PoppedInQueues DEF MatchEffect
<1>2. Range(pass[w].todo) = {Incoming(w)} \cup Range(pass'[w].todo)
  BY TodoShrinks DEF MatchEffect, InRound, Matching
<1>3. QED
  BY <1>1, <1>2, MatchedPair DEF Carried

LEMMA InsertCarried ==
  ASSUME HotTypeOK, NEW w \in Passes, InsertEffect(w)
  PROVE  Carried(pass'[w]) = Carried(pass[w])
<1>1. Range(pass[w].todo) = {Incoming(w)} \cup Range(pass'[w].todo)
  BY TodoShrinks DEF InsertEffect, InRound, Matching
<1>2. QED
  BY <1>1, InsertedInQueues DEF Carried, InsertEffect

\* A pass that begins carries the bids it leased and the hot zone.
LEMMA BeginCarried ==
  ASSUME HotTypeOK, NEW w \in Passes, BeginEffect(w)
  PROVE  InQueues(pass'[w]) = Hot
<1>1. "BUY" \in Sides /\ "SELL" \in Sides
  BY DEF Sides
<1>2. \A type \in Sides :
        Candidates(pass'[w].queue[type]) = {e.bid : e \in {d \in zone : d.bid.type = type}}
  BY DEF BeginEffect, Candidates
<1>3. \A e \in zone : e.bid.type \in Sides
  BY DEF HotTypeOK, Entity, HotBid
<1>4. QED
  BY <1>1, <1>2, <1>3 DEF InQueues, Hot, Sides

\* A pass without queues, bids to come and pairs carries nothing.
LEMMA NothingCarried ==
  ASSUME NEW p, p.todo = <<>>, p.matched = <<>>,
         \A type \in Sides : p.queue[type].stored = <<>> /\ p.queue[type].cached = {}
  PROVE  Carried(p) = {}
<1>1. \A type \in Sides : Candidates(p.queue[type]) = {}
  BY DEF Candidates, Range
<1>2. QED
  BY <1>1 DEF Carried, InQueues, MatchedBids, Sides, Range

LEMMA EmptyCarried ==
  /\ Carried(Idle) = {}
  /\ \A p \in Pass : Carried(Ended(p)) = {}
  BY IdleTyped, EndedTyped, NothingCarried

\* What becomes of the bids of a transaction that commits.
LEMMA CommitCarried ==
  ASSUME HotTypeOK, HotFinite, NEW w \in Passes, CommitEffect(w)
  PROVE  /\ Hot' \subseteq InQueues(pass[w])
         /\ \A h \in InQueues(pass[w]) : ~Expired(h, pass[w].stamp) => h \in Hot'
         /\ Hot' \subseteq {e.bid : e \in Range(pass[w].queue["BUY"].stored)}
                     \cup {e.bid : e \in Range(pass[w].queue["SELL"].stored)}
                     \cup CachedBids(pass[w])
<1>1. Hot' = {e.bid : e \in Remaining(pass[w]) \cup Persisted(pass[w])}
  BY DEF Hot, CommitEffect
<1>2. \A h : h \in {e.bid : e \in Persisted(pass[w])} <=> h \in CachedBids(pass[w])
  BY PersistedNew
<1>3. \A e \in Remaining(pass[w]) :
        e \in Range(pass[w].queue["BUY"].stored) \cup Range(pass[w].queue["SELL"].stored)
  BY DEF Remaining
<1>4. ASSUME NEW h \in InQueues(pass[w]), ~Expired(h, pass[w].stamp)
      PROVE  h \in Hot'
  <2>1. CASE h \in CachedBids(pass[w])
    BY <1>1, <1>2, <2>1
  <2>2. CASE h \notin CachedBids(pass[w])
    <3>1. PICK e \in Range(pass[w].queue["BUY"].stored) \cup Range(pass[w].queue["SELL"].stored) :
            e.bid = h
      BY <2>2 DEF InQueues, Candidates, CachedBids
    <3>2. e \in Remaining(pass[w])
      BY <1>4, <3>1 DEF Remaining
    <3>3. QED
      BY <1>1, <3>1, <3>2
  <2>3. QED
    BY <2>1, <2>2
<1>5. Hot' \subseteq {e.bid : e \in Range(pass[w].queue["BUY"].stored)}
                     \cup {e.bid : e \in Range(pass[w].queue["SELL"].stored)}
                     \cup CachedBids(pass[w])
  BY <1>1, <1>2, <1>3
<1>6. Hot' \subseteq InQueues(pass[w])
  BY <1>5 DEF InQueues, Candidates, CachedBids
<1>7. QED
  BY <1>4, <1>5, <1>6

-----------------------------------------------------------------------------
(***************************************************************************)
(* HotZone: pairs.                                                         *)
(***************************************************************************)
Paired(h) == \E task \in applyTasks : h \in MatchedBids(task.matched)

\* PairsWith holds a place for each pair with the bid.
LEMMA PlacesOfPairs ==
  ASSUME NEW h, NEW x
  PROVE  x \in PairsWith(h) <=>
           \E task \in applyTasks :
             \E i \in DOMAIN task.matched : h \in Both(task.matched[i]) /\ x = <<task, i>>
<1> DEFINE Of(task) == {<<task, i>> : i \in {j \in DOMAIN task.matched : h \in Both(task.matched[j])}}
<1>1. \A task : x \in Of(task) <=>
        \E i \in DOMAIN task.matched : h \in Both(task.matched[i]) /\ x = <<task, i>>
  OBVIOUS
<1>2. PairsWith(h) = UNION {Of(task) : task \in applyTasks}
  BY DEF PairsWith
<1> HIDE DEF Of
<1>3. x \in PairsWith(h) <=> \E task \in applyTasks : x \in Of(task)
  BY <1>2
<1>4. QED
  BY <1>1, <1>3

LEMMA PairedIsPlaced ==
  ASSUME NEW h
  PROVE  PairsWith(h) # {} <=> Paired(h)
<1>1. \A task : h \in MatchedBids(task.matched)
                  <=> \E i \in DOMAIN task.matched : h \in Both(task.matched[i])
  BY DEF MatchedBids
<1>2. PairsWith(h) # {} <=> \E task \in applyTasks : \E i \in DOMAIN task.matched : h \in Both(task.matched[i])
  <2>1. ASSUME PairsWith(h) # {}
        PROVE  \E task \in applyTasks : \E i \in DOMAIN task.matched : h \in Both(task.matched[i])
    <3>1. PICK x : x \in PairsWith(h)
      BY <2>1
    <3>2. QED
      BY <3>1, PlacesOfPairs
  <2>2. ASSUME NEW task \in applyTasks, NEW i \in DOMAIN task.matched, h \in Both(task.matched[i])
        PROVE  PairsWith(h) # {}
    <3>1. <<task, i>> \in PairsWith(h)
      BY <2>2, PlacesOfPairs
    <3>2. QED
      BY <3>1
  <2>3. QED
    BY <2>1, <2>2
<1>3. QED
  BY <1>1, <1>2 DEF Paired

\* A transaction that commits pairs what it matched.
LEMMA CommitPairs ==
  ASSUME NEW w \in Passes, CommitEffect(w), NEW h
  PROVE  Paired(h)' <=> Paired(h) \/ h \in MatchedBids(pass[w].matched)
<1> DEFINE new == [stamp |-> pass[w].stamp, matched |-> pass[w].matched,
                   placed |-> CachedBids(pass[w])]
<1>1. new.matched = pass[w].matched
  OBVIOUS
<1>2. CASE pass[w].matched = <<>> /\ CachedBids(pass[w]) = {}
  <2>1. applyTasks' = applyTasks
    BY <1>2 DEF CommitEffect
  <2>2. MatchedBids(pass[w].matched) = {}
    BY <1>2 DEF MatchedBids
  <2>3. QED
    BY <2>1, <2>2 DEF Paired
<1>3. CASE ~(pass[w].matched = <<>> /\ CachedBids(pass[w]) = {})
  <2>1. applyTasks' = applyTasks \cup {new}
    BY <1>3 DEF CommitEffect
  <2> HIDE DEF new
  <2>2. QED
    BY <1>1, <2>1 DEF Paired
<1>4. QED
  BY <1>2, <1>3

-----------------------------------------------------------------------------
(***************************************************************************)
(* HotZone: one transaction at a time, and no bid from nowhere.            *)
(***************************************************************************)
OneMatching ==
  \A v, w \in Passes : pass[v].pc = "matching" /\ pass[w].pc = "matching" => v = w

Known ==
  /\ Queued \subseteq arrived /\ Hot \subseteq arrived
  /\ \A task \in applyTasks : MatchedBids(task.matched) \subseteq arrived
  /\ \A w \in Passes : pass[w].tasks \cup Carried(pass[w]) \subseteq arrived

LEMMA HotInitKnown == HotInit => OneMatching /\ Known
<1> SUFFICES ASSUME HotInit PROVE OneMatching /\ Known
  OBVIOUS
<1>1. \A w \in Passes : pass[w] = Idle
  BY DEF HotInit
<1>2. QED
  BY <1>1, IdleTyped, EmptyCarried DEF HotInit, OneMatching, Known, Queued, Hot

\* The known bids of a step of one pass.
LEMMA OthersKnown ==
  ASSUME Known, NEW w \in Passes, \A v \in Passes \ {w} : pass'[v] = pass[v],
         arrived' = arrived, pass'[w].tasks \cup Carried(pass'[w]) \subseteq arrived
  PROVE  (\A v \in Passes : pass[v].tasks \cup Carried(pass[v]) \subseteq arrived)'
<1>1. ASSUME NEW v \in Passes
      PROVE  pass'[v].tasks \cup Carried(pass'[v]) \subseteq arrived
  BY DEF Known
<1>2. QED
  BY <1>1

LEMMA RoundKnown ==
  ASSUME Known, NEW w \in Passes, InRound(w), Carried(pass'[w]) \subseteq Carried(pass[w])
  PROVE  Known'
<1>1. pass'[w].tasks \cup Carried(pass'[w]) \subseteq arrived
  BY DEF Known, InRound
<1>2. (\A v \in Passes : pass[v].tasks \cup Carried(pass[v]) \subseteq arrived)'
  BY <1>1, OthersKnown DEF InRound
<1>3. QED
  BY <1>2 DEF InRound, Known, Queued, Hot

LEMMA EndKnown ==
  ASSUME Known, NEW w \in Passes, \A v \in Passes \ {w} : pass'[v] = pass[v],
         UNCHANGED <<arrived, zone, applyTasks>>, hotTasks' \subseteq hotTasks,
         pass'[w].tasks \subseteq pass[w].tasks, Carried(pass'[w]) = {}
  PROVE  Known'
<1>1. pass'[w].tasks \cup Carried(pass'[w]) \subseteq arrived
  BY DEF Known
<1>2. (\A v \in Passes : pass[v].tasks \cup Carried(pass[v]) \subseteq arrived)'
  BY <1>1, OthersKnown
<1>3. QED
  BY <1>2 DEF Known, Queued, Hot

\* The tasks of the pull queue when some are leased.
LEMMA LeasedTasks ==
  ASSUME HotTypeOK, NEW w \in Passes, NEW tasks \in SUBSET hotTasks, LeaseEffect(w, tasks)
  PROVE  /\ \A t \in hotTasks' :
              \/ t \in hotTasks \ tasks
              \/ \E s \in tasks : t = [bid |-> s.bid, free |-> now + LeaseTime]
         /\ \A s \in hotTasks : \E t \in hotTasks' : t.bid = s.bid
<1> DEFINE renewed == {[task EXCEPT !.free = now + LeaseTime] : task \in tasks}
<1>1. \A task \in tasks :
        [task EXCEPT !.free = now + LeaseTime] = [bid |-> task.bid, free |-> now + LeaseTime]
  BY DEF HotTypeOK
<1>2. hotTasks' = (hotTasks \ tasks) \cup renewed
  BY DEF LeaseEffect
<1>3. ASSUME NEW s \in hotTasks
      PROVE  \E t \in hotTasks' : t.bid = s.bid
  <2>1. CASE s \in tasks
    <3>1. [s EXCEPT !.free = now + LeaseTime] \in renewed
      BY <2>1
    <3>2. [s EXCEPT !.free = now + LeaseTime].bid = s.bid
      BY <1>1, <2>1
    <3> HIDE DEF renewed
    <3>3. QED
      BY <1>2, <3>1, <3>2
  <2>2. CASE s \notin tasks
    BY <1>2, <2>2
  <2>3. QED
    BY <2>1, <2>2
<1>4. ASSUME NEW t \in renewed
      PROVE  \E s \in tasks : t = [bid |-> s.bid, free |-> now + LeaseTime]
  <2>1. PICK s \in tasks : t = [s EXCEPT !.free = now + LeaseTime]
    OBVIOUS
  <2>2. QED
    BY <1>1, <2>1
<1> HIDE DEF renewed
<1>5. QED
  BY <1>2, <1>3, <1>4

\* The bids in the pull queue are the same when tasks are leased.
LEMMA LeaseQueued ==
  ASSUME HotTypeOK, NEW w \in Passes, NEW tasks \in SUBSET hotTasks, LeaseEffect(w, tasks)
  PROVE  Queued' = Queued /\ pass'[w].tasks \subseteq Queued
<1>1. Queued' = {task.bid : task \in hotTasks'}
  BY DEF Queued
<1>2. ASSUME NEW t \in hotTasks'
      PROVE  t.bid \in Queued
  BY LeasedTasks DEF Queued
<1>3. ASSUME NEW s \in hotTasks
      PROVE  s.bid \in Queued'
  BY <1>1, LeasedTasks
<1>4. pass'[w].tasks = {task.bid : task \in tasks}
  BY DEF LeaseEffect
<1>5. QED
  BY <1>1, <1>2, <1>3, <1>4 DEF Queued

LEMMA HotStepKnown ==
  ASSUME HotTypeOK, HotFinite, Known, OneMatching, [HotNext]_hotVars
  PROVE  Known' /\ OneMatching'
<1>1. CASE UNCHANGED hotVars
  BY <1>1 DEF hotVars, Known, OneMatching, Queued, Hot
<1>2. ASSUME NEW h \in HotBid, Arrive(h)
      PROVE  Known' /\ OneMatching'
  <2>1. /\ arrived' = arrived \cup {h} /\ hotTasks' = hotTasks \cup {[bid |-> h, free |-> now]}
        /\ UNCHANGED <<zone, pass, applyTasks>>
    BY <1>2 DEF Arrive, AddHotTask
  <2>2. Queued' \subseteq Queued \cup {h} /\ Hot' = Hot
    BY <2>1 DEF Queued, Hot
  <2>3. QED
    BY <2>1, <2>2 DEF Known, OneMatching
<1>3. ASSUME NEW w \in Passes, PassEffect(w)
      PROVE  Known' /\ OneMatching'
  <2>1. ASSUME NEW tasks \in SUBSET hotTasks, LeaseEffect(w, tasks)
        PROVE  Known' /\ OneMatching'
    <3>1. Queued' = Queued /\ pass'[w].tasks \subseteq Queued
      BY <2>1, LeaseQueued
    <3>2. Carried(pass'[w]) = Range(pass'[w].todo)
      <4>1. \A type \in Sides : Candidates(pass'[w].queue[type]) = {}
        BY <2>1 DEF LeaseEffect, Candidates, Range
      <4>2. MatchedBids(pass'[w].matched) = {}
        BY <2>1 DEF LeaseEffect, MatchedBids
      <4>3. QED
        BY <4>1, <4>2 DEF Carried, InQueues, Sides
    <3>3. pass'[w].tasks \cup Carried(pass'[w]) \subseteq arrived
      BY <2>1, <3>1, <3>2 DEF LeaseEffect, Known
    <3>4. (\A v \in Passes : pass[v].tasks \cup Carried(pass[v]) \subseteq arrived)'
      BY <2>1, <3>3, OthersKnown DEF LeaseEffect, Becomes
    <3>5. Known'
      BY <2>1, <3>1, <3>4 DEF LeaseEffect, Known, Hot
    <3>6. QED
      BY <2>1, <3>5 DEF LeaseEffect, Becomes, OneMatching
  <2>2. CASE BeginEffect(w)
    <3>1. Carried(pass'[w]) \subseteq Carried(pass[w]) \cup Hot
      BY <2>2, BeginCarried DEF Carried, BeginEffect
    <3>2. pass'[w].tasks \cup Carried(pass'[w]) \subseteq arrived
      BY <2>2, <3>1 DEF BeginEffect, Known
    <3>3. (\A v \in Passes : pass[v].tasks \cup Carried(pass[v]) \subseteq arrived)'
      BY <2>2, <3>2, OthersKnown DEF BeginEffect, Becomes
    <3>4. Known'
      BY <2>2, <3>3 DEF BeginEffect, Known, Queued, Hot
    <3>5. QED
      BY <2>2, <3>4 DEF BeginEffect, Becomes, OneMatching
  <2>3. ASSUME NEW tip \in HotBid, SkipEffect(w, tip)
        PROVE  Known' /\ OneMatching'
    <3>1. InRound(w) /\ Carried(pass'[w]) \subseteq Carried(pass[w])
      BY <2>3, SkipCarried DEF SkipEffect
    <3>2. QED
      BY <3>1, RoundKnown DEF InRound, OneMatching
  <2>4. ASSUME NEW tip \in HotBid, MatchEffect(w, tip)
        PROVE  Known' /\ OneMatching'
    <3>1. InRound(w) /\ Carried(pass'[w]) \subseteq Carried(pass[w])
      BY <2>4, MatchCarried DEF MatchEffect
    <3>2. QED
      BY <3>1, RoundKnown DEF InRound, OneMatching
  <2>5. CASE InsertEffect(w)
    <3>1. InRound(w) /\ Carried(pass'[w]) \subseteq Carried(pass[w])
      BY <2>5, InsertCarried DEF InsertEffect
    <3>2. QED
      BY <3>1, RoundKnown DEF InRound, OneMatching
  <2>6. CASE CommitEffect(w)
    <3>1. pass'[w] = Ended(pass[w]) /\ \A v \in Passes \ {w} : pass'[v] = pass[v]
      BY <2>6 DEF CommitEffect, Becomes
    <3>2. pass'[w].tasks = pass[w].tasks /\ pass'[w].pc = "ended" /\ Carried(pass'[w]) = {}
      BY <3>1, PassTyped, EndedTyped, EmptyCarried
    <3>3. pass[w].tasks \cup Carried(pass[w]) \subseteq arrived
      BY DEF Known
    <3>4. Hot' \subseteq arrived
      BY <2>6, <3>3, CommitCarried DEF Carried
    <3>5. \A h : Paired(h) \/ h \in MatchedBids(pass[w].matched) => h \in arrived
      BY <3>3 DEF Known, Paired, Carried
    <3>6. \A task \in applyTasks' : MatchedBids(task.matched) \subseteq arrived
      <4>1. ASSUME NEW task \in applyTasks', NEW h \in MatchedBids(task.matched)
            PROVE  h \in arrived
        <5>1. Paired(h)'
          BY <4>1 DEF Paired
        <5>2. QED
          BY <2>6, <3>5, <5>1, CommitPairs
      <4>2. QED
        BY <4>1
    <3>7. (\A v \in Passes : pass[v].tasks \cup Carried(pass[v]) \subseteq arrived)'
      BY <2>6, <3>1, <3>2, <3>3, OthersKnown DEF CommitEffect
    <3>8. Known'
      BY <2>6, <3>4, <3>6, <3>7 DEF CommitEffect, Known, Queued
    <3>9. QED
      BY <3>1, <3>2, <3>8 DEF OneMatching
  <2>7. CASE FailEffect(w)
    <3>1. pass'[w] = Ended(pass[w]) /\ \A v \in Passes \ {w} : pass'[v] = pass[v]
      BY <2>7 DEF FailEffect, Becomes
    <3>2. pass'[w].tasks = pass[w].tasks /\ pass'[w].pc = "ended" /\ Carried(pass'[w]) = {}
      BY <3>1, PassTyped, EndedTyped, EmptyCarried
    <3>3. UNCHANGED <<arrived, zone, applyTasks, hotTasks>>
      BY <2>7 DEF FailEffect
    <3>4. Known'
      BY <3>1, <3>2, <3>3, EndKnown
    <3>5. QED
      BY <3>1, <3>2, <3>4 DEF OneMatching
  <2>8. CASE DeleteEffect(w) \/ CrashEffect(w)
    <3>1. pass'[w] = Idle /\ \A v \in Passes \ {w} : pass'[v] = pass[v]
      BY <2>8 DEF DeleteEffect, CrashEffect, Becomes
    <3>2. pass'[w].tasks = {} /\ pass'[w].pc = "idle" /\ Carried(pass'[w]) = {}
      BY <3>1, IdleTyped, EmptyCarried
    <3>3. UNCHANGED <<arrived, zone, applyTasks>> /\ hotTasks' \subseteq hotTasks
      BY <2>8 DEF DeleteEffect, CrashEffect
    <3>4. Known'
      BY <3>1, <3>2, <3>3, EndKnown
    <3>5. QED
      BY <3>1, <3>2, <3>4 DEF OneMatching
  <2>9. QED
    BY <1>3, <2>1, <2>2, <2>3, <2>4, <2>5, <2>6, <2>7, <2>8 DEF PassEffect
<1>4. CASE Tick
  BY <1>4 DEF Tick, Known, OneMatching, Queued, Hot
<1>5. QED
  BY <1>1, <1>2, <1>3, <1>4, StepIsEffect

-----------------------------------------------------------------------------
(***************************************************************************)
(* HotZone: no live bid is lost.                                           *)
(***************************************************************************)
\* What a pass must not forget: before its transaction, the tasks it leased;
\* during it, also the hot zone it replaces; after it, that its tasks, which it
\* is about to delete, are stored or matched.
Accounts(p) ==
  /\ p.pc = "leased" => p.tasks \subseteq Range(p.todo)
  /\ p.pc = "matching" => \A h \in p.tasks \cup Hot : Live(h, p.stamp) => h \in Carried(p)
  /\ p.pc = "ended" => \A h \in p.tasks : Live(h, now) => h \in Hot \/ Paired(h)

Keeps ==
  fails = 0 =>
    /\ \A h \in arrived : Live(h, now) => h \in Queued \/ h \in Hot \/ Paired(h)
    /\ \A w \in Passes : Accounts(pass[w])

\* A transaction that commits keeps every live bid it accounts for.
LEMMA CommitKeeps ==
  ASSUME HotTypeOK, HotFinite, HotApart, NEW w \in Passes, CommitEffect(w), Accounts(pass[w]),
         NEW h \in HotBid, Live(h, now), h \in pass[w].tasks \/ h \in Hot \/ Paired(h)
  PROVE  h \in Hot' \/ Paired(h)'
<1>1. CASE Paired(h)
  BY <1>1, CommitPairs
<1>2. CASE h \in pass[w].tasks \/ h \in Hot
  <2>1. pass[w].stamp <= now /\ pass[w].stamp \in Nat /\ now \in Nat
    BY PassTyped DEF HotApart, QueuesApart, CommitEffect, HotTypeOK
  <2>2. Live(h, pass[w].stamp) /\ ~Expired(h, pass[w].stamp)
    BY <2>1 DEF Live, Expired, HotBid
  <2>3. h \in Carried(pass[w])
    BY <1>2, <2>2 DEF Accounts, CommitEffect
  <2>4. Range(pass[w].todo) = {}
    BY DEF CommitEffect, Range
  <2>5. h \in InQueues(pass[w]) \/ h \in MatchedBids(pass[w].matched)
    BY <2>3, <2>4 DEF Carried
  <2>6. QED
    BY <2>2, <2>5, CommitCarried, CommitPairs
<1>3. QED
  BY <1>1, <1>2

LEMMA HotInitKeeps == HotInit => Keeps
  BY IdleTyped DEF HotInit, Keeps, Accounts

\* Another pass than the one that steps, which leaves hot zone and pairs alone.
LEMMA OthersKeep ==
  ASSUME NEW w \in Passes, \A v \in Passes : Accounts(pass[v]),
         \A v \in Passes \ {w} : pass'[v] = pass[v],
         UNCHANGED <<now, zone, applyTasks>>, Accounts(pass[w])'
  PROVE  (\A v \in Passes : Accounts(pass[v]))'
<1>1. ASSUME NEW v \in Passes
      PROVE  Accounts(pass[v])'
  <2>1. CASE v = w
    BY <2>1
  <2>2. CASE v # w
    <3>1. pass'[v] = pass[v] /\ Accounts(pass[v])
      BY <2>2
    <3>2. Hot' = Hot /\ (\A h : Paired(h)' <=> Paired(h)) /\ now' = now
      BY DEF Hot, Paired
    <3>3. QED
      BY <3>1, <3>2 DEF Accounts
  <2>3. QED
    BY <2>1, <2>2
<1>2. QED
  BY <1>1

\* The bids are where they were when only passes change.
LEMMA WhereKept ==
  ASSUME \A h \in arrived : Live(h, now) => h \in Queued \/ h \in Hot \/ Paired(h),
         UNCHANGED <<now, arrived, zone, applyTasks>>, Queued' = Queued
  PROVE  (\A h \in arrived : Live(h, now) => h \in Queued \/ h \in Hot \/ Paired(h))'
<1>1. Hot' = Hot /\ (\A h : Paired(h)' <=> Paired(h))
  BY DEF Hot, Paired
<1>2. QED
  BY <1>1

\* A round changes no more than what a pass carries, and no live bid is dropped.
LEMMA RoundKeeps ==
  ASSUME Keeps, NEW w \in Passes, InRound(w),
         \A h \in Carried(pass[w]) : Live(h, pass[w].stamp) => h \in Carried(pass'[w])
  PROVE  Keeps'
<1> SUFFICES ASSUME fails = 0
             PROVE  /\ (\A h \in arrived : Live(h, now) => h \in Queued \/ h \in Hot \/ Paired(h))'
                    /\ (\A v \in Passes : Accounts(pass[v]))'
  BY DEF Keeps, InRound
<1>1. /\ \A h \in arrived : Live(h, now) => h \in Queued \/ h \in Hot \/ Paired(h)
      /\ \A v \in Passes : Accounts(pass[v])
  BY DEF Keeps
<1>2. UNCHANGED <<now, arrived, hotTasks, zone, applyTasks>>
  BY DEF InRound
<1>3. Hot' = Hot /\ Queued' = Queued
  BY <1>2 DEF Hot, Queued
<1>4. Accounts(pass[w])'
  BY <1>1, <1>3 DEF InRound, Accounts
<1>5. QED
  BY <1>1, <1>2, <1>3, <1>4, OthersKeep, WhereKept DEF InRound

LEMMA HotStepKeeps ==
  ASSUME HotTypeOK, HotFinite, HotApart, Known, OneMatching, Keeps, [HotNext]_hotVars
  PROVE  Keeps'
<1> DEFINE Where == \A h \in arrived : Live(h, now) => h \in Queued \/ h \in Hot \/ Paired(h)
           All == \A w \in Passes : Accounts(pass[w])
<1>1. CASE UNCHANGED hotVars
  BY <1>1 DEF hotVars, Keeps, Accounts, Queued, Hot, Paired
<1>2. ASSUME NEW b \in HotBid, Arrive(b), fails = 0
      PROVE  Where' /\ All'
  <2>1. /\ arrived' = arrived \cup {b} /\ hotTasks' = hotTasks \cup {[bid |-> b, free |-> now]}
        /\ UNCHANGED <<now, zone, pass, applyTasks>>
    BY <1>2 DEF Arrive, AddHotTask
  <2>2. Queued \subseteq Queued' /\ b \in Queued' /\ Hot' = Hot /\ \A h : Paired(h)' <=> Paired(h)
    <3>1. [bid |-> b, free |-> now] \in hotTasks' /\ [bid |-> b, free |-> now].bid = b
      BY <2>1
    <3>2. Queued' = {task.bid : task \in hotTasks'}
      BY DEF Queued
    <3>3. Queued \subseteq Queued'
      BY <2>1 DEF Queued
    <3>4. b \in Queued'
      BY <3>1, <3>2
    <3>5. QED
      BY <2>1, <3>3, <3>4 DEF Hot, Paired
  <2>3. Where
    BY <1>2 DEF Keeps
  <2>4. ASSUME NEW h \in arrived', Live(h, now)
        PROVE  h \in Queued' \/ h \in Hot' \/ Paired(h)'
    BY <2>1, <2>2, <2>3, <2>4
  <2>5. All
    BY <1>2 DEF Keeps
  <2>6. ASSUME NEW w \in Passes
        PROVE  Accounts(pass[w])'
    <3>1. Accounts(pass[w])
      BY <2>5
    <3>2. QED
      BY <2>1, <2>2, <3>1 DEF Accounts
  <2>7. QED
    BY <2>1, <2>4, <2>6
<1>3. ASSUME NEW w \in Passes, PassEffect(w)
      PROVE  Keeps'
  <2>1. ASSUME NEW tasks \in SUBSET hotTasks, LeaseEffect(w, tasks), fails = 0
        PROVE  Where' /\ All'
    <3>1. Accounts(pass[w])'
      BY <2>1 DEF LeaseEffect, Accounts
    <3>2. All /\ Where
      BY <2>1 DEF Keeps
    <3>3. All'
      BY <2>1, <3>1, <3>2, OthersKeep DEF LeaseEffect, Becomes
    <3>4. Where'
      BY <2>1, <3>2, LeaseQueued, WhereKept DEF LeaseEffect
    <3>5. QED
      BY <3>3, <3>4
  <2>2. ASSUME BeginEffect(w), fails = 0
        PROVE  Where' /\ All'
    <3>1. All /\ Where
      BY <2>2 DEF Keeps
    <3>2. Hot' = Hot /\ Queued' = Queued
      BY <2>2 DEF BeginEffect, Hot, Queued
    <3>3. pass[w].tasks \cup Hot \subseteq Carried(pass'[w])
      BY <2>2, <3>1, BeginCarried DEF BeginEffect, Accounts, Carried
    <3>4. Accounts(pass[w])'
      BY <2>2, <3>2, <3>3 DEF BeginEffect, Accounts
    <3>5. All'
      BY <2>2, <3>1, <3>4, OthersKeep DEF BeginEffect, Becomes
    <3>6. Where'
      BY <2>2, <3>1, <3>2, WhereKept DEF BeginEffect
    <3>7. QED
      BY <3>5, <3>6
  <2>3. ASSUME NEW tip \in HotBid, SkipEffect(w, tip)
        PROVE  Keeps'
    <3>1. Carried(pass[w]) = Carried(pass'[w]) \cup {tip} /\ InRound(w)
      BY <2>3, SkipCarried DEF SkipEffect
    <3>2. ~Live(tip, pass[w].stamp)
      BY <2>3, PassTyped DEF SkipEffect, Live, Expired, HotBid
    <3>3. QED
      BY <3>1, <3>2, RoundKeeps
  <2>4. ASSUME NEW tip \in HotBid, MatchEffect(w, tip)
        PROVE  Keeps'
    <3>1. Carried(pass[w]) = Carried(pass'[w]) /\ InRound(w)
      BY <2>4, MatchCarried DEF MatchEffect
    <3>2. QED
      BY <3>1, RoundKeeps
  <2>5. ASSUME InsertEffect(w)
        PROVE  Keeps'
    <3>1. Carried(pass[w]) = Carried(pass'[w]) /\ InRound(w)
      BY <2>5, InsertCarried DEF InsertEffect
    <3>2. QED
      BY <3>1, RoundKeeps
  <2>6. ASSUME CommitEffect(w), fails = 0
        PROVE  Where' /\ All'
    <3>1. All /\ Where
      BY <2>6 DEF Keeps
    <3>2. /\ pass'[w] = Ended(pass[w]) /\ \A v \in Passes \ {w} : pass'[v] = pass[v]
          /\ UNCHANGED <<now, arrived, hotTasks>> /\ pass[w].pc = "matching"
      BY <2>6 DEF CommitEffect, Becomes
    <3>3. pass'[w].tasks = pass[w].tasks /\ pass'[w].pc = "ended"
      BY <3>2, PassTyped, EndedTyped
    <3>4. ASSUME NEW h \in HotBid, Live(h, now), h \in pass[w].tasks \/ h \in Hot \/ Paired(h)
          PROVE  h \in Hot' \/ Paired(h)'
      BY <2>6, <3>1, <3>4, CommitKeeps
    <3>5. Where'
      <4>1. Queued' = Queued
        BY <3>2 DEF Queued
      <4>2. arrived \subseteq HotBid
        BY DEF HotTypeOK
      <4>3. QED
        BY <3>1, <3>2, <3>4, <4>1, <4>2
    <3>6. ASSUME NEW v \in Passes
          PROVE  Accounts(pass[v])'
      <4>1. CASE v = w
        <5>1. \A h \in pass[w].tasks : Live(h, now) => h \in Hot' \/ Paired(h)'
          BY <3>4, PassTyped
        <5>2. QED
          BY <3>2, <3>3, <4>1, <5>1 DEF Accounts
      <4>2. CASE v # w
        <5>1. pass'[v] = pass[v] /\ pass[v].pc # "matching" /\ Accounts(pass[v])
          BY <3>1, <3>2, <4>2 DEF OneMatching
        <5>2. pass[v].pc = "ended" => \A h \in pass[v].tasks : Live(h, now) => h \in Hot' \/ Paired(h)'
          BY <3>4, <5>1, PassTyped DEF Accounts
        <5>3. QED
          BY <3>2, <5>1, <5>2 DEF Accounts
      <4>3. QED
        BY <4>1, <4>2
    <3>7. QED
      BY <3>5, <3>6
  <2>7. ASSUME FailEffect(w)
        PROVE  fails' # 0
    BY <2>7 DEF FailEffect, HotTypeOK
  <2>8. ASSUME DeleteEffect(w) \/ CrashEffect(w), fails = 0
        PROVE  Where' /\ All'
    <3>1. All /\ Where
      BY <2>8 DEF Keeps
    <3>2. /\ pass'[w] = Idle /\ \A v \in Passes \ {w} : pass'[v] = pass[v]
          /\ UNCHANGED <<now, arrived, zone, applyTasks>>
      BY <2>8 DEF DeleteEffect, CrashEffect, Becomes
    <3>3. Accounts(pass[w])'
      BY <3>2, IdleTyped DEF Accounts
    <3>4. All'
      BY <3>1, <3>2, <3>3, OthersKeep
    <3>5. Hot' = Hot /\ \A h : Paired(h)' <=> Paired(h)
      BY <3>2 DEF Hot, Paired
    <3>6. Where'
      <4>1. CASE CrashEffect(w)
        <5>1. Queued' = Queued
          BY <4>1 DEF CrashEffect, Queued
        <5>2. QED
          BY <3>1, <3>2, <5>1, WhereKept
      <4>2. CASE DeleteEffect(w)
        <5>1. \A h \in Queued : h \in Queued' \/ h \in pass[w].tasks
          BY <4>2 DEF DeleteEffect, Queued
        <5>2. \A h \in pass[w].tasks : Live(h, now) => h \in Hot \/ Paired(h)
          BY <3>1, <4>2 DEF DeleteEffect, Accounts
        <5>3. QED
          BY <3>1, <3>2, <3>5, <5>1, <5>2
      <4>3. QED
        BY <2>8, <4>1, <4>2
    <3>7. QED
      BY <3>4, <3>6
  <2>9. ASSUME fails' = fails, (fails = 0 => Where' /\ All')
        PROVE  Keeps'
    BY <2>9 DEF Keeps
  <2>10. CASE BeginEffect(w) \/ CommitEffect(w) \/ DeleteEffect(w) \/ CrashEffect(w)
               \/ \E tasks \in SUBSET hotTasks : LeaseEffect(w, tasks)
    <3>1. fails' = fails
      BY <2>10 DEF BeginEffect, CommitEffect, DeleteEffect, CrashEffect, LeaseEffect
    <3> HIDE DEF Where, All
    <3>2. QED
      BY <2>1, <2>2, <2>6, <2>8, <2>9, <2>10, <3>1
  <2>11. CASE FailEffect(w)
    BY <2>7, <2>11 DEF Keeps
  <2>12. QED
    BY <1>3, <2>3, <2>4, <2>5, <2>10, <2>11 DEF PassEffect
<1>4. ASSUME Tick, fails = 0
      PROVE  Where' /\ All'
  <2>1. /\ now' = now + 1 /\ UNCHANGED <<arrived, hotTasks, zone, pass, applyTasks>>
        /\ \A h \in HotBid : Live(h, now + 1) => Live(h, now)
    BY <1>4 DEF Tick, HotTypeOK, Live, HotBid
  <2>2. Queued' = Queued /\ Hot' = Hot /\ \A h : Paired(h)' <=> Paired(h)
    BY <2>1 DEF Queued, Hot, Paired
  <2>3. All /\ Where
    BY <1>4 DEF Keeps
  <2>4. arrived \subseteq HotBid
    BY DEF HotTypeOK
  <2>5. Where'
    BY <2>1, <2>2, <2>3, <2>4
  <2>6. ASSUME NEW w \in Passes
        PROVE  Accounts(pass[w])'
    <3>1. Accounts(pass[w]) /\ pass[w].tasks \subseteq HotBid
      BY <2>3, PassTyped
    <3>2. QED
      BY <2>1, <2>2, <3>1 DEF Accounts
  <2>7. QED
    BY <2>5, <2>6
<1>5. QED
  <2>1. ASSUME NEW b \in HotBid, Arrive(b)
        PROVE  Keeps'
    <3>1. fails' = fails
      BY <2>1 DEF Arrive
    <3>2. QED
      BY <1>2, <2>1, <3>1 DEF Keeps
  <2>2. CASE Tick
    <3>1. fails' = fails
      BY <2>2 DEF Tick
    <3>2. QED
      BY <1>4, <2>2, <3>1 DEF Keeps
  <2>3. QED
    BY <1>1, <1>3, <2>1, <2>2, StepIsEffect

\* Whatever crashes and whichever lease runs out, a live bid is in the pull
\* queue, in the hot zone or in a pair as long as no transaction failed.
THEOREM LiveBidsNeverLost == HotSpec => []NoLiveBidLost
<1> DEFINE Base == HotTypeOK /\ HotFinite /\ HotApart /\ Known /\ OneMatching /\ Keeps
<1>1. HotInit => Base
  BY HotInitTyped, HotInitApart, HotInitKnown, HotInitKeeps
<1>2. Base /\ [HotNext]_hotVars => Base'
  BY HotStepTyped, HotStepApart, HotStepKnown, HotStepKeeps
<1>3. Base => NoLiveBidLost
  <2> SUFFICES ASSUME Base, fails = 0, NEW h \in arrived, Live(h, now)
               PROVE  h \in Queued \cup Hot \cup InPair
    BY DEF NoLiveBidLost
  <2>1. h \in Queued \/ h \in Hot \/ Paired(h)
    BY DEF Keeps
  <2>2. QED
    BY <2>1, PairedIsPlaced DEF InPair
<1>4. QED
  BY <1>1, <1>2, <1>3, PTL DEF HotSpec

-----------------------------------------------------------------------------
(***************************************************************************)
(* HotZone: leases, as long as no handler died or outlasted its lease.     *)
(***************************************************************************)
\* A pass that has not begun has matched nothing.
NoPairsYet == \A w \in Passes : pass[w].pc \in {"idle", "leased"} => pass[w].matched = <<>>

\* A pass holds the tasks it leased, and no other pass does.
Holds(p) ==
  /\ p.tasks # {} => p.pc # "idle" /\ now < p.until
  /\ p.tasks \subseteq Queued
  /\ \A t \in hotTasks : t.bid \in p.tasks => t.free = p.until

Leases ==
  overruns = 0 =>
    /\ \A s, t \in hotTasks : s.bid = t.bid => s = t
    /\ \A w \in Passes : Holds(pass[w])
    /\ \A v, w \in Passes : v # w => pass[v].tasks \cap pass[w].tasks = {}

LEMMA HotInitLeases == HotInit => NoPairsYet /\ Leases
  BY IdleTyped DEF HotInit, NoPairsYet, Leases, Holds

\* A pass that steps and keeps its tasks.
LEMMA TasksKept ==
  ASSUME Leases, NEW w \in Passes, \A v \in Passes \ {w} : pass'[v] = pass[v],
         pass'[w].tasks = pass[w].tasks, pass'[w].until = pass[w].until, pass'[w].pc # "idle",
         UNCHANGED <<now, hotTasks, overruns>>
  PROVE  Leases'
<1>1. \A v \in Passes : /\ pass'[v].tasks = pass[v].tasks /\ pass'[v].until = pass[v].until
                        /\ pass'[v].pc = "idle" => pass[v].pc = "idle"
  OBVIOUS
<1>2. Queued' = Queued
  BY DEF Queued
<1>3. QED
  BY <1>1, <1>2 DEF Leases, Holds

LEMMA LeaseLeases ==
  ASSUME HotTypeOK, Leases, NEW w \in Passes, NEW tasks \in SUBSET hotTasks,
         LeaseEffect(w, tasks)
  PROVE  Leases'
<1> SUFFICES ASSUME overruns = 0
             PROVE  /\ \A s, t \in hotTasks' : s.bid = t.bid => s = t
                    /\ \A v \in Passes : Holds(pass[v])'
                    /\ \A u, v \in Passes : u # v => pass'[u].tasks \cap pass'[v].tasks = {}
  BY DEF Leases, LeaseEffect
<1>1. /\ \A s, t \in hotTasks : s.bid = t.bid => s = t
      /\ \A v \in Passes : Holds(pass[v])
      /\ \A u, v \in Passes : u # v => pass[u].tasks \cap pass[v].tasks = {}
  BY DEF Leases
<1>2. PICK until \in Nat : until = now + LeaseTime /\ now < until
  BY HotAssumption DEF HotTypeOK
<1>3. /\ pass'[w].tasks = {task.bid : task \in tasks} /\ pass'[w].until = until
      /\ pass'[w].pc = "leased" /\ now' = now
      /\ \A v \in Passes \ {w} : pass'[v] = pass[v]
  BY <1>2 DEF LeaseEffect, Becomes
<1>4. Queued' = Queued /\ pass'[w].tasks \subseteq Queued
  BY LeaseQueued
<1>5. ASSUME NEW t \in hotTasks'
      PROVE  \/ t \in hotTasks /\ t.bid \notin pass'[w].tasks
             \/ t.bid \in pass'[w].tasks /\ t.free = until /\ t = [bid |-> t.bid, free |-> until]
  <2>1. CASE t \in hotTasks \ tasks
    BY <1>1, <1>3, <2>1
  <2>2. CASE \E s \in tasks : t = [bid |-> s.bid, free |-> now + LeaseTime]
    BY <1>2, <1>3, <2>2
  <2>3. QED
    BY <2>1, <2>2, LeasedTasks
<1>6. ASSUME NEW s \in hotTasks', NEW t \in hotTasks', s.bid = t.bid
      PROVE  s = t
  BY <1>1, <1>5, <1>6
<1>7. ASSUME NEW v \in Passes, v # w
      PROVE  pass[v].tasks \cap pass'[w].tasks = {}
  <2> SUFFICES ASSUME NEW task \in tasks, task.bid \in pass[v].tasks
               PROVE  FALSE
    BY <1>3
  <2>1. task.free <= now /\ task \in hotTasks /\ task.free \in Nat
    BY DEF LeaseEffect, Available, HotTypeOK
  <2>2. task.free = pass[v].until /\ now < pass[v].until
    BY <1>1, <2>1 DEF Holds
  <2>3. QED
    BY <2>1, <2>2 DEF HotTypeOK
<1>8. ASSUME NEW v \in Passes
      PROVE  Holds(pass[v])'
  <2>1. CASE v = w
    BY <1>2, <1>3, <1>4, <1>5, <2>1 DEF Holds
  <2>2. CASE v # w
    <3>1. pass'[v] = pass[v] /\ Holds(pass[v])
      BY <1>1, <1>3, <2>2
    <3>2. \A t \in hotTasks' : t.bid \in pass[v].tasks => t.free = pass[v].until
      BY <1>5, <1>7, <2>2, <3>1 DEF Holds
    <3>3. QED
      BY <1>3, <1>4, <3>1, <3>2 DEF Holds
  <2>3. QED
    BY <2>1, <2>2
<1>9. \A u, v \in Passes : u # v => pass'[u].tasks \cap pass'[v].tasks = {}
  BY <1>1, <1>3, <1>7
<1>10. QED
  BY <1>6, <1>8, <1>9

LEMMA DeleteLeases ==
  ASSUME HotTypeOK, Leases, NEW w \in Passes, DeleteEffect(w)
  PROVE  Leases'
<1> SUFFICES ASSUME overruns = 0
             PROVE  /\ \A s, t \in hotTasks' : s.bid = t.bid => s = t
                    /\ \A v \in Passes : Holds(pass[v])'
                    /\ \A u, v \in Passes : u # v => pass'[u].tasks \cap pass'[v].tasks = {}
  BY DEF Leases, DeleteEffect
<1>1. /\ \A s, t \in hotTasks : s.bid = t.bid => s = t
      /\ \A v \in Passes : Holds(pass[v])
      /\ \A u, v \in Passes : u # v => pass[u].tasks \cap pass[v].tasks = {}
  BY DEF Leases
<1>2. /\ pass'[w].tasks = {} /\ now' = now
      /\ \A v \in Passes \ {w} : pass'[v] = pass[v]
      /\ hotTasks' = {task \in hotTasks : task.bid \notin pass[w].tasks}
  BY IdleTyped DEF DeleteEffect, Becomes
<1>3. ASSUME NEW v \in Passes
      PROVE  Holds(pass[v])'
  <2>1. CASE v = w
    BY <1>2, <2>1 DEF Holds
  <2>2. CASE v # w
    <3>1. pass'[v] = pass[v] /\ Holds(pass[v]) /\ pass[v].tasks \cap pass[w].tasks = {}
      BY <1>1, <1>2, <2>2
    <3>2. \A h \in Queued : h \notin pass[w].tasks => h \in Queued'
      BY <1>2 DEF Queued
    <3>3. pass[v].tasks \subseteq Queued'
      BY <3>1, <3>2 DEF Holds
    <3>4. QED
      BY <1>2, <3>1, <3>3 DEF Holds
  <2>3. QED
    BY <2>1, <2>2
<1>4. QED
  BY <1>1, <1>2, <1>3

LEMMA ArriveLeases ==
  ASSUME HotTypeOK, Known, Leases, NEW h \in HotBid, Arrive(h)
  PROVE  Leases' /\ h \notin arrived
<1>1. h \notin arrived
  BY DEF Arrive
<1>2. h \notin Queued /\ \A w \in Passes : h \notin pass[w].tasks
  BY <1>1 DEF Known
<1>3. /\ hotTasks' = hotTasks \cup {[bid |-> h, free |-> now]}
      /\ UNCHANGED <<now, pass, overruns>>
  BY DEF Arrive, AddHotTask
<1>4. \A t \in hotTasks' :
        \/ t \in hotTasks /\ t.bid # h
        \/ t = [bid |-> h, free |-> now] /\ t.bid = h
  BY <1>2, <1>3 DEF Queued
<1>5. Queued \subseteq Queued'
  BY <1>3 DEF Queued
<1>6. ASSUME overruns = 0, NEW w \in Passes
      PROVE  Holds(pass[w])'
  <2>1. Holds(pass[w])
    BY <1>6 DEF Leases
  <2>2. QED
    BY <1>2, <1>3, <1>4, <1>5, <2>1 DEF Holds
<1>7. QED
  BY <1>1, <1>3, <1>4, <1>6 DEF Leases

LEMMA TickLeases ==
  ASSUME HotTypeOK, Leases, Tick
  PROVE  Leases'
<1>1. UNCHANGED <<hotTasks, pass>> /\ now' = now + 1
  BY DEF Tick
<1>2. CASE overruns' = 0
  <2>1. overruns = 0 /\ \A w \in Passes : pass[w].tasks # {} => now + 1 < pass[w].until
    BY <1>2 DEF Tick, HotTypeOK
  <2>2. Queued' = Queued
    BY <1>1 DEF Queued
  <2>3. QED
    BY <1>1, <2>1, <2>2 DEF Leases, Holds
<1>3. QED
  BY <1>2 DEF Leases

LEMMA HotStepLeases ==
  ASSUME HotTypeOK, HotFinite, Known, NoPairsYet, Leases, [HotNext]_hotVars
  PROVE  Leases' /\ NoPairsYet'
<1>1. CASE UNCHANGED hotVars
  BY <1>1 DEF hotVars, Leases, Holds, NoPairsYet, Queued
<1>2. ASSUME NEW h \in HotBid, Arrive(h)
      PROVE  Leases' /\ NoPairsYet'
  <2>1. NoPairsYet'
    BY <1>2 DEF Arrive, NoPairsYet
  <2>2. QED
    BY <1>2, <2>1, ArriveLeases
<1>3. ASSUME NEW w \in Passes, PassEffect(w)
      PROVE  Leases' /\ NoPairsYet'
  <2>0. ASSUME \A v \in Passes \ {w} : pass'[v] = pass[v],
               pass'[w].pc \in {"idle", "leased"} => pass'[w].matched = <<>>
        PROVE  NoPairsYet'
    BY <2>0 DEF NoPairsYet
  <2>1. ASSUME NEW tasks \in SUBSET hotTasks, LeaseEffect(w, tasks)
        PROVE  Leases' /\ NoPairsYet'
    <3>1. NoPairsYet'
      BY <2>0, <2>1 DEF LeaseEffect, Becomes
    <3>2. QED
      BY <2>1, <3>1, LeaseLeases
  <2>2. CASE BeginEffect(w)
    <3>1. NoPairsYet'
      BY <2>0, <2>2 DEF BeginEffect, Becomes
    <3>2. Leases'
      BY <2>2, TasksKept DEF BeginEffect, Becomes
    <3>3. QED
      BY <3>1, <3>2
  <2>3. CASE InRound(w)
    <3>1. NoPairsYet'
      BY <2>0, <2>3 DEF InRound
    <3>2. Leases'
      BY <2>3, TasksKept DEF InRound
    <3>3. QED
      BY <3>1, <3>2
  <2>4. CASE CommitEffect(w) \/ FailEffect(w)
    <3>1. /\ \A v \in Passes \ {w} : pass'[v] = pass[v]
          /\ pass'[w].tasks = pass[w].tasks /\ pass'[w].until = pass[w].until
          /\ pass'[w].pc = "ended"
          /\ UNCHANGED <<now, hotTasks, overruns>>
      BY <2>4, PassTyped, EndedTyped DEF CommitEffect, FailEffect, Becomes
    <3>2. NoPairsYet'
      BY <2>0, <3>1
    <3>3. QED
      BY <3>1, <3>2, TasksKept
  <2>5. CASE DeleteEffect(w)
    <3>1. NoPairsYet'
      BY <2>0, <2>5, IdleTyped DEF DeleteEffect, Becomes
    <3>2. QED
      BY <2>5, <3>1, DeleteLeases
  <2>6. CASE CrashEffect(w)
    <3>1. NoPairsYet'
      BY <2>0, <2>6, IdleTyped DEF CrashEffect, Becomes
    <3>2. overruns' # 0
      BY <2>6 DEF CrashEffect, HotTypeOK
    <3>3. QED
      BY <3>1, <3>2 DEF Leases
  <2>7. QED
    BY <1>3, <2>1, <2>2, <2>3, <2>4, <2>5, <2>6 DEF PassEffect, SkipEffect, MatchEffect, InsertEffect
<1>4. CASE Tick
  <2>1. NoPairsYet'
    BY <1>4 DEF Tick, NoPairsYet
  <2>2. QED
    BY <1>4, <2>1, TickLeases
<1>5. QED
  BY <1>1, <1>2, <1>3, <1>4, StepIsEffect

-----------------------------------------------------------------------------
(***************************************************************************)
(* HotZone: no bid is stored or matched twice.                             *)
(***************************************************************************)
StoredOf(p) == Range(p.queue["BUY"].stored) \cup Range(p.queue["SELL"].stored)

\* In a running transaction every bid is to come, in a queue or in one pair.
MatchesOnce(p) ==
  /\ StoredOf(p) \subseteq zone
  /\ \A type \in Sides : Distinct(p.queue[type].stored)
  /\ CachedBids(p) \subseteq p.tasks
  /\ CachedBids(p) \cap Range(p.todo) = {}
  /\ MatchedBids(p.matched) \cap (Range(p.todo) \cup InQueues(p)) = {}
  /\ MatchedBids(p.matched) \subseteq p.tasks \cup Hot
  /\ \A i, j \in DOMAIN p.matched : Both(p.matched[i]) \cap Both(p.matched[j]) # {} => i = j

PassOnce(p) ==
  /\ p.pc \in {"leased", "matching"} => Distinct(p.todo) /\ Range(p.todo) \subseteq p.tasks
  /\ p.pc = "matching" => MatchesOnce(p)

\* A bid has at most one place in the pairs.
PairedOnce(h) ==
  \A s, t \in applyTasks : \A i \in DOMAIN s.matched, j \in DOMAIN t.matched :
    h \in Both(s.matched[i]) /\ h \in Both(t.matched[j]) => s = t /\ i = j

\* The tasks of h are about to be deleted.
Done(h) == \E w \in Passes : pass[w].pc = "ended" /\ h \in pass[w].tasks

InOnePlace ==
  overruns = 0 =>
    /\ \A h \in Queued : Done(h) \/ (h \notin Hot /\ ~Paired(h))
    /\ \A h \in HotBid : PairedOnce(h)
    /\ \A d, e \in zone : d.bid = e.bid => d = e
    /\ \A h \in Hot : ~Paired(h)
    /\ \A w \in Passes : PassOnce(pass[w])

\* A bid that a pass leased and has yet to bring in is neither stored nor matched.
LEMMA LeasedIsNew ==
  ASSUME overruns = 0, Leases, InOnePlace, NEW w \in Passes, pass[w].pc # "ended",
         NEW h \in pass[w].tasks
  PROVE  h \notin Hot /\ ~Paired(h)
<1>1. h \in Queued
  BY DEF Leases, Holds
<1>2. ~Done(h)
  BY DEF Leases, Done
<1>3. QED
  BY <1>1, <1>2 DEF InOnePlace

\* The candidates of a running transaction are stored or were leased.
LEMMA QueuesOnce ==
  ASSUME HotTypeOK, NEW w \in Passes, MatchesOnce(pass[w])
  PROVE  /\ InQueues(pass[w]) \subseteq Hot \cup pass[w].tasks
         /\ \A type \in Sides :
              /\ Range(pass[w].queue[type].stored) \subseteq zone
              /\ pass[w].queue[type].cached \subseteq pass[w].tasks
<1>1. ASSUME NEW type \in Sides
      PROVE  /\ Range(pass[w].queue[type].stored) \subseteq zone
             /\ pass[w].queue[type].cached \subseteq pass[w].tasks
  BY DEF MatchesOnce, StoredOf, CachedBids, Sides
<1>2. ASSUME NEW type \in Sides
      PROVE  Candidates(pass[w].queue[type]) \subseteq Hot \cup pass[w].tasks
  BY <1>1 DEF Candidates, Hot
<1>3. QED
  BY <1>1, <1>2 DEF InQueues, Sides

\* What a match or an expiry takes off a queue is not left in it.
LEMMA TipTakenOnce ==
  ASSUME HotTypeOK, overruns = 0, Leases, InOnePlace, NEW w \in Passes, InRound(w)
  PROVE  Once(OtherQueue(w))
<1>1. Facing(w) \in Sides /\ OtherQueue(w) = pass[w].queue[Facing(w)]
  BY IncomingTyped DEF Facing, OtherQueue, InRound, Matching
<1>2. MatchesOnce(pass[w]) /\ pass[w].pc # "ended"
  BY DEF InOnePlace, PassOnce, InRound
<1> DEFINE q == OtherQueue(w)
<1>3. Distinct(q.stored) /\ Range(q.stored) \subseteq zone /\ q.cached \subseteq pass[w].tasks
  BY <1>1, <1>2, QueuesOnce DEF MatchesOnce
<1>4. \A d, e \in zone : d.bid = e.bid => d = e
  BY DEF InOnePlace
<1>5. \A e \in Range(q.stored) : e.bid \notin q.cached
  BY <1>2, <1>3, LeasedIsNew DEF Hot
<1>6. QED
  BY <1>3, <1>4, <1>5 DEF Once

\* The queues of a round's end, when one of them was popped.
LEMMA PoppedOnce ==
  ASSUME HotTypeOK, NEW w \in Passes, InRound(w), MatchesOnce(pass[w]),
         NEW tip \in Tips(OtherQueue(w)),
         QueueBecomes(w, Facing(w), Popped(OtherQueue(w), tip))
  PROVE  /\ StoredOf(pass'[w]) \subseteq zone
         /\ \A type \in Sides : Distinct(pass'[w].queue[type].stored)
         /\ CachedBids(pass'[w]) \subseteq CachedBids(pass[w])
<1>1. \A type \in Sides :
        /\ Range(pass'[w].queue[type].stored) \subseteq Range(pass[w].queue[type].stored)
        /\ pass'[w].queue[type].cached \subseteq pass[w].queue[type].cached
        /\ Distinct(pass[w].queue[type].stored) => Distinct(pass'[w].queue[type].stored)
  BY PoppedInQueues
<1>2. "BUY" \in Sides /\ "SELL" \in Sides
  BY DEF Sides
<1>3. StoredOf(pass'[w]) \subseteq StoredOf(pass[w]) /\ CachedBids(pass'[w]) \subseteq CachedBids(pass[w])
  BY <1>1, <1>2 DEF StoredOf, CachedBids
<1>4. QED
  BY <1>1, <1>3 DEF MatchesOnce

LEMMA SkipOnce ==
  ASSUME HotTypeOK, NEW w \in Passes, PassOnce(pass[w]), NEW tip \in HotBid, SkipEffect(w, tip)
  PROVE  PassOnce(pass[w])'
<1>1. /\ InRound(w) /\ pass[w].pc = "matching" /\ pass'[w].tasks = pass[w].tasks /\ zone' = zone
      /\ pass'[w].todo = pass[w].todo /\ pass'[w].matched = pass[w].matched
      /\ tip \in Tips(OtherQueue(w))
      /\ QueueBecomes(w, Facing(w), Popped(OtherQueue(w), tip))
  BY DEF SkipEffect, InRound
<1>2. MatchesOnce(pass[w]) /\ Distinct(pass[w].todo) /\ Range(pass[w].todo) \subseteq pass[w].tasks
  BY <1>1 DEF PassOnce
<1>3. InQueues(pass'[w]) \subseteq InQueues(pass[w])
  BY <1>1, PoppedInQueues
<1>4. /\ StoredOf(pass'[w]) \subseteq zone
      /\ \A type \in Sides : Distinct(pass'[w].queue[type].stored)
      /\ CachedBids(pass'[w]) \subseteq CachedBids(pass[w])
  BY <1>1, <1>2, PoppedOnce
<1>5. Hot' = Hot
  BY <1>1 DEF Hot
<1>6. MatchesOnce(pass[w])'
  BY <1>1, <1>2, <1>3, <1>4, <1>5 DEF MatchesOnce
<1>7. QED
  BY <1>1, <1>2, <1>6 DEF PassOnce

\* The first incoming bid is in no queue and in no pair.
LEMMA IncomingIsNew ==
  ASSUME HotTypeOK, overruns = 0, Leases, InOnePlace, NEW w \in Passes, InRound(w)
  PROVE  /\ Incoming(w) \in pass[w].tasks
         /\ Incoming(w) \notin Range(Tail(pass[w].todo)) /\ Distinct(Tail(pass[w].todo))
         /\ Range(Tail(pass[w].todo)) \subseteq Range(pass[w].todo)
         /\ Incoming(w) \in Range(pass[w].todo)
         /\ Incoming(w) \notin InQueues(pass[w])
         /\ Incoming(w) \notin MatchedBids(pass[w].matched)
<1>1. Matching(w) /\ pass[w].pc = "matching"
  BY DEF InRound, Matching
<1>2. /\ MatchesOnce(pass[w]) /\ Distinct(pass[w].todo)
      /\ Range(pass[w].todo) \subseteq pass[w].tasks
  BY <1>1 DEF InOnePlace, PassOnce
<1>3. /\ Range(pass[w].todo) = {Incoming(w)} \cup Range(Tail(pass[w].todo))
      /\ Incoming(w) \notin Range(Tail(pass[w].todo)) /\ Distinct(Tail(pass[w].todo))
  BY <1>1, <1>2, TodoShrinks
<1>4. Incoming(w) \in pass[w].tasks
  BY <1>2, <1>3
<1>5. Incoming(w) \notin Hot
  BY <1>1, <1>4, LeasedIsNew
<1>6. Incoming(w) \notin CachedBids(pass[w])
  BY <1>2, <1>3 DEF MatchesOnce
<1>7. Incoming(w) \notin {e.bid : e \in StoredOf(pass[w])}
  BY <1>2, <1>5 DEF MatchesOnce, Hot
<1>8. Incoming(w) \notin InQueues(pass[w])
  BY <1>6, <1>7 DEF InQueues, Candidates, CachedBids, StoredOf
<1>9. QED
  BY <1>2, <1>3, <1>4, <1>8 DEF MatchesOnce

LEMMA MatchOnce ==
  ASSUME HotTypeOK, overruns = 0, Leases, InOnePlace, NEW w \in Passes,
         NEW tip \in HotBid, MatchEffect(w, tip)
  PROVE  PassOnce(pass[w])'
<1> DEFINE i == Incoming(w)
           p == pass[w]
           r == pass'[w]
<1>1. /\ InRound(w) /\ p.pc = "matching" /\ r.tasks = p.tasks /\ zone' = zone
      /\ r.todo = Tail(p.todo) /\ r.matched = Append(p.matched, <<i, tip>>)
      /\ tip \in Tips(OtherQueue(w))
      /\ QueueBecomes(w, Facing(w), Popped(OtherQueue(w), tip))
  BY DEF MatchEffect, InRound
<1>2. MatchesOnce(p) /\ Distinct(p.todo) /\ Range(p.todo) \subseteq p.tasks
  BY <1>1 DEF InOnePlace, PassOnce
<1>3. /\ i \in p.tasks /\ i \notin Range(r.todo) /\ Distinct(r.todo)
      /\ Range(r.todo) \subseteq Range(p.todo)
      /\ i \in Range(p.todo) /\ i \notin InQueues(p) /\ i \notin MatchedBids(p.matched)
  BY <1>1, IncomingIsNew
<1>4. /\ InQueues(p) = InQueues(r) \cup {tip} /\ tip \notin InQueues(r)
      /\ \A type \in Sides :
           /\ Range(r.queue[type].stored) \subseteq Range(p.queue[type].stored)
           /\ r.queue[type].cached \subseteq p.queue[type].cached
  BY <1>1, PoppedInQueues, TipTakenOnce
<1>5. /\ StoredOf(r) \subseteq zone
      /\ \A type \in Sides : Distinct(r.queue[type].stored)
      /\ CachedBids(r) \subseteq CachedBids(p)
  BY <1>1, <1>2, PoppedOnce
<1>6. MatchedBids(r.matched) = MatchedBids(p.matched) \cup {i, tip}
  BY MatchedPair
<1>7. tip \in InQueues(p) /\ tip \in Hot \cup p.tasks
  BY <1>2, <1>4, QueuesOnce
<1>8. tip \notin Range(p.todo)
  <2>1. ASSUME tip \in Range(p.todo)
        PROVE  FALSE
    <3>1. tip \in p.tasks /\ tip \notin Hot
      BY <1>1, <1>2, <2>1, LeasedIsNew
    <3>2. tip \notin {e.bid : e \in StoredOf(p)}
      BY <1>2, <3>1 DEF MatchesOnce, Hot
    <3>3. tip \in CachedBids(p)
      BY <1>7, <3>2 DEF InQueues, Candidates, CachedBids, StoredOf
    <3>4. QED
      BY <1>2, <2>1, <3>3 DEF MatchesOnce
  <2>2. QED
    BY <2>1
<1>9. /\ i \in HotBid /\ p.matched \in Seq(Pair)
  BY <1>1, IncomingTyped, PassTyped DEF InRound, Matching
<1>10. PICK n : n = Len(p.matched) + 1
  OBVIOUS
<1>11. /\ DOMAIN r.matched = DOMAIN p.matched \cup {n}
       /\ r.matched[n] = <<i, tip>>
       /\ \A j \in DOMAIN p.matched : r.matched[j] = p.matched[j]
  <2>1. <<i, tip>> \in Pair
    BY <1>9 DEF Pair
  <2>2. QED
    BY <1>1, <1>9, <1>10, <2>1, Appended
<1> HIDE DEF i, p, r
<1>12. Both(r.matched[n]) = {i, tip}
  BY <1>11 DEF Both
<1>13. ASSUME NEW j \in DOMAIN p.matched
       PROVE  Both(r.matched[j]) \subseteq MatchedBids(p.matched) /\ Both(r.matched[j]) \cap {i, tip} = {}
  <2>1. Both(r.matched[j]) \subseteq MatchedBids(p.matched)
    BY <1>11 DEF MatchedBids
  <2>2. i \notin MatchedBids(p.matched) /\ tip \notin MatchedBids(p.matched)
    BY <1>2, <1>3, <1>7 DEF MatchesOnce
  <2>3. QED
    BY <2>1, <2>2
<1>14. \A j, k \in DOMAIN r.matched : Both(r.matched[j]) \cap Both(r.matched[k]) # {} => j = k
  <2>1. ASSUME NEW j \in DOMAIN r.matched, NEW k \in DOMAIN r.matched,
               Both(r.matched[j]) \cap Both(r.matched[k]) # {}
        PROVE  j = k
    <3>1. CASE j \in DOMAIN p.matched /\ k \in DOMAIN p.matched
      BY <1>2, <1>11, <2>1, <3>1 DEF MatchesOnce
    <3>2. CASE j = n /\ k = n
      BY <3>2
    <3>3. CASE j \in DOMAIN p.matched /\ k = n
      BY <1>12, <1>13, <2>1, <3>3
    <3>4. CASE j = n /\ k \in DOMAIN p.matched
      BY <1>12, <1>13, <2>1, <3>4
    <3>5. QED
      BY <1>11, <3>1, <3>2, <3>3, <3>4
  <2>2. QED
    BY <2>1
<1>15. MatchedBids(r.matched) \cap (Range(r.todo) \cup InQueues(r)) = {}
  BY <1>2, <1>3, <1>4, <1>6, <1>8 DEF MatchesOnce
<1>16. MatchedBids(r.matched) \subseteq r.tasks \cup Hot
  BY <1>1, <1>2, <1>3, <1>6, <1>7 DEF MatchesOnce, p, r
<1>17. CachedBids(r) \subseteq r.tasks /\ CachedBids(r) \cap Range(r.todo) = {}
  BY <1>1, <1>2, <1>3, <1>5 DEF MatchesOnce, p, r
<1>18. Hot' = Hot
  BY <1>1 DEF Hot
<1>19. MatchesOnce(pass[w])'
  BY <1>1, <1>5, <1>14, <1>15, <1>16, <1>17, <1>18 DEF MatchesOnce, r
<1>20. Distinct(r.todo) /\ Range(r.todo) \subseteq r.tasks
  BY <1>1, <1>2, <1>3 DEF p, r
<1>21. QED
  BY <1>19, <1>20 DEF PassOnce, r

LEMMA InsertOnce ==
  ASSUME HotTypeOK, overruns = 0, Leases, InOnePlace, NEW w \in Passes, InsertEffect(w)
  PROVE  PassOnce(pass[w])'
<1> DEFINE i == Incoming(w)
           p == pass[w]
           r == pass'[w]
<1>1. /\ InRound(w) /\ p.pc = "matching" /\ r.tasks = p.tasks /\ zone' = zone
      /\ r.todo = Tail(p.todo) /\ r.matched = p.matched
  BY DEF InsertEffect, InRound
<1>2. MatchesOnce(p) /\ Distinct(p.todo) /\ Range(p.todo) \subseteq p.tasks
  BY <1>1 DEF InOnePlace, PassOnce
<1>3. /\ i \in p.tasks /\ i \notin Range(r.todo) /\ Distinct(r.todo)
      /\ Range(r.todo) \subseteq Range(p.todo)
      /\ i \in Range(p.todo) /\ i \notin MatchedBids(p.matched)
  BY <1>1, IncomingIsNew
<1>4. /\ InQueues(r) = InQueues(p) \cup {i}
      /\ \A type \in Sides :
           /\ r.queue[type].stored = p.queue[type].stored
           /\ r.queue[type].cached \subseteq p.queue[type].cached \cup {i}
  BY InsertedInQueues
<1> HIDE DEF i, p, r
<1>5. /\ StoredOf(r) = StoredOf(p) /\ CachedBids(r) \subseteq CachedBids(p) \cup {i}
      /\ \A type \in Sides : Distinct(r.queue[type].stored)
  BY <1>2, <1>4 DEF StoredOf, CachedBids, Sides, MatchesOnce
<1>6. CachedBids(r) \subseteq p.tasks /\ CachedBids(r) \cap Range(r.todo) = {}
  BY <1>2, <1>3, <1>5 DEF MatchesOnce
<1>7. MatchedBids(p.matched) \cap (Range(r.todo) \cup InQueues(r)) = {}
  BY <1>2, <1>3, <1>4 DEF MatchesOnce
<1>8. Hot' = Hot
  BY <1>1 DEF Hot
<1>9. MatchesOnce(pass[w])'
  BY <1>1, <1>2, <1>5, <1>6, <1>7, <1>8 DEF MatchesOnce, p, r
<1>10. Distinct(r.todo) /\ Range(r.todo) \subseteq r.tasks
  BY <1>1, <1>2, <1>3 DEF p, r
<1>11. QED
  BY <1>9, <1>10 DEF PassOnce, r

LEMMA BeginOnce ==
  ASSUME HotTypeOK, NoPairsYet, NEW w \in Passes, PassOnce(pass[w]), BeginEffect(w)
  PROVE  PassOnce(pass[w])'
<1>1. Distinct(pass[w].todo) /\ Range(pass[w].todo) \subseteq pass[w].tasks
  BY DEF PassOnce, BeginEffect
<1>2. pass'[w].matched = <<>>
  BY DEF NoPairsYet, BeginEffect
<1>3. MatchedBids(pass'[w].matched) = {} /\ DOMAIN pass'[w].matched = {}
  BY <1>2 DEF MatchedBids
<1>4. CachedBids(pass'[w]) = {}
  BY DEF BeginEffect, CachedBids, Sides
<1>5. /\ StoredOf(pass'[w]) \subseteq zone
      /\ \A type \in Sides : Distinct(pass'[w].queue[type].stored)
  BY DEF BeginEffect, StoredOf, Sides
<1>6. zone' = zone
  BY DEF BeginEffect
<1>7. MatchesOnce(pass[w])'
  BY <1>3, <1>4, <1>5, <1>6 DEF MatchesOnce
<1>8. QED
  BY <1>1, <1>7 DEF PassOnce, BeginEffect

\* Another pass than the one that steps, which leaves the hot zone alone.
LEMMA OthersOnce ==
  ASSUME NEW w \in Passes, \A v \in Passes : PassOnce(pass[v]),
         \A v \in Passes \ {w} : pass'[v] = pass[v], zone' = zone, PassOnce(pass[w])'
  PROVE  \A v \in Passes : PassOnce(pass[v])'
<1>1. ASSUME NEW v \in Passes, v # w
      PROVE  PassOnce(pass[v])'
  <2>1. pass'[v] = pass[v] /\ PassOnce(pass[v])
    BY <1>1
  <2>2. Hot' = Hot
    BY DEF Hot
  <2>3. QED
    BY <2>1, <2>2 DEF PassOnce, MatchesOnce
<1>2. QED
  BY <1>1

\* A step of a pass that leaves hot zone and pairs alone.
LEMMA SamePlaces ==
  ASSUME InOnePlace, NEW w \in Passes, \A v \in Passes \ {w} : pass'[v] = pass[v],
         UNCHANGED <<zone, applyTasks>>, overruns' = 0 => overruns = 0,
         Queued' \subseteq Queued,
         \A h \in Queued' : h \in pass[w].tasks /\ pass[w].pc = "ended"
                              => h \in pass'[w].tasks /\ pass'[w].pc = "ended",
         overruns = 0 => PassOnce(pass[w])'
  PROVE  InOnePlace'
<1> SUFFICES ASSUME overruns = 0, overruns' = 0
             PROVE  /\ \A h \in Queued' : Done(h)' \/ (h \notin Hot' /\ ~Paired(h)')
                    /\ \A h \in HotBid : PairedOnce(h)'
                    /\ \A d, e \in zone' : d.bid = e.bid => d = e
                    /\ \A h \in Hot' : ~Paired(h)'
                    /\ \A v \in Passes : PassOnce(pass[v])'
  BY DEF InOnePlace
<1>1. /\ Hot' = Hot /\ \A h : Paired(h)' <=> Paired(h)
      /\ \A h : PairedOnce(h)' <=> PairedOnce(h)
  BY DEF Hot, Paired, PairedOnce
<1>2. ASSUME NEW h \in Queued'
      PROVE  Done(h)' \/ (h \notin Hot' /\ ~Paired(h)')
  <2>1. h \in Queued
    OBVIOUS
  <2>2. Done(h) => Done(h)'
    BY DEF Done
  <2>3. QED
    BY <1>1, <2>1, <2>2 DEF InOnePlace
<1>3. \A v \in Passes : PassOnce(pass[v])'
  BY OthersOnce DEF InOnePlace
<1>4. QED
  BY <1>1, <1>2, <1>3 DEF InOnePlace

\* Committing puts every bid of the transaction in one place.
LEMMA CommitOnce ==
  ASSUME HotTypeOK, HotFinite, overruns = 0, OneMatching, Leases, InOnePlace,
         NEW w \in Passes, CommitEffect(w)
  PROVE  InOnePlace'
<1> DEFINE p == pass[w]
           M == MatchedBids(p.matched)
<1>1. /\ p.pc = "matching" /\ pass'[w] = Ended(p) /\ \A v \in Passes \ {w} : pass'[v] = pass[v]
      /\ zone' = Remaining(p) \cup Persisted(p)
      /\ UNCHANGED <<hotTasks, overruns>>
  BY DEF CommitEffect, Becomes
<1>2. pass'[w].pc = "ended" /\ pass'[w].tasks = p.tasks
  BY <1>1, PassTyped, EndedTyped
<1>3. MatchesOnce(p)
  BY <1>1 DEF InOnePlace, PassOnce
<1>4. \A h \in p.tasks : h \notin Hot /\ ~Paired(h)
  BY <1>1, LeasedIsNew
<1>5. /\ Hot' \subseteq InQueues(p) /\ InQueues(p) \subseteq Hot \cup p.tasks
      /\ M \subseteq p.tasks \cup Hot /\ M \cap InQueues(p) = {}
  BY <1>3, CommitCarried, QueuesOnce DEF MatchesOnce
<1>6. \A h \in Hot \cup p.tasks : ~Paired(h)
  BY <1>4 DEF InOnePlace
<1>7. \A h : Paired(h)' <=> Paired(h) \/ h \in M
  BY CommitPairs
<1>8. ASSUME NEW h \in Hot'
      PROVE  ~Paired(h)'
  BY <1>5, <1>6, <1>7
<1>9. ASSUME NEW h \in Queued'
      PROVE  Done(h)' \/ (h \notin Hot' /\ ~Paired(h)')
  <2>1. h \in Queued
    BY <1>1 DEF Queued
  <2>2. CASE h \in p.tasks
    BY <1>2, <2>2 DEF Done
  <2>3. CASE h \notin p.tasks /\ Done(h)
    <3>1. PICK v \in Passes : pass[v].pc = "ended" /\ h \in pass[v].tasks
      BY <2>3 DEF Done
    <3>2. pass'[v] = pass[v]
      BY <1>1, <3>1
    <3>3. QED
      BY <3>1, <3>2 DEF Done
  <2>4. CASE h \notin p.tasks /\ ~Done(h)
    <3>1. h \notin Hot /\ ~Paired(h)
      BY <2>1, <2>4 DEF InOnePlace
    <3>2. QED
      BY <1>5, <1>7, <2>4, <3>1
  <2>5. QED
    BY <2>2, <2>3, <2>4
<1>10. ASSUME NEW d \in zone', NEW e \in zone', d.bid = e.bid
       PROVE  d = e
  <2>1. Remaining(p) \subseteq zone
    BY <1>3 DEF MatchesOnce, Remaining, StoredOf
  <2>2. \A x \in Persisted(p) : x.bid \in CachedBids(p)
    BY PersistedNew
  <2>3. \A x \in Remaining(p), y \in Persisted(p) : x.bid # y.bid
    BY <1>3, <1>4, <2>1, <2>2 DEF MatchesOnce, Hot
  <2>4. CASE d \in Remaining(p) /\ e \in Remaining(p)
    BY <1>10, <2>1, <2>4 DEF InOnePlace
  <2>5. CASE d \in Persisted(p) /\ e \in Persisted(p)
    BY <1>10, <2>5, PersistedNew
  <2>6. QED
    BY <1>1, <1>10, <2>3, <2>4, <2>5
<1>11. ASSUME NEW h \in HotBid
       PROVE  PairedOnce(h)'
  <2> DEFINE new == [stamp |-> p.stamp, matched |-> p.matched, placed |-> CachedBids(p)]
  <2>1. PairedOnce(h)
    BY DEF InOnePlace
  <2>2. CASE applyTasks' = applyTasks
    BY <2>1, <2>2 DEF PairedOnce
  <2>3. CASE applyTasks' = applyTasks \cup {new}
    <3>1. new.matched = p.matched
      OBVIOUS
    <3> HIDE DEF new
    <3>2. ASSUME NEW s \in applyTasks', NEW t \in applyTasks', NEW i \in DOMAIN s.matched,
                 NEW j \in DOMAIN t.matched, h \in Both(s.matched[i]), h \in Both(t.matched[j])
          PROVE  s = t /\ i = j
      <4>1. h \in MatchedBids(s.matched) /\ h \in MatchedBids(t.matched)
        BY <3>2 DEF MatchedBids
      <4>2. CASE s \in applyTasks /\ t \in applyTasks
        BY <2>1, <3>2, <4>2 DEF PairedOnce
      <4>3. CASE s = new /\ t = new
        <5>1. Both(p.matched[i]) \cap Both(p.matched[j]) # {} /\ i \in DOMAIN p.matched /\ j \in DOMAIN p.matched
          BY <3>1, <3>2, <4>3
        <5>2. QED
          BY <1>3, <4>3, <5>1 DEF MatchesOnce
      <4>4. CASE (s = new /\ t \in applyTasks) \/ (t = new /\ s \in applyTasks)
        <5>1. h \in M /\ Paired(h)
          BY <3>1, <4>1, <4>4 DEF Paired
        <5>2. QED
          BY <1>5, <1>6, <5>1
      <4>5. QED
        BY <2>3, <4>2, <4>3, <4>4
    <3>3. QED
      BY <3>2 DEF PairedOnce
  <2>4. QED
    BY <2>2, <2>3 DEF CommitEffect
<1>12. ASSUME NEW v \in Passes
       PROVE  PassOnce(pass[v])'
  <2>1. CASE v = w
    BY <1>2, <2>1 DEF PassOnce
  <2>2. CASE v # w
    <3>1. pass'[v] = pass[v] /\ pass[v].pc # "matching" /\ PassOnce(pass[v])
      BY <1>1, <2>2 DEF OneMatching, InOnePlace
    <3>2. QED
      BY <3>1 DEF PassOnce
  <2>3. QED
    BY <2>1, <2>2
<1> HIDE DEF p, M
<1>13. QED
  BY <1>8, <1>9, <1>10, <1>11, <1>12 DEF InOnePlace

LEMMA ArriveOnce ==
  ASSUME HotTypeOK, Known, InOnePlace, NEW b \in HotBid, Arrive(b)
  PROVE  InOnePlace'
<1>1. /\ hotTasks' = hotTasks \cup {[bid |-> b, free |-> now]}
      /\ UNCHANGED <<zone, pass, applyTasks, overruns>> /\ b \notin arrived
  BY DEF Arrive, AddHotTask
<1>2. /\ Hot' = Hot /\ \A h : Paired(h)' <=> Paired(h)
      /\ \A h : PairedOnce(h)' <=> PairedOnce(h)
      /\ \A h : Done(h)' <=> Done(h)
  BY <1>1 DEF Hot, Paired, PairedOnce, Done
<1>3. b \notin Hot /\ ~Paired(b)
  BY <1>1 DEF Known, Paired
<1>4. Queued' \subseteq Queued \cup {b}
  BY <1>1 DEF Queued
<1>5. CASE overruns = 0
  <2>1. \A w \in Passes : PassOnce(pass[w])'
    BY <1>1, <1>2, <1>5 DEF InOnePlace, PassOnce, MatchesOnce
  <2>2. QED
    BY <1>1, <1>2, <1>3, <1>4, <1>5, <2>1 DEF InOnePlace
<1>6. QED
  BY <1>1, <1>5 DEF InOnePlace

LEMMA HotInitOnce == HotInit => InOnePlace
<1> SUFFICES ASSUME HotInit PROVE InOnePlace
  OBVIOUS
<1>1. \A w \in Passes : PassOnce(pass[w])
  BY IdleTyped DEF HotInit, PassOnce
<1>2. QED
  BY <1>1 DEF HotInit, InOnePlace, Queued, Hot, Paired, PairedOnce

LEMMA HotStepOnce ==
  ASSUME HotTypeOK, HotFinite, Known, OneMatching, NoPairsYet, Leases, InOnePlace,
         [HotNext]_hotVars
  PROVE  InOnePlace'
<1>1. CASE UNCHANGED hotVars \/ Tick
  <2>1. UNCHANGED <<hotTasks, zone, pass, applyTasks>>
    BY <1>1 DEF hotVars, Tick
  <2>2. overruns' = 0 => overruns = 0
    BY <1>1 DEF hotVars, Tick, HotTypeOK
  <2>3. QED
    BY <2>1, <2>2 DEF InOnePlace, Queued, Hot, Paired, PairedOnce, Done, PassOnce, MatchesOnce
<1>2. ASSUME NEW h \in HotBid, Arrive(h)
      PROVE  InOnePlace'
  BY <1>2, ArriveOnce
<1>3. ASSUME NEW w \in Passes, PassEffect(w)
      PROVE  InOnePlace'
  <2>0. overruns = 0 => PassOnce(pass[w])
    BY DEF InOnePlace
  <2>1. ASSUME NEW tasks \in SUBSET hotTasks, LeaseEffect(w, tasks)
        PROVE  InOnePlace'
    <3>1. PassOnce(pass[w])'
      BY <2>1 DEF LeaseEffect, PassOnce
    <3>2. Queued' = Queued
      BY <2>1, LeaseQueued
    <3>3. QED
      BY <2>1, <3>1, <3>2, SamePlaces DEF LeaseEffect, Becomes
  <2>2. CASE BeginEffect(w)
    <3>1. overruns = 0 => PassOnce(pass[w])'
      BY <2>0, <2>2, BeginOnce
    <3>2. Queued' = Queued
      BY <2>2 DEF BeginEffect, Queued
    <3>3. QED
      BY <2>2, <3>1, <3>2, SamePlaces DEF BeginEffect, Becomes
  <2>3. CASE (\E tip \in HotBid : SkipEffect(w, tip) \/ MatchEffect(w, tip)) \/ InsertEffect(w)
    <3>1. InRound(w)
      BY <2>3 DEF SkipEffect, MatchEffect, InsertEffect
    <3>2. overruns = 0 => PassOnce(pass[w])'
      BY <2>0, <2>3, SkipOnce, MatchOnce, InsertOnce
    <3>3. Queued' = Queued
      BY <3>1 DEF InRound, Queued
    <3>4. QED
      BY <3>1, <3>2, <3>3, SamePlaces DEF InRound
  <2>4. CASE CommitEffect(w)
    <3>1. overruns' = overruns
      BY <2>4 DEF CommitEffect
    <3>2. CASE overruns = 0
      BY <2>4, <3>2, CommitOnce
    <3>3. QED
      BY <3>1, <3>2 DEF InOnePlace
  <2>5. CASE FailEffect(w)
    <3>1. pass'[w].pc = "ended" /\ pass'[w].tasks = pass[w].tasks
      BY <2>5, PassTyped, EndedTyped DEF FailEffect, Becomes
    <3>2. PassOnce(pass[w])'
      BY <3>1 DEF PassOnce
    <3>3. Queued' = Queued
      BY <2>5 DEF FailEffect, Queued
    <3>4. QED
      BY <2>5, <3>1, <3>2, <3>3, SamePlaces DEF FailEffect, Becomes
  <2>6. CASE DeleteEffect(w)
    <3>1. pass'[w].pc = "idle"
      BY <2>6, IdleTyped DEF DeleteEffect, Becomes
    <3>2. PassOnce(pass[w])'
      BY <3>1 DEF PassOnce
    <3>3. Queued' \subseteq Queued /\ \A h \in Queued' : h \notin pass[w].tasks
      BY <2>6 DEF DeleteEffect, Queued
    <3>4. QED
      BY <2>6, <3>2, <3>3, SamePlaces DEF DeleteEffect, Becomes
  <2>7. CASE CrashEffect(w)
    <3>1. overruns' # 0
      BY <2>7 DEF CrashEffect, HotTypeOK
    <3>2. QED
      BY <3>1 DEF InOnePlace
  <2>8. QED
    BY <1>3, <2>1, <2>2, <2>3, <2>4, <2>5, <2>6, <2>7 DEF PassEffect
<1>4. QED
  BY <1>1, <1>2, <1>3, StepIsEffect

\* A bid that has at most one place in the pairs is counted at most once.
LEMMA PlacedOnce ==
  ASSUME NEW h, PairedOnce(h)
  PROVE  Cardinality(PairsWith(h)) <= 1
<1>1. ASSUME NEW x \in PairsWith(h), NEW y \in PairsWith(h)
      PROVE  x = y
  <2>1. PICK s \in applyTasks :
          \E i \in DOMAIN s.matched : h \in Both(s.matched[i]) /\ x = <<s, i>>
    BY PlacesOfPairs
  <2>2. PICK i \in DOMAIN s.matched : h \in Both(s.matched[i]) /\ x = <<s, i>>
    BY <2>1
  <2>3. PICK t \in applyTasks :
          \E j \in DOMAIN t.matched : h \in Both(t.matched[j]) /\ y = <<t, j>>
    BY PlacesOfPairs
  <2>4. PICK j \in DOMAIN t.matched : h \in Both(t.matched[j]) /\ y = <<t, j>>
    BY <2>3
  <2>5. s = t /\ i = j
    BY <2>2, <2>4 DEF PairedOnce
  <2>6. QED
    BY <2>2, <2>4, <2>5
<1>2. CASE PairsWith(h) = {}
  BY <1>2, FS_EmptySet
<1>3. CASE PairsWith(h) # {}
  <2>1. PICK x : PairsWith(h) = {x}
    BY <1>1, <1>3
  <2>2. QED
    <3>1. Cardinality({x}) = 1
      BY FS_Singleton, Zenon
    <3>2. QED
      BY <2>1, <3>1
<1>4. QED
  BY <1>2, <1>3

\* While every pass ends before its lease, a bid is stored at most once and
\* matched at most once, and no matched bid is in the hot zone.
THEOREM BidsNeverTwice == HotSpec => []NoBidTwice
<1> DEFINE Base == /\ HotTypeOK /\ HotFinite /\ Known /\ OneMatching
                   /\ NoPairsYet /\ Leases /\ InOnePlace
<1>1. HotInit => Base
  BY HotInitTyped, HotInitKnown, HotInitLeases, HotInitOnce
<1>2. Base /\ [HotNext]_hotVars => Base'
  BY HotStepTyped, HotStepKnown, HotStepLeases, HotStepOnce
<1>3. Base => NoBidTwice
  <2> SUFFICES ASSUME Base, overruns = 0
               PROVE  /\ \A h \in arrived : Cardinality(PairsWith(h)) <= 1
                      /\ \A e, f \in zone : e.bid = f.bid => e = f
                      /\ Hot \cap InPair = {}
    BY DEF NoBidTwice
  <2>1. \A h \in arrived : Cardinality(PairsWith(h)) <= 1
    BY PlacedOnce DEF InOnePlace, HotTypeOK
  <2>2. Hot \cap InPair = {}
    BY PairedIsPlaced DEF InOnePlace, InPair
  <2>3. QED
    BY <2>1, <2>2 DEF InOnePlace
<1>4. QED
  BY <1>1, <1>2, <1>3, PTL DEF HotSpec
=============================================================================
