--------------------------- MODULE FrontendProofs ---------------------------
(***************************************************************************)
(* Signed statements are applied once and in time, for any number of       *)
(* messages and any delays; answers to price queries fit together and are  *)
(* complete, for any sizes of tiles, any trades and any cache.             *)
(***************************************************************************)
EXTENDS Statements, Prices, FiniteSetTheorems, SequenceTheorems, TLAPS
-----------------------------------------------------------------------------
(***************************************************************************)
(* Statements: type correctness.                                           *)
(***************************************************************************)
LEMMA InitTyped == Init => TypeOK
  BY StatementsAssumption DEF Init, TypeOK, Idle

LEMMA ConsumeTyped ==
  ASSUME TypeOK, NEW h \in Handlers
  PROVE  Consume(h) \in [Nonces -> [state : {"new", "valid", "gone"}, expires : Nat]]
<1>1. nonce \in [Nonces -> [state : {"new", "valid", "gone"}, expires : Nat]]
  BY DEF TypeOK
<1>2. ASSUME NEW n \in Nonces
      PROVE  [nonce[n] EXCEPT !.state = "gone"] \in [state : {"new", "valid", "gone"}, expires : Nat]
  BY <1>1
<1>3. QED
  BY <1>1, <1>2 DEF Consume

LEMMA HandleTyped ==
  ASSUME TypeOK, NEW h \in Handlers, Handle(h)
  PROVE  TypeOK'
<1> USE StatementsAssumption DEF TypeOK
<1>1. ASSUME NEW n \in Nonces, Receive(h, n)
      PROVE  TypeOK'
  BY <1>1 DEF Receive
<1>2. CASE CheckNonce(h)
  BY <1>2, ConsumeTyped DEF CheckNonce
<1>3. CASE NonceRefused(h)
  BY <1>3, ConsumeTyped DEF NonceRefused, Idle
<1>4. CASE Refused(h)
  BY <1>4 DEF Refused, Idle
<1>5. CASE RequestDepositAddress(h)
  BY <1>5 DEF RequestDepositAddress, Effect, Idle, Nonces
<1>6. CASE StoreDepositInfo(h)
  BY <1>6 DEF StoreDepositInfo, Effect, Idle, Nonces
<1>7. CASE CreateRelation(h)
  BY <1>7 DEF CreateRelation, Effect, Idle, Nonces
<1>8. QED
  BY <1>1, <1>2, <1>3, <1>4, <1>5, <1>6, <1>7, Handle(h) DEF Handle

LEMMA StepTyped ==
  ASSUME TypeOK, [Next]_vars
  PROVE  TypeOK'
<1> USE StatementsAssumption DEF TypeOK
<1>1. ASSUME NEW n \in Nonces, GetNonce(n)
      PROVE  TypeOK'
  BY <1>1 DEF GetNonce
<1>2. ASSUME NEW n \in Infos, Answer(n)
      PROVE  TypeOK'
  BY <1>2 DEF Answer
<1>3. ASSUME NEW h \in Handlers, Handle(h)
      PROVE  TypeOK'
  BY <1>3, HandleTyped
<1>4. CASE Tick
  BY <1>4 DEF Tick
<1>5. CASE UNCHANGED vars
  BY <1>5 DEF vars
<1>6. QED
  BY <1>1, <1>2, <1>3, <1>4, <1>5 DEF Next

-----------------------------------------------------------------------------
(***************************************************************************)
(* The inductive invariant.  Handlers are on time, and what has passed the *)
(* check of its nonce is alone with it.                                    *)
(***************************************************************************)
Passed(h) == handler[h].at = "passed"

OnTime ==
  \A h \in Handlers : handler[h].at # "idle" =>
    /\ handler[h].nonce \in Nonces
    /\ nonce[handler[h].nonce].state # "new"
    /\ handler[h].nonce \in Infos => answers[handler[h].nonce] # NoNonce
    /\ handler[h].start <= now /\ now <= handler[h].start + Deadline

PassedAlone ==
  /\ \A h \in Handlers : Passed(h) =>
       /\ nonce[handler[h].nonce].state = "gone"
       /\ handler[h].start < nonce[handler[h].nonce].expires
       /\ handler[h].nonce \notin applied
  /\ \A g, h \in Handlers : Passed(g) /\ Passed(h) /\ handler[g].nonce = handler[h].nonce => g = h
  /\ \A n \in applied : nonce[n].state = "gone"

(***************************************************************************)
(* A message that can still take effect answers the request that is        *)
(* pending, or none is pending and there will be none until it cannot.     *)
(***************************************************************************)
Outlived(i, time) == nonce[i].expires + Deadline <= time

Pending ==
  /\ \A n \in Nonces : nonce[n].expires <= now + Lifetime
  /\ \A i \in Infos : answers[i] # NoNonce =>
       /\ nonce[i].state # "new"
       /\ \/ account.request = answers[i]
          \/ account.request = NoNonce /\ Outlived(i, account.lastInfo + Wait)
          \/ Outlived(i, now)

Inv == TypeOK /\ OnTime /\ PassedAlone /\ Pending

LEMMA InitInv == Init => Inv
  BY InitTyped, StatementsAssumption DEF Init, Inv, OnTime, PassedAlone, Pending, Passed, Idle, Nonces

-----------------------------------------------------------------------------
(***************************************************************************)
(* Steps of the network, of the payment processor and of the clock.        *)
(***************************************************************************)
LEMMA GetNonceInv ==
  ASSUME Inv, NEW n \in Nonces, GetNonce(n)
  PROVE  Inv'
<1> USE StatementsAssumption
<1>1. TypeOK /\ TypeOK'
  BY StepTyped DEF Inv, Next
<1>2. /\ UNCHANGED <<now, answers, handler, account, relation, applied>>
      /\ nonce[n].state = "new"
      /\ nonce'[n] = [state |-> "valid", expires |-> now + Lifetime]
  BY <1>1 DEF GetNonce, TypeOK
<1>3. ASSUME NEW m \in Nonces
      PROVE  /\ nonce[m].state = "new" \/ nonce'[m].expires = nonce[m].expires
             /\ nonce'[m].state = "new" => nonce[m].state = "new"
             /\ nonce[m].state = "gone" => nonce'[m].state = "gone"
             /\ nonce'[m].expires = nonce[m].expires \/ nonce'[m].expires = now + Lifetime
  BY <1>1 DEF GetNonce, TypeOK
<1>4. OnTime'
  BY <1>1, <1>2, <1>3 DEF Inv, OnTime
<1>5. PassedAlone'
  BY <1>1, <1>2, <1>3 DEF Inv, PassedAlone, OnTime, Passed, TypeOK
<1>6. \A m \in Nonces : nonce'[m].expires <= now' + Lifetime
  BY <1>1, <1>2, <1>3 DEF Inv, Pending, TypeOK
<1>7. ASSUME NEW i \in Infos, answers'[i] # NoNonce
      PROVE  nonce'[i].state # "new" /\ nonce'[i].expires = nonce[i].expires
  BY <1>2, <1>3, <1>7 DEF Inv, Pending, Nonces
<1>8. Pending'
  BY <1>1, <1>2, <1>6, <1>7 DEF Inv, Pending, Outlived
<1>9. QED
  BY <1>1, <1>4, <1>5, <1>8 DEF Inv

LEMMA AnswerInv ==
  ASSUME Inv, NEW n \in Infos, Answer(n)
  PROVE  Inv'
<1> USE StatementsAssumption
<1>1. TypeOK /\ TypeOK'
  BY StepTyped DEF Inv, Next
<1>2. /\ UNCHANGED <<now, nonce, handler, account, relation, applied>>
      /\ nonce[n].state # "new" /\ account.request # NoNonce
      /\ answers' = [answers EXCEPT ![n] = account.request]
  BY DEF Answer
<1>3. OnTime'
  BY <1>1, <1>2 DEF Inv, OnTime, TypeOK
<1>4. PassedAlone'
  BY <1>2 DEF Inv, PassedAlone, Passed
<1>5. Pending'
  BY <1>1, <1>2 DEF Inv, Pending, Outlived, TypeOK
<1>6. QED
  BY <1>1, <1>3, <1>4, <1>5 DEF Inv

LEMMA TickInv ==
  ASSUME Inv, Tick
  PROVE  Inv'
<1> USE StatementsAssumption
<1>1. TypeOK /\ TypeOK'
  BY StepTyped DEF Inv, Next
<1>2. /\ UNCHANGED <<nonce, answers, handler, account, relation, applied>>
      /\ now' = now + 1
      /\ \A h \in Handlers : handler[h] # Idle => now < handler[h].start + Deadline
  BY DEF Tick
<1>3. ASSUME NEW h \in Handlers, handler[h].at # "idle"
      PROVE  handler[h].start <= now' /\ now' <= handler[h].start + Deadline
  <2>1. now < handler[h].start + Deadline
    BY <1>2, <1>3 DEF Idle
  <2>2. handler[h].start <= now /\ handler[h].start \in Nat /\ now \in Nat
    BY <1>1, <1>3 DEF Inv, OnTime, TypeOK
  <2>3. QED
    BY <1>2, <2>1, <2>2
<1>4. OnTime'
  BY <1>2, <1>3 DEF Inv, OnTime
<1>5. PassedAlone'
  BY <1>2 DEF Inv, PassedAlone, Passed
<1>6. \A m \in Nonces : nonce'[m].expires <= now' + Lifetime
  BY <1>1, <1>2 DEF Inv, Pending, TypeOK
<1>7. ASSUME NEW i \in Infos, Outlived(i, now)
      PROVE  Outlived(i, now)'
  BY <1>1, <1>2, <1>7 DEF Outlived, TypeOK, Nonces
<1>8. ASSUME NEW i \in Infos, Outlived(i, account.lastInfo + Wait)
      PROVE  Outlived(i, account.lastInfo + Wait)'
  BY <1>2, <1>8 DEF Outlived
<1>9. Pending'
  BY <1>2, <1>6, <1>7, <1>8 DEF Inv, Pending
<1>10. QED
  BY <1>1, <1>4, <1>5, <1>9 DEF Inv

-----------------------------------------------------------------------------
(***************************************************************************)
(* Steps of a handler.                                                     *)
(***************************************************************************)
LEMMA ReceiveInv ==
  ASSUME Inv, NEW h \in Handlers, NEW n \in Nonces, Receive(h, n)
  PROVE  Inv'
<1> USE StatementsAssumption
<1>1. TypeOK /\ TypeOK'
  BY StepTyped DEF Inv, Next, Handle
<1>2. /\ UNCHANGED <<now, nonce, answers, account, relation, applied>>
      /\ nonce[n].state # "new" /\ (n \in Infos => answers[n] # NoNonce)
      /\ handler' = [handler EXCEPT ![h] = [at |-> "received", nonce |-> n, start |-> now]]
  BY DEF Receive
<1>3. \A g \in Handlers : g # h => handler'[g] = handler[g]
  BY <1>1, <1>2 DEF TypeOK
<1>4. handler'[h] = [at |-> "received", nonce |-> n, start |-> now]
  BY <1>1, <1>2 DEF TypeOK
<1>5. OnTime'
  <2>1. handler'[h].start <= now' /\ now' <= handler'[h].start + Deadline
    BY <1>1, <1>2, <1>4 DEF TypeOK
  <2>2. QED
    BY <1>2, <1>3, <1>4, <2>1 DEF Inv, OnTime
<1>6. \A g \in Handlers : Passed(g)' => g # h /\ Passed(g)
  BY <1>3, <1>4 DEF Passed
<1>7. PassedAlone'
  BY <1>2, <1>3, <1>6 DEF Inv, PassedAlone
<1>8. Pending'
  BY <1>2 DEF Inv, Pending, Outlived
<1>9. QED
  BY <1>1, <1>5, <1>7, <1>8 DEF Inv

\* What becomes of the nonces when one of them is consumed, or none is.
LEMMA Consumed ==
  ASSUME Inv, NEW h \in Handlers, handler[h].at # "idle", nonce' \in {nonce, Consume(h)},
         NEW m \in Nonces
  PROVE  /\ nonce'[m].expires = nonce[m].expires
         /\ nonce'[m].state = "new" <=> nonce[m].state = "new"
         /\ nonce[m].state = "gone" => nonce'[m].state = "gone"
         /\ nonce' = Consume(h) => nonce'[handler[h].nonce].state = "gone"
<1>1. TypeOK /\ handler[h].nonce \in Nonces /\ nonce[handler[h].nonce].state # "new"
  BY DEF Inv, OnTime
<1>2. CASE nonce' = nonce
  <2>1. ASSUME nonce' = Consume(h)
        PROVE  nonce'[handler[h].nonce].state = "gone"
    BY <1>1, <2>1 DEF Consume, TypeOK
  <2>2. QED
    BY <1>2, <2>1
<1>3. CASE nonce' = Consume(h)
  BY <1>1, <1>3 DEF Consume, TypeOK
<1>4. QED
  BY <1>2, <1>3

LEMMA CheckNonceInv ==
  ASSUME Inv, NEW h \in Handlers, CheckNonce(h)
  PROVE  Inv'
<1> USE StatementsAssumption
<1>1. TypeOK /\ TypeOK'
  BY StepTyped DEF Inv, Next, Handle
<1>2. /\ UNCHANGED <<now, answers, account, relation, applied>>
      /\ handler[h].at = "received" /\ Valid(h) /\ nonce' = Consume(h)
      /\ handler' = [handler EXCEPT ![h].at = "passed"]
  BY DEF CheckNonce
<1>3. \A m \in Nonces : /\ nonce'[m].expires = nonce[m].expires
                        /\ nonce'[m].state = "new" <=> nonce[m].state = "new"
                        /\ nonce[m].state = "gone" => nonce'[m].state = "gone"
                        /\ nonce'[handler[h].nonce].state = "gone"
  BY <1>2, Consumed
<1>4. \A g \in Handlers : g # h => handler'[g] = handler[g]
  BY <1>1, <1>2 DEF TypeOK
<1>5. /\ handler'[h].at = "passed" /\ handler'[h].nonce = handler[h].nonce
      /\ handler'[h].start = handler[h].start
  BY <1>1, <1>2 DEF TypeOK
<1>6. handler[h].nonce \in Nonces
  BY <1>2 DEF Inv, OnTime
<1>7. nonce[handler[h].nonce].state = "valid" /\ handler[h].start < nonce[handler[h].nonce].expires
  BY <1>1, <1>2, <1>6 DEF Valid, TypeOK
<1>8. OnTime'
  BY <1>2, <1>3, <1>4, <1>5 DEF Inv, OnTime
<1>9. handler[h].nonce \notin applied
  BY <1>7 DEF Inv, PassedAlone
<1>10. \A g \in Handlers : g # h /\ Passed(g) => handler[g].nonce # handler[h].nonce
  BY <1>7 DEF Inv, PassedAlone
<1>11. \A g \in Handlers : Passed(g) => handler[g].nonce \in Nonces
  BY DEF Inv, OnTime, Passed
<1>12. \A g \in Handlers : Passed(g)' =>
         /\ nonce'[handler'[g].nonce].state = "gone"
         /\ handler'[g].start < nonce'[handler'[g].nonce].expires
         /\ handler'[g].nonce \notin applied'
  BY <1>2, <1>3, <1>4, <1>5, <1>6, <1>7, <1>9, <1>11 DEF Inv, PassedAlone, Passed
<1>13. \A f, g \in Handlers :
         Passed(f)' /\ Passed(g)' /\ handler'[f].nonce = handler'[g].nonce => f = g
  BY <1>4, <1>5, <1>10 DEF Inv, PassedAlone, Passed
<1>14. \A m \in applied' : nonce'[m].state = "gone"
  BY <1>1, <1>2, <1>3 DEF Inv, PassedAlone, TypeOK
<1>15. Pending'
  BY <1>2, <1>3 DEF Inv, Pending, Outlived, Nonces
<1>16. QED
  BY <1>1, <1>8, <1>12, <1>13, <1>14, <1>15 DEF Inv, PassedAlone

\* A handler ends without an effect.
LEMMA EndInv ==
  ASSUME Inv, NEW h \in Handlers, NonceRefused(h) \/ Refused(h)
  PROVE  Inv'
<1> USE StatementsAssumption
<1>1. TypeOK /\ TypeOK'
  BY StepTyped DEF Inv, Next, Handle
<1>2. /\ UNCHANGED <<now, answers, account, relation, applied>>
      /\ handler[h].at # "idle" /\ nonce' \in {nonce, Consume(h)}
      /\ handler' = [handler EXCEPT ![h] = Idle]
  BY DEF NonceRefused, Refused
<1>3. \A m \in Nonces : /\ nonce'[m].expires = nonce[m].expires
                        /\ nonce'[m].state = "new" <=> nonce[m].state = "new"
                        /\ nonce[m].state = "gone" => nonce'[m].state = "gone"
  BY <1>2, Consumed
<1>4. \A g \in Handlers : g # h => handler'[g] = handler[g]
  BY <1>1, <1>2 DEF TypeOK
<1>5. handler'[h].at = "idle"
  BY <1>1, <1>2 DEF TypeOK, Idle
<1>6. OnTime'
  BY <1>2, <1>3, <1>4, <1>5 DEF Inv, OnTime
<1>7. \A g \in Handlers : Passed(g)' => Passed(g) /\ handler'[g] = handler[g] /\ handler[g].nonce \in Nonces
  BY <1>4, <1>5 DEF Inv, OnTime, Passed
<1>8. PassedAlone'
  <2>1. \A m \in applied' : nonce'[m].state = "gone"
    BY <1>1, <1>2, <1>3 DEF Inv, PassedAlone, TypeOK
  <2>2. QED
    BY <1>2, <1>3, <1>7, <2>1 DEF Inv, PassedAlone
<1>9. Pending'
  BY <1>2, <1>3 DEF Inv, Pending, Outlived, Nonces
<1>10. QED
  BY <1>1, <1>6, <1>8, <1>9 DEF Inv

\* All but the account, when a statement takes effect.
LEMMA EffectInv ==
  ASSUME Inv, NEW h \in Handlers, NEW kind, Effect(h, kind), UNCHANGED <<now, nonce, answers>>
  PROVE  OnTime' /\ PassedAlone'
<1>1. TypeOK /\ handler[h].at = "passed" /\ Passed(h)
  BY DEF Inv, Effect, Passed
<1>2. \A g \in Handlers : g # h => handler'[g] = handler[g]
  BY <1>1 DEF TypeOK, Effect
<1>3. handler'[h].at = "idle"
  BY <1>1 DEF TypeOK, Effect, Idle
<1>4. OnTime'
  BY <1>2, <1>3 DEF Inv, OnTime
<1>5. \A g \in Handlers : Passed(g)' => g # h /\ Passed(g) /\ handler'[g] = handler[g]
  BY <1>2, <1>3 DEF Passed
<1>6. \A g \in Handlers : Passed(g)' => handler[g].nonce # handler[h].nonce
  BY <1>1, <1>5 DEF Inv, PassedAlone
<1>7. PassedAlone'
  BY <1>1, <1>5, <1>6 DEF Inv, PassedAlone, Effect
<1>8. QED
  BY <1>4, <1>7

LEMMA RequestInv ==
  ASSUME Inv, NEW h \in Handlers, RequestDepositAddress(h)
  PROVE  Inv'
<1> USE StatementsAssumption
<1>1. TypeOK /\ TypeOK'
  BY StepTyped DEF Inv, Next, Handle
<1>2. /\ UNCHANGED <<now, nonce, answers>> /\ MayRequest /\ Effect(h, Requests)
  BY DEF RequestDepositAddress
<1>3. ASSUME NEW i \in Infos, answers[i] # NoNonce
      PROVE  Outlived(i, now)
  <2>1. CASE account.request = answers[i]
    BY <1>2, <1>3, <2>1 DEF MayRequest
  <2>2. CASE Outlived(i, account.lastInfo + Wait)
    <3>1. nonce[i].expires \in Nat /\ account.lastInfo \in Int /\ now \in Nat
      BY <1>1 DEF TypeOK, Nonces
    <3>2. account.lastInfo + Wait <= now
      BY <1>2 DEF MayRequest
    <3>3. QED
      BY <2>2, <3>1, <3>2 DEF Outlived
  <2>3. QED
    BY <1>3, <2>1, <2>2 DEF Inv, Pending
<1>4. Pending'
  BY <1>2, <1>3 DEF Inv, Pending, Outlived
<1>5. QED
  BY <1>1, <1>2, <1>4, EffectInv DEF Inv

LEMMA StoreInv ==
  ASSUME Inv, NEW h \in Handlers, StoreDepositInfo(h)
  PROVE  Inv'
<1> USE StatementsAssumption
<1>1. TypeOK /\ TypeOK'
  BY StepTyped DEF Inv, Next, Handle
<1>2. /\ UNCHANGED <<now, nonce, answers>> /\ Effect(h, Infos)
      /\ account'.request = NoNonce /\ account'.lastInfo = now
  BY DEF StoreDepositInfo
<1>3. ASSUME NEW i \in Infos
      PROVE  Outlived(i, now + Wait)
  <2>1. nonce[i].expires \in Nat /\ now \in Nat
    BY <1>1 DEF TypeOK, Nonces
  <2>2. nonce[i].expires <= now + Lifetime
    BY DEF Inv, Pending, Nonces
  <2>3. QED
    BY <2>1, <2>2 DEF Outlived
<1>4. Pending'
  BY <1>2, <1>3 DEF Inv, Pending, Outlived
<1>5. QED
  BY <1>1, <1>2, <1>4, EffectInv DEF Inv

LEMMA RelationInv ==
  ASSUME Inv, NEW h \in Handlers, CreateRelation(h)
  PROVE  Inv'
<1>1. TypeOK'
  BY StepTyped DEF Inv, Next, Handle
<1>2. UNCHANGED <<now, nonce, answers, account>> /\ Effect(h, Relations)
  BY DEF CreateRelation
<1>3. Pending'
  BY <1>2 DEF Inv, Pending, Outlived
<1>4. QED
  BY <1>1, <1>2, <1>3, EffectInv DEF Inv

LEMMA StepInv ==
  ASSUME Inv, [Next]_vars
  PROVE  Inv'
<1>1. ASSUME NEW h \in Handlers, Handle(h)
      PROVE  Inv'
  BY <1>1, ReceiveInv, CheckNonceInv, EndInv, RequestInv, StoreInv, RelationInv DEF Handle
<1>2. CASE UNCHANGED vars
  BY <1>2 DEF vars, Inv, TypeOK, OnTime, PassedAlone, Passed, Pending, Outlived
<1>3. QED
  BY <1>1, <1>2, GetNonceInv, AnswerInv, TickInv DEF Next

LEMMA Invariant == Spec => []Inv
  BY InitInv, StepInv, PTL DEF Spec

-----------------------------------------------------------------------------
(***************************************************************************)
(* A statement takes effect at most once, however often it arrives.        *)
(***************************************************************************)
LEMMA EffectOnce ==
  ASSUME Inv, NEW h \in Handlers, NEW kind, Effect(h, kind)
  PROVE  /\ handler[h].nonce \in Nonces \ applied /\ Passed(h)
         /\ applied' = applied \cup {handler[h].nonce}
  BY DEF Effect, Inv, OnTime, PassedAlone, Passed

LEMMA OnlyEffects ==
  ASSUME Inv, [Next]_vars
  PROVE  \/ UNCHANGED <<account, relation, applied>>
         \/ \E h \in Handlers :
              RequestDepositAddress(h) \/ StoreDepositInfo(h) \/ CreateRelation(h)
<1>1. CASE UNCHANGED vars
  BY <1>1 DEF vars
<1>2. QED
  BY <1>1 DEF Next, GetNonce, Answer, Tick, Handle, Receive, CheckNonce, NonceRefused, Refused

THEOREM StatementsApplyOnce == Spec => AppliedOnce
<1>1. ASSUME Inv, [Next]_vars
      PROVE  \/ UNCHANGED <<account, relation>>
             \/ \E n \in Nonces \ applied : applied' = applied \cup {n}
  <2>1. ASSUME NEW h \in Handlers, NEW kind, Effect(h, kind)
        PROVE  \E n \in Nonces \ applied : applied' = applied \cup {n}
    BY <1>1, <2>1, EffectOnce
  <2>2. QED
    BY <1>1, <2>1, OnlyEffects DEF RequestDepositAddress, StoreDepositInfo, CreateRelation
<1>2. QED
  BY <1>1, Invariant, PTL DEF Spec, AppliedOnce

(***************************************************************************)
(* And not after its nonce has expired, but for the time the handler takes.*)
(***************************************************************************)
LEMMA EffectInTime ==
  ASSUME Inv, NEW h \in Handlers, NEW kind, Effect(h, kind)
  PROVE  now < nonce[handler[h].nonce].expires + Deadline
<1>1. TypeOK /\ Passed(h) /\ handler[h].nonce \in Nonces
  BY EffectOnce DEF Inv
<1>2. handler[h].start < nonce[handler[h].nonce].expires
  BY <1>1 DEF Inv, PassedAlone
<1>3. now <= handler[h].start + Deadline
  BY <1>1 DEF Inv, OnTime, Passed
<1>4. now \in Nat /\ handler[h].start \in Nat /\ nonce[handler[h].nonce].expires \in Nat
  BY <1>1 DEF TypeOK
<1>5. QED
  BY <1>2, <1>3, <1>4, StatementsAssumption

THEOREM StatementsApplyInTime == Spec => AppliedInTime
<1>1. ASSUME Inv, [Next]_vars
      PROVE  \A n \in applied' \ applied : now < nonce[n].expires + Deadline
  <2> TAKE n \in applied' \ applied
  <2>1. PICK h \in Handlers : RequestDepositAddress(h) \/ StoreDepositInfo(h) \/ CreateRelation(h)
    BY <1>1, OnlyEffects
  <2>2. PICK kind : Effect(h, kind)
    BY <2>1 DEF RequestDepositAddress, StoreDepositInfo, CreateRelation
  <2>3. n = handler[h].nonce
    BY <2>2 DEF Effect
  <2>4. QED
    BY <1>1, <2>2, <2>3, EffectInTime
<1>2. QED
  BY <1>1, Invariant, PTL DEF Spec, AppliedInTime

(***************************************************************************)
(* storeDepositInfo clears the request that it answers: it comes too late  *)
(* for any other one to be pending.                                        *)
(***************************************************************************)
THEOREM NoRequestGoesUnanswered == Spec => RequestsAnswered
<1>1. ASSUME Inv, [Next]_vars, account.request # NoNonce, account'.request # account.request
      PROVE  \E n \in Infos : account'.info = n /\ answers[n] = account.request
  <2>1. PICK h \in Handlers : RequestDepositAddress(h) \/ StoreDepositInfo(h) \/ CreateRelation(h)
    BY <1>1, OnlyEffects
  <2>2. StoreDepositInfo(h)
    BY <1>1, <2>1 DEF RequestDepositAddress, MayRequest, CreateRelation
  <2>3. /\ Effect(h, Infos) /\ handler[h].nonce \in Infos
        /\ account'.info = handler[h].nonce
    BY <2>2 DEF StoreDepositInfo, Effect
  <2>4. answers[handler[h].nonce] # NoNonce
    BY <1>1, <2>3 DEF Inv, OnTime, Effect
  <2>5. ~Outlived(handler[h].nonce, now)
    <3>1. now < nonce[handler[h].nonce].expires + Deadline
      BY <1>1, <2>3, EffectInTime
    <3>2. now \in Nat /\ nonce[handler[h].nonce].expires \in Nat
      BY <1>1, <2>3 DEF Inv, TypeOK, Nonces
    <3>3. QED
      BY <3>1, <3>2, StatementsAssumption DEF Outlived
  <2>6. account.request = answers[handler[h].nonce]
    BY <1>1, <2>3, <2>4, <2>5 DEF Inv, Pending
  <2>7. QED
    BY <2>3, <2>6
<1>2. QED
  BY <1>1, Invariant, PTL DEF Spec, RequestsAnswered
-----------------------------------------------------------------------------
(***************************************************************************)
(* Prices: the slots of tiles and answers.                                 *)
(***************************************************************************)
(***************************************************************************)
(* Slots that lie between two times, with stored trades of that time.      *)
(***************************************************************************)
Slot == [begin : Int, end : Int, trades : Seq(Trades)]

Within(slot, lo, hi) ==
  /\ slot \in Slot /\ slot.trades # <<>>
  /\ lo <= slot.begin /\ slot.end <= hi

Belongs(t, slot, lo, hi) ==
  /\ trade[t] # NoTrade
  /\ trade[t].matched \in lo..hi - 1
  /\ trade[t].matched \in slot.begin..slot.end

Fit(slots, lo, hi) ==
  /\ slots \in Seq(Slot)
  /\ \A i \in 1..Len(slots) : Within(slots[i], lo, hi)
  /\ \A i, j \in 1..Len(slots) : i < j => slots[i].end <= slots[j].begin
  /\ \A i \in 1..Len(slots) : \A k \in 1..Len(slots[i].trades) :
       Belongs(slots[i].trades[k], slots[i], lo, hi)
  /\ \A i, j \in 1..Len(slots) : \A k \in 1..Len(slots[i].trades), l \in 1..Len(slots[j].trades) :
       slots[i].trades[k] = slots[j].trades[l] => i = j /\ k = l

Among(ts, t) == \E k \in 1..Len(ts) : ts[k] = t

Has(slots, t) == \E i \in 1..Len(slots) : Among(slots[i].trades, t)

(***************************************************************************)
(* The trades of a time that AnswersComplete is about, but for the moment  *)
(* they were stored at.                                                    *)
(***************************************************************************)
Due(t, lo, hi) ==
  /\ trade[t] # NoTrade
  /\ trade[t].matched \in lo..hi - 1
  /\ trade[t].matched <= trade[t].stored /\ trade[t].stored <= trade[t].matched + Grace

HasDue(slots, lo, hi) == \A t \in Trades : Due(t, lo, hi) => Has(slots, t)

HasOld(slots, lo, hi, limit) ==
  \A t \in Trades : Due(t, lo, hi) /\ trade[t].stored < limit => Has(slots, t)

(***************************************************************************)
(* How old the data of a tile may be when a query puts it together, seen   *)
(* from the query's beginning: at each level below, a tile may be in the   *)
(* cache at the end of its life, and may have been added at the end of     *)
(* another query.                                                          *)
(***************************************************************************)
Age(tile, res) == (finestTileResolution(res) - tile) * (Expiry + Slack) + IndexLag

Tiles(res) == coarsestTileResolution(res)..finestTileResolution(res)

GoodTile(e) ==
  /\ e.res \in Resolutions /\ e.tile \in Tiles(e.res)
  /\ e.begin \in Int /\ e.until \in Int /\ e.partial \in BOOLEAN
  /\ Fit(e.slots, e.begin, e.begin + Interval[e.tile])
  /\ e.until = Always =>
       /\ e.begin + Interval[e.tile] + Horizon <= clock
       /\ e.partial \/ HasDue(e.slots, e.begin, e.begin + Interval[e.tile])
  /\ e.until # Always =>
       /\ clock < e.until /\ e.until <= clock + Expiry
       /\ e.partial \/ HasOld(e.slots, e.begin, e.begin + Interval[e.tile],
                              e.until - Expiry - Slack - Age(e.tile, e.res))

(***************************************************************************)
(* What a call of queryPrices has until 'next', or until its end.          *)
(***************************************************************************)
Calls == [tile : Nat, begin : Int, end : Int, next : Int, slots : Seq(Slot), partial : BOOLEAN]

Whole(lo, hi, I) == \E q \in Nat : hi = lo + q * I

Upto(f) == IF f.next <= f.end THEN f.next ELSE f.end

GoodCall(f, res, at) ==
  /\ f \in Calls
  /\ f.tile <= finestTileResolution(res) /\ coarsestTileResolution(res) <= f.tile + 1
  /\ f.begin < f.end /\ f.begin <= f.next
  /\ f.tile # finestTileResolution(res) => Whole(f.begin, f.next, Interval[f.tile + 1])
  /\ Fit(f.slots, f.begin, f.next)
  /\ f.partial \/ HasOld(f.slots, f.begin, Upto(f), at - Age(f.tile, res))

(***************************************************************************)
(* A call for a tile, and the call that it was made from.                  *)
(***************************************************************************)
CallOfTile(f, res) ==
  /\ coarsestTileResolution(res) <= f.tile
  /\ f.end <= f.begin + Interval[f.tile] /\ f.next <= f.begin + Interval[f.tile]
  /\ f.tile = finestTileResolution(res) => f.next = f.begin \/ f.next = f.begin + Interval[f.tile]

CalledBy(f, g) == f.tile = g.tile + 1 /\ f.begin = g.next /\ g.next < g.end

GoodStack(s, res, at) ==
  /\ s \in Seq(Calls) /\ s # <<>>
  /\ s[1].tile # finestTileResolution(res)
  /\ \A k \in 1..Len(s) : GoodCall(s[k], res, at)
  /\ \A k \in 2..Len(s) : CallOfTile(s[k], res) /\ CalledBy(s[k], s[k - 1])

GoodQuery(q) ==
  /\ q \in [res : Resolutions, at : Int, stack : Seq(Calls)]
  /\ q.at <= clock /\ clock <= q.at + Slack
  /\ GoodStack(q.stack, q.res, q.at)

TradesTyped ==
  /\ trade \in [Trades -> [matched : Int, stored : Int]]
  /\ \A t \in Trades : trade[t] # NoTrade => trade[t].stored \in Nat /\ trade[t].stored <= clock

(***************************************************************************)
(* The inductive invariant, but for the answer.                            *)
(***************************************************************************)
PricesInv ==
  /\ clock \in Nat
  /\ TradesTyped
  /\ DOMAIN query = Queriers
  /\ \A q \in Queriers : query[q] = NoQuery \/ GoodQuery(query[q])
  /\ \A e \in cache : GoodTile(e)
-----------------------------------------------------------------------------
(* Arithmetic.                                                             *)

LEMMA LeastOf ==
  ASSUME NEW S \in SUBSET Nat, S # {}
  PROVE  \E m \in S : \A k \in S : m <= k
<1>1. PICK less : less = OpToRel(<, Nat)
  OBVIOUS
<1>2. \A k, m \in Nat : k < m => <<k, m>> \in less
  <2> SUFFICES ASSUME NEW k \in Nat, NEW m \in Nat, k < m PROVE <<k, m>> \in OpToRel(<, Nat)
    BY <1>1, Zenon
  <2>1. QED
    BY Zenon DEF OpToRel
<1>3. PICK m \in S : \A k \in S : <<k, m>> \notin less
  BY <1>1, NatLessThanWellFounded, WFMin, Zenon
<1>4. \A k \in S : m <= k
  <2> SUFFICES ASSUME NEW k \in S PROVE ~(k < m)
    OBVIOUS
  <2>1. k \in Nat /\ m \in Nat
    OBVIOUS
  <2>2. QED
    BY <1>2, <1>3, <2>1
<1>5. QED
  BY <1>4

LEMMA MaxOfTwo ==
  ASSUME NEW a \in Int, NEW b \in Int
  PROVE  Max({a, b}) = IF a >= b THEN a ELSE b
BY DEF Max

LEMMA MinOfTwo ==
  ASSUME NEW a \in Int, NEW b \in Int
  PROVE  Min({a, b}) = IF a <= b THEN a ELSE b
BY DEF Min

LEMMA Quotient ==
  ASSUME NEW x \in Int, NEW I \in Nat \ {0}
  PROVE  /\ x \div I \in Int /\ (x \div I) * I \in Int
         /\ (x \div I) * I <= x /\ x < (x \div I) * I + I
OBVIOUS

LEMMA NaturalQuotient ==
  ASSUME NEW x \in Nat, NEW I \in Nat \ {0}
  PROVE  x \div I \in Nat /\ (x \div I) * I \in Nat
OBVIOUS

LEMMA Product ==
  ASSUME NEW x \in Nat, NEW y \in Nat
  PROVE  x * y \in Nat
OBVIOUS

LEMMA OneMore ==
  ASSUME NEW x \in Int, NEW I \in Int
  PROVE  x * I \in Int /\ (x + 1) * I = x * I + I
OBVIOUS

LEMMA LessByOne ==
  ASSUME NEW p \in Nat, NEW m \in Nat, NEW I \in Nat \ {0}, p * I < m * I
  PROVE  p + 1 <= m /\ p * I + I <= m * I
<1>1. p + 1 <= m
  OBVIOUS
<1>2. (p + 1) * I <= m * I
  BY <1>1
<1>3. QED
  BY <1>1, <1>2, OneMore

LEMMA Offsets == CoarsestOffset \in Nat /\ FinestOffset \in Nat /\ FinestOffset <= CoarsestOffset
BY PricesAssumption

LEMMA Numbers ==
  /\ Horizon \in Nat /\ Expiry \in Nat \ {0} /\ Slack \in Nat /\ IndexLag \in Nat
  /\ Levels \in Nat \ {0}
  /\ MaxAge \in Nat /\ IndexLag <= MaxAge
  /\ Grace \in Int /\ Stale \in Nat
  /\ Grace = Horizon - Slack - MaxAge /\ Grace <= Horizon
  /\ Stale = MaxAge + Expiry + Slack
<1>1. Horizon \in Nat /\ Expiry \in Nat \ {0} /\ Slack \in Nat /\ IndexLag \in Nat
  BY PricesAssumption
<1>2. Levels \in Nat \ {0}
  BY Offsets DEF Levels
<1>3. PICK l, x, y : l = Levels - 1 /\ x = Expiry + Slack /\ y = l * x
  OBVIOUS
<1>4. y \in Nat
  BY <1>1, <1>2, <1>3, Product
<1>5. MaxAge = y + IndexLag
  BY <1>3 DEF MaxAge
<1>6. QED
  BY <1>1, <1>2, <1>4, <1>5 DEF Grace, Stale

LEMMA TileSizes ==
  ASSUME NEW res \in Resolutions
  PROVE  /\ res \in Nat /\ coarsestTileResolution(res) \in Nat /\ finestTileResolution(res) \in Nat
         /\ 1 <= coarsestTileResolution(res)
         /\ coarsestTileResolution(res) <= finestTileResolution(res)
         /\ finestTileResolution(res) <= res
         /\ finestTileResolution(res) - coarsestTileResolution(res) <= Levels - 1
         /\ \A tile \in Tiles(res) : tile \in Resolutions /\ tile <= res
<1>1. res \in Nat /\ 1 <= res /\ res <= Len(Interval) /\ Len(Interval) \in Nat
  BY PricesAssumption DEF Resolutions
<1>2. coarsestTileResolution(res) = IF 1 >= res - CoarsestOffset THEN 1 ELSE res - CoarsestOffset
  BY <1>1, Offsets, MaxOfTwo DEF coarsestTileResolution
<1>3. finestTileResolution(res) = IF 1 >= res - FinestOffset THEN 1 ELSE res - FinestOffset
  BY <1>1, Offsets, MaxOfTwo DEF finestTileResolution
<1>4. QED
  BY <1>1, <1>2, <1>3, Offsets DEF Levels, Tiles, Resolutions

(***************************************************************************)
(* Each resolution is cut into a whole number of any finer one.            *)
(***************************************************************************)
LEMMA IntervalIs == \A r \in Resolutions : Interval[r] \in Nat \ {0}
BY PricesAssumption DEF Resolutions

(***************************************************************************)
(* The sizes of the tiles that a query has calls for.                      *)
(***************************************************************************)
IsSize(tile, res) ==
  tile \in Nat /\ tile <= finestTileResolution(res) /\ coarsestTileResolution(res) <= tile + 1

LEMMA Ages ==
  ASSUME NEW res \in Resolutions, NEW tile, IsSize(tile, res)
  PROVE  /\ Age(tile, res) \in Nat /\ IndexLag <= Age(tile, res) /\ Age(tile, res) <= Stale
         /\ tile \in Tiles(res) => Age(tile, res) <= MaxAge
         /\ tile # finestTileResolution(res) =>
              /\ tile + 1 \in Tiles(res)
              /\ Age(tile, res) = Expiry + Slack + Age(tile + 1, res)
<1>1. PICK f, c : f = finestTileResolution(res) /\ c = coarsestTileResolution(res)
  OBVIOUS
<1>2. PICK l, n, x : l = Levels - 1 /\ n = f - tile /\ x = Expiry + Slack
  OBVIOUS
<1>3. f \in Nat /\ c \in Nat /\ tile \in Nat /\ tile <= f /\ c <= tile + 1 /\ f - c <= l /\ Tiles(res) = c..f
  BY <1>1, <1>2, TileSizes DEF Tiles, IsSize
<1>4. l \in Nat /\ n \in Nat /\ n <= l + 1 /\ x \in Nat
  BY <1>2, <1>3, Numbers
<1>5. Age(tile, res) = n * x + IndexLag /\ MaxAge = l * x + IndexLag
  BY <1>1, <1>2 DEF Age, MaxAge
<1>6. n * x \in Nat /\ n * x <= (l + 1) * x /\ (l + 1) * x = l * x + x
  BY <1>4
<1>7. PICK nx, lx : nx = n * x /\ lx = l * x
  OBVIOUS
<1>8. lx \in Nat
  BY <1>4, <1>7, Product
<1>9. Age(tile, res) \in Nat /\ IndexLag <= Age(tile, res) /\ Age(tile, res) <= Stale
  BY <1>2, <1>5, <1>6, <1>7, <1>8, Numbers
<1>10. tile \in Tiles(res) => Age(tile, res) <= MaxAge
  <2> SUFFICES ASSUME tile \in Tiles(res) PROVE Age(tile, res) <= MaxAge
    OBVIOUS
  <2>1. n <= l
    BY <1>2, <1>3
  <2>2. n * x <= l * x
    BY <1>4, <2>1
  <2>3. QED
    BY <1>5, <1>6, <1>7, <1>8, <2>2, Numbers
<1>11. ASSUME tile # f PROVE tile + 1 \in Tiles(res) /\ Age(tile, res) = Expiry + Slack + Age(tile + 1, res)
  <2>1. tile + 1 \in Tiles(res) /\ n - 1 \in Nat /\ f - (tile + 1) = n - 1
    BY <1>2, <1>3, <1>11
  <2>2. Age(tile + 1, res) = (n - 1) * x + IndexLag
    BY <1>1, <1>2, <2>1, Zenon DEF Age
  <2>3. PICK m, mx : m = n - 1 /\ mx = m * x
    OBVIOUS
  <2>4. (m + 1) * x = m * x + x
    BY <1>4, <2>1, <2>3, OneMore
  <2>5. n = m + 1 /\ mx \in Nat
    BY <1>4, <2>1, <2>3, Product
  <2>6. n * x = mx + x
    BY <2>3, <2>4, <2>5
  <2>7. Age(tile + 1, res) = mx + IndexLag
    BY <2>2, <2>3
  <2>8. QED
    BY <1>2, <1>5, <2>1, <2>5, <2>6, <2>7, Numbers
<1>12. QED
  BY <1>1, <1>9, <1>10, <1>11

LEMMA TilesAreSizes ==
  ASSUME NEW res \in Resolutions, NEW tile \in Tiles(res)
  PROVE  /\ IsSize(tile, res) /\ tile \in Resolutions /\ tile <= res
         /\ Interval[tile] \in Nat \ {0}
<1>1. tile \in Resolutions /\ tile <= res
  BY TileSizes
<1>2. IsSize(tile, res)
  <2>1. PICK f, c : f = finestTileResolution(res) /\ c = coarsestTileResolution(res)
    OBVIOUS
  <2>2. f \in Nat /\ c \in Nat /\ tile \in c..f
    BY <2>1, TileSizes DEF Tiles
  <2>3. QED
    BY <2>1, <2>2 DEF IsSize
<1>3. QED
  BY <1>1, <1>2, IntervalIs

LEMMA NextDivides ==
  ASSUME NEW r \in Resolutions, r # 1
  PROVE  r - 1 \in Resolutions /\ \E q \in Nat \ {0} : Interval[r - 1] = q * Interval[r]
<1>1. r - 1 \in Resolutions
  BY PricesAssumption DEF Resolutions
<1>2. PICK a, b : a = Interval[r - 1] /\ b = Interval[r]
  OBVIOUS
<1>3. a \in Nat \ {0} /\ b \in Nat \ {0} /\ a % b = 0
  BY <1>1, <1>2, IntervalIs, PricesAssumption
<1>4. \E q \in Int : a = q * b
  BY <1>3
<1>5. PICK q \in Int : a = q * b
  BY <1>4
<1>6. q \in Nat \ {0}
  BY <1>3, <1>5
<1>7. QED
  BY <1>1, <1>2, <1>5, <1>6

LEMMA Divides ==
  ASSUME NEW l \in Resolutions, NEW r \in Resolutions, l <= r
  PROVE  \E q \in Nat \ {0} : Interval[l] = q * Interval[r]
<1> DEFINE bad == {d \in Nat : l + d \in Resolutions /\ ~\E q \in Nat \ {0} : Interval[l] = q * Interval[l + d]}
<1>1. ASSUME bad # {} PROVE FALSE
  <2>1. PICK d \in bad : \A k \in bad : d <= k
    BY <1>1, LeastOf
  <2>2. d # 0
    <3> SUFFICES ASSUME d = 0 PROVE FALSE
      OBVIOUS
    <3>1. l + d = l /\ Interval[l] = 1 * Interval[l]
      BY IntervalIs DEF Resolutions
    <3>2. QED
      BY <2>1, <3>1
  <2>3. d - 1 \in Nat /\ d - 1 \notin bad /\ l + d \in Resolutions /\ l + d # 1 /\ (l + d) - 1 = l + (d - 1)
    <3>1. d \in Nat \ {0} /\ l + d \in Resolutions /\ l \in Nat \ {0}
      BY <2>1, <2>2 DEF Resolutions
    <3>2. d - 1 \in Nat /\ ~(d <= d - 1)
      BY <3>1
    <3>3. d - 1 \notin bad
      BY <2>1, <3>2
    <3>4. QED
      BY <3>1, <3>2, <3>3
  <2>4. PICK p \in Nat \ {0} : Interval[l + (d - 1)] = p * Interval[l + d]
    BY <2>3, NextDivides
  <2>5. l + (d - 1) \in Resolutions
    BY <2>3, NextDivides
  <2>6. PICK q \in Nat \ {0} : Interval[l] = q * Interval[l + (d - 1)]
    BY <2>3, <2>5
  <2>7. PICK a, b, c : a = Interval[l] /\ b = Interval[l + (d - 1)] /\ c = Interval[l + d]
    OBVIOUS
  <2>8. c \in Nat \ {0} /\ a = q * b /\ b = p * c
    BY <2>3, <2>4, <2>6, <2>7, IntervalIs
  <2>9. a = (q * p) * c /\ q * p \in Nat \ {0}
    BY <2>8
  <2>10. QED
    BY <2>1, <2>7, <2>9
<1>2. r - l \in Nat /\ l + (r - l) = r
  BY DEF Resolutions
<1>3. QED
  BY <1>1, <1>2
-----------------------------------------------------------------------------
(* Slots one after the other.                                              *)

LEMMA Concatenation ==
  ASSUME NEW S, NEW a \in Seq(S), NEW b \in Seq(S)
  PROVE  /\ a \o b \in Seq(S) /\ Len(a) \in Nat /\ Len(b) \in Nat
         /\ Len(a \o b) = Len(a) + Len(b)
         /\ \A i \in 1..Len(a) : (a \o b)[i] = a[i]
         /\ \A i \in 1..Len(b) : (a \o b)[Len(a) + i] = b[i]
         /\ \A i \in 1..Len(a \o b) : i \in 1..Len(a) \/ (i - Len(a) \in 1..Len(b) /\ i = Len(a) + (i - Len(a)))
OBVIOUS

(***************************************************************************)
(* A slot of a joined sequence is one of either part.                      *)
(***************************************************************************)
LEMMA JoinedSlot ==
  ASSUME NEW a \in Seq(Slot), NEW b \in Seq(Slot), NEW i \in 1..Len(a \o b)
  PROVE  \/ i \in 1..Len(a) /\ (a \o b)[i] = a[i]
         \/ \E m \in 1..Len(b) : i = Len(a) + m /\ (a \o b)[i] = b[m]
<1>1. i \in 1..Len(a) \/ (i - Len(a) \in 1..Len(b) /\ i = Len(a) + (i - Len(a)))
  BY Concatenation
<1>2. CASE i \in 1..Len(a)
  BY <1>2, Concatenation
<1>3. CASE i - Len(a) \in 1..Len(b) /\ i = Len(a) + (i - Len(a))
  <2>1. PICK m : m = i - Len(a)
    OBVIOUS
  <2>2. (a \o b)[Len(a) + m] = b[m]
    BY <1>3, <2>1, Concatenation
  <2>3. QED
    BY <1>3, <2>1, <2>2
<1>4. QED
  BY <1>1, <1>2, <1>3

LEMMA HasJoin ==
  ASSUME NEW a \in Seq(Slot), NEW b \in Seq(Slot), NEW t
  PROVE  Has(a \o b, t) <=> (Has(a, t) \/ Has(b, t))
<1>1. ASSUME Has(a, t) PROVE Has(a \o b, t)
  <2>1. PICK i \in 1..Len(a) : Among(a[i].trades, t)
    BY <1>1 DEF Has
  <2>2. i \in 1..Len(a \o b) /\ (a \o b)[i] = a[i]
    BY Concatenation
  <2>3. QED
    BY <2>1, <2>2 DEF Has
<1>2. ASSUME Has(b, t) PROVE Has(a \o b, t)
  <2>1. PICK i \in 1..Len(b) : Among(b[i].trades, t)
    BY <1>2 DEF Has
  <2>2. Len(a) + i \in 1..Len(a \o b) /\ (a \o b)[Len(a) + i] = b[i]
    BY Concatenation
  <2>3. QED
    BY <2>1, <2>2 DEF Has
<1>3. ASSUME Has(a \o b, t) PROVE Has(a, t) \/ Has(b, t)
  <2>1. PICK i \in 1..Len(a \o b) : Among((a \o b)[i].trades, t)
    BY <1>3 DEF Has
  <2>2. QED
    BY <2>1, JoinedSlot DEF Has
<1>4. QED
  BY <1>1, <1>2, <1>3

LEMMA FitParts ==
  ASSUME NEW slots, NEW lo, NEW hi, Fit(slots, lo, hi)
  PROVE  /\ slots \in Seq(Slot)
         /\ \A i \in 1..Len(slots) : Within(slots[i], lo, hi)
         /\ \A i \in 1..Len(slots) : slots[i].begin \in Int /\ slots[i].end \in Int /\ slots[i].trades \in Seq(Trades)
         /\ \A i \in 1..Len(slots) : \A k \in 1..Len(slots[i].trades) :
              Belongs(slots[i].trades[k], slots[i], lo, hi)
BY DEF Fit, Within, Slot

LEMMA FitJoin ==
  ASSUME NEW lo, NEW hi, NEW a, NEW b, Fit(a, lo, hi), Fit(b, lo, hi),
         \A i \in 1..Len(a), j \in 1..Len(b) : a[i].end <= b[j].begin,
         \A t : ~(Has(a, t) /\ Has(b, t))
  PROVE  Fit(a \o b, lo, hi)
<1> DEFINE c == a \o b
<1>1. a \in Seq(Slot) /\ b \in Seq(Slot) /\ c \in Seq(Slot)
  BY FitParts, Concatenation
<1>2. ASSUME NEW i \in 1..Len(c)
      PROVE  \/ i \in 1..Len(a) /\ c[i] = a[i]
             \/ \E m \in 1..Len(b) : i = Len(a) + m /\ c[i] = b[m]
  BY <1>1, JoinedSlot
<1>3. Len(a) \in Nat /\ Len(b) \in Nat
  BY <1>1, Concatenation
<1> HIDE DEF c
<1>4. \A i \in 1..Len(c) : Within(c[i], lo, hi)
  BY <1>2, FitParts
<1>5. ASSUME NEW i \in 1..Len(c), NEW j \in 1..Len(c), i < j PROVE c[i].end <= c[j].begin
  <2>1. CASE i \in 1..Len(a) /\ c[i] = a[i] /\ j \in 1..Len(a) /\ c[j] = a[j]
    BY <1>5, <2>1 DEF Fit
  <2>2. CASE i \in 1..Len(a) /\ c[i] = a[i] /\ \E m \in 1..Len(b) : j = Len(a) + m /\ c[j] = b[m]
    BY <2>2
  <2>3. CASE /\ \E m \in 1..Len(b) : i = Len(a) + m /\ c[i] = b[m]
             /\ \E m \in 1..Len(b) : j = Len(a) + m /\ c[j] = b[m]
    <3>1. PICK m \in 1..Len(b) : i = Len(a) + m /\ c[i] = b[m]
      BY <2>3
    <3>2. PICK n \in 1..Len(b) : j = Len(a) + n /\ c[j] = b[n]
      BY <2>3
    <3>3. m < n
      BY <1>3, <1>5, <3>1, <3>2
    <3>4. QED
      BY <3>1, <3>2, <3>3 DEF Fit
  <2>4. CASE j \in 1..Len(a) /\ \E m \in 1..Len(b) : i = Len(a) + m
    BY <1>3, <1>5, <2>4
  <2>5. QED
    BY <1>2, <2>1, <2>2, <2>3, <2>4
<1>6. \A i \in 1..Len(c) : \A k \in 1..Len(c[i].trades) : Belongs(c[i].trades[k], c[i], lo, hi)
  BY <1>2, FitParts
<1>7. ASSUME NEW i \in 1..Len(c), NEW j \in 1..Len(c), NEW k \in 1..Len(c[i].trades), NEW l \in 1..Len(c[j].trades),
             c[i].trades[k] = c[j].trades[l]
      PROVE  i = j /\ k = l
  <2> DEFINE t == c[i].trades[k]
  <2>1. CASE i \in 1..Len(a) /\ c[i] = a[i] /\ j \in 1..Len(a) /\ c[j] = a[j]
    BY <1>7, <2>1 DEF Fit
  <2>2. CASE i \in 1..Len(a) /\ c[i] = a[i] /\ \E m \in 1..Len(b) : j = Len(a) + m /\ c[j] = b[m]
    <3>1. Has(a, t) /\ Has(b, t)
      BY <1>7, <2>2 DEF Has, Among
    <3>2. QED
      BY <3>1
  <2>3. CASE /\ \E m \in 1..Len(b) : i = Len(a) + m /\ c[i] = b[m]
             /\ \E m \in 1..Len(b) : j = Len(a) + m /\ c[j] = b[m]
    <3>1. PICK m \in 1..Len(b) : i = Len(a) + m /\ c[i] = b[m]
      BY <2>3
    <3>2. PICK n \in 1..Len(b) : j = Len(a) + n /\ c[j] = b[n]
      BY <2>3
    <3>3. m = n /\ k = l
      BY <1>7, <3>1, <3>2 DEF Fit
    <3>4. QED
      BY <3>1, <3>2, <3>3
  <2>4. CASE j \in 1..Len(a) /\ c[j] = a[j] /\ \E m \in 1..Len(b) : i = Len(a) + m /\ c[i] = b[m]
    <3>1. Has(a, t) /\ Has(b, t)
      BY <1>7, <2>4 DEF Has, Among
    <3>2. QED
      BY <3>1
  <2>5. QED
    BY <1>2, <2>1, <2>2, <2>3, <2>4
<1>8. QED
  BY <1>1, <1>4, <1>5, <1>6, <1>7 DEF Fit, c

LEMMA FitWiden ==
  ASSUME NEW slots, NEW lo \in Int, NEW mid \in Int, NEW hi \in Int, NEW lo2 \in Int, lo2 <= lo, mid <= hi,
         Fit(slots, lo, mid)
  PROVE  Fit(slots, lo2, hi)
<1>1. \A i \in 1..Len(slots) : Within(slots[i], lo2, hi)
  BY DEF Fit, Within, Slot
<1>2. \A t, slot : Belongs(t, slot, lo, mid) => Belongs(t, slot, lo2, hi)
  BY DEF Belongs
<1>3. QED
  BY <1>1, <1>2 DEF Fit

(***************************************************************************)
(* One slot.                                                               *)
(***************************************************************************)
LEMMA OneSlot ==
  ASSUME NEW lo, NEW hi, NEW slot, Within(slot, lo, hi),
         \A k \in 1..Len(slot.trades) : Belongs(slot.trades[k], slot, lo, hi),
         \A k, l \in 1..Len(slot.trades) : slot.trades[k] = slot.trades[l] => k = l
  PROVE  /\ Fit(<<slot>>, lo, hi) /\ Len(<<slot>>) = 1 /\ <<slot>>[1] = slot
         /\ \A t : Has(<<slot>>, t) <=> Among(slot.trades, t)
<1>1. <<slot>> \in Seq(Slot) /\ Len(<<slot>>) = 1 /\ <<slot>>[1] = slot
  BY DEF Within
<1>2. PICK s : s = <<slot>>
  OBVIOUS
<1>3. s \in Seq(Slot) /\ Len(s) = 1 /\ s[1] = slot
  BY <1>1, <1>2
<1>4. \A i \in 1..Len(s) : i = 1
  BY <1>3
<1>5. Fit(s, lo, hi)
  BY <1>3, <1>4 DEF Fit
<1>6. \A t : Has(s, t) <=> Among(slot.trades, t)
  BY <1>3, <1>4 DEF Has
<1>7. QED
  BY <1>1, <1>2, <1>5, <1>6

LEMMA FitNone ==
  ASSUME NEW lo, NEW hi
  PROVE  Fit(<<>>, lo, hi) /\ \A t : ~Has(<<>>, t)
<1>1. PICK s : s = <<>>
  OBVIOUS
<1>2. s \in Seq(Slot) /\ 1..Len(s) = {}
  BY <1>1
<1>3. Fit(s, lo, hi) /\ \A t : ~Has(s, t)
  BY <1>2 DEF Fit, Has
<1>4. QED
  BY <1>1, <1>3

(***************************************************************************)
(* Slots of two times that follow one another have no trade in common.     *)
(***************************************************************************)
LEMMA HasWhen ==
  ASSUME NEW slots, NEW lo, NEW hi, Fit(slots, lo, hi), NEW t, Has(slots, t)
  PROVE  t \in Trades /\ trade[t] # NoTrade /\ trade[t].matched \in lo..hi - 1
<1>1. PICK i \in 1..Len(slots) : Among(slots[i].trades, t)
  BY DEF Has
<1>2. PICK k \in 1..Len(slots[i].trades) : slots[i].trades[k] = t
  BY <1>1 DEF Among
<1>3. Belongs(t, slots[i], lo, hi) /\ slots[i].trades \in Seq(Trades)
  BY <1>2, FitParts
<1>4. QED
  BY <1>2, <1>3 DEF Belongs

LEMMA FitAfter ==
  ASSUME NEW lo \in Int, NEW mid \in Int, NEW hi \in Int, lo <= mid, mid <= hi,
         NEW a, NEW b, Fit(a, lo, mid), Fit(b, mid, hi)
  PROVE  Fit(a \o b, lo, hi)
<1>1. Fit(a, lo, hi) /\ Fit(b, lo, hi)
  BY FitWiden
<1>2. ASSUME NEW i \in 1..Len(a), NEW j \in 1..Len(b) PROVE a[i].end <= b[j].begin
  <2>1. a[i].end <= mid /\ mid <= b[j].begin /\ a[i].end \in Int /\ b[j].begin \in Int
    BY FitParts DEF Within
  <2>2. QED
    BY <2>1
<1>3. ASSUME NEW t, Has(a, t), Has(b, t) PROVE FALSE
  <2>1. trade[t].matched \in lo..mid - 1
    BY <1>3, HasWhen
  <2>2. trade[t].matched \in mid..hi - 1
    BY <1>3, HasWhen
  <2>3. QED
    BY <2>1, <2>2
<1>4. QED
  BY <1>1, <1>2, <1>3, FitJoin
-----------------------------------------------------------------------------
(* The transactions of a time, in the order in which they were matched.    *)

Timed == \A t \in Trades : trade[t].matched \in Int

LEMMA Latest ==
  ASSUME Timed, NEW S \in SUBSET Trades, IsFiniteSet(S), S # {}
  PROVE  \E x \in S : \A y \in S : trade[y].matched <= trade[x].matched
<1> DEFINE none(T) == ~\E x \in T : \A y \in T : trade[y].matched <= trade[x].matched
           bad == {n \in Nat : \E T \in SUBSET Trades : IsFiniteSet(T) /\ T # {} /\ Cardinality(T) = n /\ none(T)}
<1>1. ASSUME bad # {} PROVE FALSE
  <2>1. PICK n \in bad : \A k \in bad : n <= k
    BY <1>1, LeastOf
  <2>2. PICK T \in SUBSET Trades : IsFiniteSet(T) /\ T # {} /\ Cardinality(T) = n /\ none(T)
    BY <2>1
  <2>3. PICK z \in T : TRUE
    BY <2>2
  <2>4. PICK U : U = T \ {z}
    OBVIOUS
  <2>5. IsFiniteSet(U) /\ Cardinality(U) = n - 1 /\ U \in SUBSET Trades
    BY <2>2, <2>3, <2>4, FS_RemoveElement
  <2>6. n - 1 \in Nat /\ ~(n <= n - 1)
    BY <2>1, <2>5, FS_CardinalityType
  <2>7. n - 1 \notin bad
    BY <2>1, <2>6
  <2>8. CASE U = {}
    <3>1. T = {z} /\ trade[z].matched \in Int
      BY <2>2, <2>3, <2>4, <2>8 DEF Timed
    <3>2. QED
      BY <2>2, <3>1
  <2>9. CASE U # {}
    <3>1. ~none(U)
      BY <2>5, <2>6, <2>7, <2>9
    <3>2. PICK x \in U : \A y \in U : trade[y].matched <= trade[x].matched
      BY <3>1
    <3>3. x \in T /\ \A y \in T : y = z \/ y \in U
      BY <2>4
    <3>4. trade[x].matched \in Int /\ trade[z].matched \in Int /\ \A y \in T : trade[y].matched \in Int
      BY <2>2, <3>3 DEF Timed
    <3>5. CASE trade[z].matched <= trade[x].matched
      BY <2>2, <3>2, <3>3, <3>5
    <3>6. CASE trade[x].matched <= trade[z].matched
      <4>1. \A y \in T : trade[y].matched <= trade[z].matched
        BY <3>2, <3>3, <3>4, <3>6
      <4>2. QED
        BY <2>2, <2>3, <4>1
    <3>7. QED
      BY <3>4, <3>5, <3>6
  <2>10. QED
    BY <2>8, <2>9
<1>2. Cardinality(S) \in Nat
  BY FS_CardinalityType
<1>3. QED
  BY <1>1, <1>2

Ascending(s, n) == \A i, j \in 1..n : i < j => s[i] # s[j] /\ trade[s[i]].matched <= trade[s[j]].matched

LEMMA CanBeSorted ==
  ASSUME Timed, NEW S \in SUBSET Trades, IsFiniteSet(S)
  PROVE  \E s \in [1..Cardinality(S) -> S] : Ascending(s, Cardinality(S))
<1> DEFINE sorted(T, n) == \E s \in [1..n -> T] : Ascending(s, n)
           bad == {n \in Nat : \E T \in SUBSET Trades : IsFiniteSet(T) /\ Cardinality(T) = n /\ ~sorted(T, n)}
<1>1. ASSUME bad # {} PROVE FALSE
  <2>1. PICK n \in bad : \A k \in bad : n <= k
    BY <1>1, LeastOf
  <2>2. PICK T \in SUBSET Trades : IsFiniteSet(T) /\ Cardinality(T) = n /\ ~sorted(T, n)
    BY <2>1
  <2>3. n # 0
    <3> SUFFICES ASSUME n = 0 PROVE FALSE
      OBVIOUS
    <3> DEFINE s == [i \in 1..0 |-> i]
    <3>1. s \in [1..n -> T] /\ Ascending(s, n)
      BY DEF Ascending
    <3>2. QED
      BY <2>2, <3>1
  <2>4. T # {}
    BY <2>2, <2>3, FS_EmptySet
  <2>5. PICK x \in T : \A y \in T : trade[y].matched <= trade[x].matched
    BY <2>2, <2>4, Latest
  <2>6. PICK U : U = T \ {x}
    OBVIOUS
  <2>7. IsFiniteSet(U) /\ Cardinality(U) = n - 1 /\ U \in SUBSET Trades
    BY <2>2, <2>5, <2>6, FS_RemoveElement
  <2>8. n \in Nat \ {0} /\ n - 1 \in Nat /\ ~(n <= n - 1)
    BY <2>1, <2>3
  <2>9. n - 1 \notin bad
    BY <2>1, <2>8
  <2>10. sorted(U, n - 1)
    BY <2>7, <2>8, <2>9
  <2>11. PICK s \in [1..n - 1 -> U] : Ascending(s, n - 1)
    BY <2>10
  <2>12. PICK f : f = [i \in 1..n |-> IF i = n THEN x ELSE s[i]]
    OBVIOUS
  <2>13. f[n] = x /\ \A i \in 1..n - 1 : f[i] = s[i] /\ s[i] \in U
    BY <2>8, <2>12
  <2>14. \A i \in 1..n : i = n \/ i \in 1..n - 1
    BY <2>8
  <2>15. f \in [1..n -> T]
    BY <2>6, <2>12, <2>13, <2>14
  <2>16. ASSUME NEW i \in 1..n, NEW j \in 1..n, i < j
         PROVE  f[i] # f[j] /\ trade[f[i]].matched <= trade[f[j]].matched
    <3>1. i \in 1..n - 1
      BY <2>8, <2>16
    <3>2. CASE j = n
      <4>1. f[i] \in U /\ f[j] = x
        BY <2>13, <3>1, <3>2
      <4>2. QED
        BY <2>5, <2>6, <4>1
    <3>3. CASE j \in 1..n - 1
      BY <2>11, <2>13, <2>16, <3>1, <3>3 DEF Ascending
    <3>4. QED
      BY <2>14, <3>2, <3>3
  <2>17. QED
    BY <2>2, <2>15, <2>16 DEF Ascending
<1>2. Cardinality(S) \in Nat
  BY FS_CardinalityType
<1>3. QED
  BY <1>1, <1>2

MatchedIn(seen, begin, end) == {t \in seen : begin <= trade[t].matched /\ trade[t].matched < end}

Lists(txs, found) ==
  /\ txs \in Seq(Trades) /\ Len(txs) \in Nat
  /\ \A i \in 1..Len(txs) : txs[i] \in found
  /\ \A t \in found : \E i \in 1..Len(txs) : txs[i] = t
  /\ Ascending(txs, Len(txs))

LEMMA Transactions ==
  ASSUME Timed, NEW seen \in SUBSET Trades, NEW begin \in Int, NEW end \in Int
  PROVE  Lists(QueryTransactions(seen, begin, end), MatchedIn(seen, begin, end))
<1> PICK txs : txs = QueryTransactions(seen, begin, end)
  OBVIOUS
<1> DEFINE found == MatchedIn(seen, begin, end)
           n == Cardinality(found)
<1>1. found \in SUBSET Trades /\ IsFiniteSet(found)
  <2>1. found \in SUBSET Trades
    BY DEF MatchedIn
  <2>2. QED
    BY <2>1, FS_Subset, PricesAssumption
<1>2. n \in Nat
  BY <1>1, FS_CardinalityType
<1>3. txs = CHOOSE s \in [1..n -> found] :
              \A i, j \in 1..n : i < j => s[i] # s[j] /\ trade[s[i]].matched <= trade[s[j]].matched
  BY Zenon DEF QueryTransactions, MatchedIn
<1>4. \E s \in [1..n -> found] :
        \A i, j \in 1..n : i < j => s[i] # s[j] /\ trade[s[i]].matched <= trade[s[j]].matched
  BY <1>1, CanBeSorted, Zenon DEF Ascending
<1>5. txs \in [1..n -> found] /\ Ascending(txs, n)
  BY <1>3, <1>4, Zenon DEF Ascending
<1> HIDE DEF found
<1>6. txs \in Seq(found) /\ Len(txs) = n
  BY <1>2, <1>5
<1>7. txs \in Seq(Trades)
  BY <1>1, <1>2, <1>5
<1>8. txs \in Injection(1..n, found)
  <2>1. \A i, j \in 1..n : txs[i] = txs[j] => i = j
    <3> SUFFICES ASSUME NEW i \in 1..n, NEW j \in 1..n, txs[i] = txs[j] PROVE i = j
      OBVIOUS
    <3>1. i < j \/ j < i \/ i = j
      BY <1>2
    <3>2. QED
      BY <1>5, <3>1 DEF Ascending
  <2>2. QED
    BY <1>5, <2>1, Zenon DEF Injection, IsInjective
<1>9. IsFiniteSet(1..n) /\ Cardinality(1..n) = n
  BY <1>2, FS_Interval
<1>10. txs \in Surjection(1..n, found)
  BY <1>1, <1>8, <1>9, FS_Injection
<1>11. \A t \in found : \E i \in 1..n : txs[i] = t
  BY <1>10 DEF Surjection
<1>12. QED
  BY <1>2, <1>5, <1>6, <1>7, <1>11 DEF found, Lists
-----------------------------------------------------------------------------
(* Reading a tile from the datastore: the slots so far, and the window.    *)

Window == [slots : Seq(Slot), begin : Int, end : Int, trades : Seq(Trades)]

Scan(s, res, lo, hi) ==
  /\ s \in Window
  /\ Fit(s.slots, lo, hi)
  /\ \A i \in 1..Len(s.slots) : s.slots[i].end <= s.begin
  /\ Whole(lo, s.begin, Interval[res])
  /\ s.end = s.begin + Interval[res] /\ s.end <= hi
  /\ \A k \in 1..Len(s.trades) : Belongs(s.trades[k], s, lo, hi)
  /\ \A k, l \in 1..Len(s.trades) : s.trades[k] = s.trades[l] => k = l
  /\ \A t : ~(Has(s.slots, t) /\ Among(s.trades, t))

Collected(s, t) == Has(s.slots, t) \/ Among(s.trades, t)

LEMMA ScanNumbers ==
  ASSUME NEW s, NEW res \in Resolutions, NEW lo \in Int, NEW hi \in Int, Scan(s, res, lo, hi)
  PROVE  /\ s.begin \in Int /\ s.end \in Int /\ s.trades \in Seq(Trades) /\ s.slots \in Seq(Slot)
         /\ lo <= s.begin /\ s.begin < s.end /\ s.end <= hi /\ s.end = s.begin + Interval[res]
         /\ Interval[res] \in Nat \ {0}
<1>1. PICK I : I = Interval[res] /\ I \in Nat \ {0}
  BY IntervalIs
<1>2. PICK q \in Nat : s.begin = lo + q * I
  BY <1>1 DEF Scan, Whole
<1>3. PICK x \in Nat : s.begin = lo + x
  BY <1>1, <1>2, Product
<1>4. s.begin \in Int /\ s.end \in Int /\ s.trades \in Seq(Trades) /\ s.slots \in Seq(Slot)
  BY DEF Scan, Window
<1>5. s.end = s.begin + I /\ s.end <= hi
  BY <1>1 DEF Scan
<1>6. lo <= s.begin /\ s.begin < s.end
  BY <1>1, <1>3, <1>4, <1>5
<1>7. QED
  BY <1>1, <1>4, <1>5, <1>6

LEMMA FlushedFits ==
  ASSUME NEW s, NEW res \in Resolutions, NEW lo \in Int, NEW hi \in Int, Scan(s, res, lo, hi)
  PROVE  /\ Fit(Flushed(s), lo, hi)
         /\ \A i \in 1..Len(Flushed(s)) : Flushed(s)[i].end <= s.end
         /\ \A t : Has(Flushed(s), t) <=> Collected(s, t)
<1>1. /\ s.begin \in Int /\ s.end \in Int /\ s.trades \in Seq(Trades) /\ s.slots \in Seq(Slot)
      /\ lo <= s.begin /\ s.begin < s.end /\ s.end <= hi
  BY ScanNumbers
<1>2. CASE s.trades = <<>>
  <2>1. Flushed(s) = s.slots
    BY <1>2 DEF Flushed
  <2>2. \A t : ~Among(s.trades, t)
    <3>1. Len(s.trades) = 0
      BY <1>2
    <3>2. QED
      BY <3>1 DEF Among
  <2>3. \A i \in 1..Len(s.slots) : s.slots[i].end <= s.end
    <3> SUFFICES ASSUME NEW i \in 1..Len(s.slots) PROVE s.slots[i].end <= s.end
      OBVIOUS
    <3>1. s.slots[i].end \in Int /\ s.slots[i].end <= s.begin
      BY FitParts DEF Scan
    <3>2. QED
      BY <1>1, <3>1
  <2>4. QED
    BY <2>1, <2>2, <2>3 DEF Scan, Collected
<1>3. CASE s.trades # <<>>
  <2>1. PICK slot : slot = [begin |-> s.begin, end |-> s.end, trades |-> s.trades]
    OBVIOUS
  <2>2. slot.begin = s.begin /\ slot.end = s.end /\ slot.trades = s.trades
    BY <2>1
  <2>3. Within(slot, lo, hi)
    BY <1>1, <1>3, <2>1 DEF Within, Slot
  <2>4. \A k \in 1..Len(slot.trades) : Belongs(slot.trades[k], slot, lo, hi)
    BY <2>2 DEF Scan, Belongs
  <2>5. \A k, l \in 1..Len(slot.trades) : slot.trades[k] = slot.trades[l] => k = l
    BY <2>2 DEF Scan
  <2>6. /\ Fit(<<slot>>, lo, hi) /\ Len(<<slot>>) = 1 /\ <<slot>>[1] = slot
        /\ \A t : Has(<<slot>>, t) <=> Among(slot.trades, t)
    BY <2>3, <2>4, <2>5, OneSlot
  <2>7. PICK one : one = <<slot>>
    OBVIOUS
  <2>8. Fit(one, lo, hi) /\ one \in Seq(Slot) /\ Len(one) = 1 /\ one[1] = slot
    BY <2>6, <2>7, FitParts
  <2>9. Flushed(s) = s.slots \o one
    <3>1. Flushed(s) = Append(s.slots, slot)
      BY <1>3, <2>1 DEF Flushed
    <3>2. slot \in Slot
      BY <2>3 DEF Within
    <3>3. QED
      BY <1>1, <2>7, <3>1, <3>2
  <2>10. ASSUME NEW i \in 1..Len(s.slots), NEW j \in 1..Len(one) PROVE s.slots[i].end <= one[j].begin
    <3>1. j = 1
      BY <2>8
    <3>2. QED
      BY <2>2, <2>8, <3>1 DEF Scan
  <2>11. \A t : ~(Has(s.slots, t) /\ Has(one, t))
    BY <2>2, <2>6, <2>7 DEF Scan
  <2>12. Fit(s.slots \o one, lo, hi)
    BY <2>8, <2>10, <2>11, FitJoin DEF Scan
  <2>13. \A t : Has(s.slots \o one, t) <=> Collected(s, t)
    BY <1>1, <2>2, <2>6, <2>7, <2>8, HasJoin DEF Collected
  <2>14. ASSUME NEW i \in 1..Len(s.slots \o one) PROVE (s.slots \o one)[i].end <= s.end
    <3>1. \/ i \in 1..Len(s.slots) /\ (s.slots \o one)[i] = s.slots[i]
          \/ \E m \in 1..Len(one) : i = Len(s.slots) + m /\ (s.slots \o one)[i] = one[m]
      BY <1>1, <2>8, JoinedSlot
    <3>2. CASE i \in 1..Len(s.slots) /\ (s.slots \o one)[i] = s.slots[i]
      <4>1. s.slots[i].end \in Int /\ s.slots[i].end <= s.begin
        BY <3>2, FitParts DEF Scan
      <4>2. QED
        BY <1>1, <3>2, <4>1
    <3>3. CASE \E m \in 1..Len(one) : i = Len(s.slots) + m /\ (s.slots \o one)[i] = one[m]
      <4>1. (s.slots \o one)[i] = slot
        BY <2>8, <3>3
      <4>2. QED
        BY <1>1, <2>2, <4>1
    <3>4. QED
      BY <3>1, <3>2, <3>3
  <2>15. QED
    BY <2>9, <2>12, <2>13, <2>14
<1>4. QED
  BY <1>2, <1>3

(***************************************************************************)
(* The window goes to where the next trade is.                             *)
(***************************************************************************)
LEMMA WindowMoves ==
  ASSUME NEW s, NEW res \in Resolutions, NEW lo \in Int, NEW hi \in Int, Scan(s, res, lo, hi),
         Whole(lo, hi, Interval[res]), NEW at \in Int, s.begin <= at, at < hi,
         NEW a, a = AdvanceTo(s, res, at)
  PROVE  /\ Scan(a, res, lo, hi)
         /\ a.begin <= at /\ at <= a.end
         /\ \A t : Collected(a, t) <=> Collected(s, t)
<1>1. /\ s.begin \in Int /\ s.end \in Int /\ s.trades \in Seq(Trades) /\ s.slots \in Seq(Slot)
      /\ lo <= s.begin /\ s.begin < s.end /\ s.end <= hi /\ s.end = s.begin + Interval[res]
  BY ScanNumbers
<1>2. CASE ~(s.end < at)
  <2>1. a = s
    BY <1>2, Zenon DEF AdvanceTo
  <2>2. QED
    BY <1>1, <1>2, <2>1
<1>3. CASE s.end < at
  <2>1. PICK I : I = Interval[res] /\ I \in Nat \ {0}
    BY IntervalIs
  <2>2. PICK k : k = (at - s.end - 1) \div I
    OBVIOUS
  <2>3. k \in Nat /\ k * I <= at - s.end - 1 /\ at - s.end - 1 < k * I + I /\ k * I \in Nat
    <3>1. PICK x : x = at - s.end - 1
      OBVIOUS
    <3>2. x \in Nat
      BY <1>1, <1>3, <3>1
    <3>3. x \in Int /\ k = x \div I
      BY <2>2, <3>1, <3>2
    <3>4. (x \div I) * I <= x /\ x < (x \div I) * I + I
      BY <2>1, <3>3, Quotient
    <3>5. x \div I \in Nat /\ (x \div I) * I \in Nat
      BY <2>1, <3>2, NaturalQuotient
    <3>6. QED
      BY <3>1, <3>3, <3>4, <3>5
  <2>4. PICK q \in Nat : s.begin = lo + q * I
    BY <2>1 DEF Scan, Whole
  <2>5. a = [slots |-> Flushed(s), begin |-> s.end + k * I, end |-> s.end + I + k * I, trades |-> <<>>]
    BY <1>3, <2>1, <2>2 DEF AdvanceTo, Advance, Scan, Window
  <2>6. a.slots = Flushed(s) /\ a.begin = s.end + k * I /\ a.end = s.end + I + k * I /\ a.trades = <<>>
    BY <2>5
  <2>7. a.begin = lo + (q + 1 + k) * I /\ q + 1 + k \in Nat
    <3>1. (q + 1 + k) * I = q * I + I + k * I
      BY <2>1, <2>3
    <3>2. PICK x, y : x = q * I /\ y = k * I
      OBVIOUS
    <3>3. x \in Nat /\ y \in Nat
      BY <2>1, <2>3, <3>2, Product
    <3>4. s.end = (lo + x) + I /\ a.begin = s.end + y
      BY <1>1, <2>1, <2>4, <2>6, <3>2
    <3>5. a.begin = lo + (x + I + y)
      BY <2>1, <3>3, <3>4
    <3>6. q + 1 + k \in Nat
      BY <2>3
    <3>7. QED
      BY <3>1, <3>2, <3>5, <3>6
  <2>8. a.begin < at /\ at <= a.end /\ a.end = a.begin + I /\ a.begin \in Int /\ a.end \in Int /\ s.end <= a.begin
    <3>1. PICK y : y = k * I
      OBVIOUS
    <3>2. y \in Nat /\ y <= at - s.end - 1 /\ at - s.end - 1 < y + I /\ a.begin = s.end + y /\ a.end = s.end + I + y
      BY <2>3, <2>6, <3>1
    <3>3. PICK b, e, se, sb : b = a.begin /\ e = a.end /\ se = s.end /\ sb = s.begin
      OBVIOUS
    <3>4. se \in Int /\ b = se + y /\ e = se + I + y
      BY <1>1, <3>2, <3>3
    <3>5. b < at /\ at <= e /\ e = b + I /\ b \in Int /\ e \in Int /\ se <= b
      BY <2>1, <3>2, <3>3, <3>4
    <3>6. QED
      BY <3>3, <3>5
  <2>9. a.end <= hi
    <3> PICK m \in Nat : hi = lo + m * I
      BY <2>1 DEF Whole
    <3>1. PICK p : p = q + 1 + k
      OBVIOUS
    <3>2. p \in Nat /\ p * I < m * I
      BY <2>1, <2>7, <2>8, <3>1
    <3>3. PICK x, y : x = p * I /\ y = m * I
      OBVIOUS
    <3>4. x + I <= y /\ x \in Nat /\ y \in Nat
      BY <2>1, <3>2, <3>3, LessByOne, Product
    <3>5. a.begin = lo + x /\ hi = lo + y
      BY <2>1, <2>7, <3>1, <3>3
    <3>6. QED
      BY <2>1, <2>8, <3>4, <3>5
  <2>10. /\ Fit(a.slots, lo, hi)
         /\ \A i \in 1..Len(a.slots) : a.slots[i].end <= s.end
         /\ \A t : Has(a.slots, t) <=> Collected(s, t)
    BY <2>6, FlushedFits
  <2>11. \A i \in 1..Len(a.slots) : a.slots[i].end <= a.begin
    <3> SUFFICES ASSUME NEW i \in 1..Len(a.slots) PROVE a.slots[i].end <= a.begin
      OBVIOUS
    <3>1. a.slots[i].end \in Int
      BY <2>10, FitParts
    <3>2. QED
      BY <1>1, <2>8, <2>10, <3>1
  <2>12. Len(a.trades) = 0
    BY <2>6
  <2>13. a \in Window
    <3>1. a.slots \in Seq(Slot)
      BY <2>10, FitParts
    <3>2. a.trades \in Seq(Trades)
      BY <2>6
    <3>3. QED
      BY <2>5, <2>6, <2>8, <3>1, <3>2 DEF Window
  <2>14. Scan(a, res, lo, hi)
    <3>1. 1..Len(a.trades) = {} /\ \A t : ~Among(a.trades, t)
      BY <2>12 DEF Among
    <3>2. Whole(lo, a.begin, Interval[res])
      BY <2>1, <2>7 DEF Whole
    <3>3. QED
      BY <2>1, <2>8, <2>9, <2>10, <2>11, <2>13, <3>1, <3>2 DEF Scan
  <2>15. \A t : Collected(a, t) <=> Collected(s, t)
    BY <2>10, <2>12 DEF Collected, Among
  <2>16. QED
    BY <2>8, <2>14, <2>15, <1>1
<1>4. QED
  BY <1>2, <1>3

LEMMA Appended ==
  ASSUME NEW ts \in Seq(Trades), NEW t \in Trades
  PROVE  /\ Append(ts, t) \in Seq(Trades) /\ Len(ts) \in Nat /\ Len(Append(ts, t)) = Len(ts) + 1
         /\ \A k \in 1..Len(ts) : Append(ts, t)[k] = ts[k]
         /\ Append(ts, t)[Len(ts) + 1] = t
         /\ \A k \in 1..Len(Append(ts, t)) : k \in 1..Len(ts) \/ k = Len(ts) + 1
OBVIOUS

LEMMA AddedToWindow ==
  ASSUME NEW s, NEW res \in Resolutions, NEW lo \in Int, NEW hi \in Int, Scan(s, res, lo, hi),
         NEW t \in Trades, Belongs(t, s, lo, hi), ~Collected(s, t),
         NEW a, a = [s EXCEPT !.trades = Append(@, t)]
  PROVE  /\ Scan(a, res, lo, hi) /\ a.begin = s.begin
         /\ \A u : Collected(a, u) <=> (Collected(s, u) \/ u = t)
<1>1. s \in Window
  BY DEF Scan
<1>2. a.slots = s.slots /\ a.begin = s.begin /\ a.end = s.end /\ a.trades = Append(s.trades, t)
  BY <1>1 DEF Window
<1>3. PICK ts : ts = s.trades /\ ts \in Seq(Trades)
  BY <1>1 DEF Window
<1>4. PICK n : n = Len(ts) /\ n \in Nat
  BY <1>3
<1>5. PICK as : as = Append(ts, t)
  OBVIOUS
<1>6. /\ as \in Seq(Trades) /\ Len(as) = n + 1 /\ as[n + 1] = t
      /\ \A k \in 1..n : as[k] = ts[k]
      /\ \A k \in 1..n + 1 : k \in 1..n \/ k = n + 1
  BY <1>3, <1>4, <1>5, Appended
<1>7. a \in Window
  BY <1>1, <1>2, <1>3, <1>5, <1>6 DEF Window
<1>8. \A k \in 1..n : ts[k] # t
  BY <1>3, <1>4 DEF Collected, Among
<1>9. \A k \in 1..n + 1 : Belongs(as[k], a, lo, hi)
  BY <1>2, <1>3, <1>4, <1>6 DEF Scan, Belongs
<1>10. \A k, l \in 1..n + 1 : as[k] = as[l] => k = l
  <2>1. \A k, l \in 1..n : ts[k] = ts[l] => k = l
    BY <1>3, <1>4 DEF Scan
  <2>2. QED
    BY <1>6, <1>8, <2>1
<1>11. \A u : Among(as, u) <=> (Among(ts, u) \/ u = t)
  <2> TAKE u
  <2>1. n + 1 \in 1..n + 1 /\ \A k \in 1..n : k \in 1..n + 1
    BY <1>4
  <2>2. QED
    BY <1>4, <1>6, <2>1 DEF Among
<1>12. \A u : Collected(a, u) <=> (Collected(s, u) \/ u = t)
  BY <1>2, <1>3, <1>5, <1>11 DEF Collected
<1>13. \A u : ~(Has(a.slots, u) /\ Among(a.trades, u))
  BY <1>2, <1>3, <1>5, <1>11 DEF Collected, Scan
<1>14. Scan(a, res, lo, hi)
  <2>1. a.trades = as /\ Len(a.trades) = n + 1
    BY <1>2, <1>3, <1>5, <1>6
  <2>2. \A k \in 1..Len(a.trades) : Belongs(a.trades[k], a, lo, hi)
    BY <1>9, <2>1
  <2>3. \A k, l \in 1..Len(a.trades) : a.trades[k] = a.trades[l] => k = l
    <3> SUFFICES ASSUME NEW k \in 1..Len(a.trades), NEW l \in 1..Len(a.trades), a.trades[k] = a.trades[l]
                 PROVE  k = l
      OBVIOUS
    <3>1. k \in 1..n + 1 /\ l \in 1..n + 1 /\ as[k] = as[l]
      BY <2>1
    <3>2. QED
      BY <1>10, <3>1
  <2>4. /\ Fit(a.slots, lo, hi) /\ \A i \in 1..Len(a.slots) : a.slots[i].end <= a.begin
        /\ Whole(lo, a.begin, Interval[res])
        /\ a.end = a.begin + Interval[res] /\ a.end <= hi
    BY <1>2 DEF Scan
  <2>5. QED
    BY <1>7, <1>13, <2>2, <2>3, <2>4 DEF Scan
<1>15. QED
  BY <1>2, <1>12, <1>14

WithPrice(a, s, res, lo, hi, t) ==
  /\ Scan(a, res, lo, hi) /\ a.begin <= trade[t].matched
  /\ \A u : Collected(a, u) <=> (Collected(s, u) \/ u = t)

LEMMA AddPriceScans ==
  ASSUME NEW s, NEW res \in Resolutions, NEW lo \in Int, NEW hi \in Int, Scan(s, res, lo, hi),
         Whole(lo, hi, Interval[res]),
         NEW t \in Trades, trade[t] # NoTrade, trade[t].matched \in Int,
         s.begin <= trade[t].matched, trade[t].matched < hi, ~Collected(s, t)
  PROVE  WithPrice(AddPrice(s, res, t), s, res, lo, hi, t)
<1> PICK a : a = AddPrice(s, res, t)
  OBVIOUS
<1>1. PICK w : w = AdvanceTo(s, res, trade[t].matched)
  OBVIOUS
<1>2. /\ Scan(w, res, lo, hi) /\ w.begin <= trade[t].matched /\ trade[t].matched <= w.end
      /\ \A u : Collected(w, u) <=> Collected(s, u)
  BY <1>1, WindowMoves
<1>3. Belongs(t, w, lo, hi)
  <2>1. lo <= s.begin /\ s.begin \in Int /\ w.begin \in Int /\ w.end \in Int
    BY <1>2, ScanNumbers
  <2>2. QED
    BY <1>2, <2>1 DEF Belongs
<1>4. a = [w EXCEPT !.trades = Append(@, t)]
  BY <1>1 DEF AddPrice
<1>5. ~Collected(w, t)
  BY <1>2
<1>6. /\ Scan(a, res, lo, hi) /\ a.begin = w.begin
      /\ \A u : Collected(a, u) <=> (Collected(w, u) \/ u = t)
  BY <1>2, <1>3, <1>4, <1>5, AddedToWindow
<1>7. QED
  BY <1>2, <1>6 DEF WithPrice

(***************************************************************************)
(* The recursive function in FromDatastore exists.                         *)
(***************************************************************************)
ScanStep(txs, res, base, n, g) ==
  [k \in 0..n |-> IF k = 0 THEN base ELSE AddPrice(g[k - 1], res, txs[k])]

LEMMA ScanExists ==
  ASSUME NEW txs, NEW res, NEW base, NEW n \in Nat
  PROVE  \E g : g = ScanStep(txs, res, base, n, g)
<1> DEFINE bad == {k \in Nat : ~\E g : g = ScanStep(txs, res, base, k, g)}
<1>1. ASSUME bad # {} PROVE FALSE
  <2>1. PICK m \in bad : \A k \in bad : m <= k
    BY <1>1, LeastOf
  <2>2. m # 0
    <3> SUFFICES ASSUME m = 0 PROVE FALSE
      OBVIOUS
    <3> DEFINE g == [k \in 0..0 |-> base]
    <3>1. g = ScanStep(txs, res, base, 0, g)
      BY DEF ScanStep
    <3>2. QED
      BY <2>1, <3>1
  <2>3. m \in Nat \ {0} /\ m - 1 \in Nat /\ ~(m <= m - 1)
    BY <2>1, <2>2
  <2>4. PICK g : g = ScanStep(txs, res, base, m - 1, g)
    BY <2>1, <2>3
  <2>5. PICK f : f = ScanStep(txs, res, base, m, g)
    OBVIOUS
  <2>6. \A k \in 0..m - 1 : f[k] = g[k]
    <3> SUFFICES ASSUME NEW k \in 0..m - 1 PROVE f[k] = g[k]
      OBVIOUS
    <3>1. f[k] = IF k = 0 THEN base ELSE AddPrice(g[k - 1], res, txs[k])
      BY <2>3, <2>5 DEF ScanStep
    <3>2. ScanStep(txs, res, base, m - 1, g)[k] = IF k = 0 THEN base ELSE AddPrice(g[k - 1], res, txs[k])
      BY DEF ScanStep
    <3>3. QED
      BY <2>4, <3>1, <3>2
  <2>7. ScanStep(txs, res, base, m, f) = ScanStep(txs, res, base, m, g)
    <3>1. \A k \in 0..m : k # 0 => f[k - 1] = g[k - 1]
      BY <2>3, <2>6
    <3>2. QED
      BY <3>1 DEF ScanStep
  <2>8. QED
    BY <2>1, <2>5, <2>7
<1>2. QED
  BY <1>1

ScanOf(r, txs, res, begin, slots) ==
  /\ r[0] = [slots |-> <<>>, begin |-> begin, end |-> begin + Interval[res], trades |-> <<>>]
  /\ \A k \in 1..Len(txs) : r[k] = AddPrice(r[k - 1], res, txs[k])
  /\ slots = Flushed(r[Len(txs)])

LEMMA ScanRun ==
  ASSUME NEW seen, NEW res, NEW begin, NEW end, Len(QueryTransactions(seen, begin, end)) \in Nat
  PROVE  \E r : ScanOf(r, QueryTransactions(seen, begin, end), res, begin, FromDatastore(seen, res, begin, end))
<1> PICK txs : txs = QueryTransactions(seen, begin, end)
  OBVIOUS
<1> DEFINE base == [slots |-> <<>>, begin |-> begin, end |-> begin + Interval[res], trades |-> <<>>]
           it == CHOOSE g : g = ScanStep(txs, res, base, Len(txs), g)
<1>1. it = ScanStep(txs, res, base, Len(txs), it)
  BY ScanExists, Zenon
<1>2. FromDatastore(seen, res, begin, end) = Flushed(it[Len(txs)])
  BY DEF FromDatastore, ScanStep
<1> HIDE DEF it
<1>3. \A k \in 0..Len(txs) : ScanStep(txs, res, base, Len(txs), it)[k] =
                              IF k = 0 THEN base ELSE AddPrice(it[k - 1], res, txs[k])
  BY DEF ScanStep
<1>4. \A k \in 0..Len(txs) : it[k] = IF k = 0 THEN base ELSE AddPrice(it[k - 1], res, txs[k])
  BY <1>1, <1>3
<1>5. it[0] = base /\ \A k \in 1..Len(txs) : it[k] = AddPrice(it[k - 1], res, txs[k])
  <2>1. 0 \in 0..Len(txs) /\ \A k \in 1..Len(txs) : k \in 0..Len(txs) /\ k # 0
    OBVIOUS
  <2>2. QED
    BY <1>4, <2>1
<1>6. QED
  BY <1>2, <1>5 DEF ScanOf

ScannedAll(s, txs, res, lo, hi) ==
  Scan(s, res, lo, hi) /\ \A t : Collected(s, t) <=> \E j \in 1..Len(txs) : txs[j] = t

LEMMA AllScanned ==
  ASSUME NEW res \in Resolutions, NEW lo \in Int, NEW hi \in Int, Whole(lo, hi, Interval[res]),
         NEW txs \in Seq(Trades), NEW N \in Nat, N = Len(txs), Ascending(txs, N),
         \A i \in 1..N : /\ trade[txs[i]] # NoTrade /\ trade[txs[i]].matched \in Int
                         /\ lo <= trade[txs[i]].matched /\ trade[txs[i]].matched < hi,
         NEW r, Scan(r[0], res, lo, hi), r[0].begin = lo, \A t : ~Collected(r[0], t),
         \A k \in 1..N : r[k] = AddPrice(r[k - 1], res, txs[k])
  PROVE  ScannedAll(r[N], txs, res, lo, hi)
<1> DEFINE good(k) == /\ Scan(r[k], res, lo, hi)
                      /\ \A t : Collected(r[k], t) <=> \E j \in 1..k : txs[j] = t
                      /\ \A j \in 1..N : k < j => r[k].begin <= trade[txs[j]].matched
           bad == {k \in Nat : k <= N /\ ~good(k)}
<1>1. ASSUME bad # {} PROVE FALSE
  <2>1. PICK m \in bad : \A k \in bad : m <= k
    BY <1>1, LeastOf
  <2>2. m # 0
    <3>1. good(0)
      OBVIOUS
    <3> HIDE DEF good
    <3>2. QED
      BY <2>1, <3>1
  <2>3. m \in 1..N /\ m - 1 \in Nat /\ m - 1 <= N /\ ~(m <= m - 1)
    BY <2>1, <2>2
  <2>4. good(m - 1)
    <3> HIDE DEF good
    <3>1. QED
      BY <2>1, <2>3
  <2>5. txs[m] \in Trades /\ r[m] = AddPrice(r[m - 1], res, txs[m])
    BY <2>3
  <2>6. PICK t : t = txs[m]
    OBVIOUS
  <2>7. PICK s : s = r[m - 1]
    OBVIOUS
  <2>8. /\ trade[t] # NoTrade /\ trade[t].matched \in Int
        /\ lo <= trade[t].matched /\ trade[t].matched < hi /\ t \in Trades
    BY <2>3, <2>5, <2>6
  <2>9. s.begin <= trade[t].matched
    BY <2>3, <2>4, <2>6, <2>7
  <2>10. ~Collected(s, t)
    <3>1. \A j \in 1..m - 1 : txs[j] # txs[m]
      BY <2>3 DEF Ascending
    <3>2. QED
      BY <2>4, <2>6, <2>7, <3>1
  <2>11. Scan(s, res, lo, hi)
    BY <2>4, <2>7
  <2>12. PICK a : a = AddPrice(s, res, t) /\ a = r[m]
    BY <2>5, <2>6, <2>7
  <2>13. /\ Scan(a, res, lo, hi) /\ a.begin <= trade[t].matched
         /\ \A u : Collected(a, u) <=> (Collected(s, u) \/ u = t)
    <3>1. WithPrice(AddPrice(s, res, t), s, res, lo, hi, t)
      BY <2>8, <2>9, <2>10, <2>11, AddPriceScans
    <3>2. QED
      BY <2>12, <3>1 DEF WithPrice
  <2>14. \A u : Collected(a, u) <=> \E j \in 1..m : txs[j] = u
    <3> TAKE u
    <3>1. Collected(s, u) <=> \E j \in 1..m - 1 : txs[j] = u
      BY <2>4, <2>7
    <3>2. \A j \in 1..m : j \in 1..m - 1 \/ j = m
      BY <2>3
    <3>3. m \in 1..m /\ \A j \in 1..m - 1 : j \in 1..m
      BY <2>3
    <3>4. QED
      BY <2>6, <2>13, <3>1, <3>2, <3>3
  <2>15. ASSUME NEW j \in 1..N, m < j PROVE a.begin <= trade[txs[j]].matched
    <3>1. trade[t].matched <= trade[txs[j]].matched
      BY <2>3, <2>6, <2>15 DEF Ascending
    <3>2. trade[txs[j]].matched \in Int /\ a.begin \in Int
      BY <2>13, ScanNumbers
    <3>3. QED
      BY <2>8, <2>13, <3>1, <3>2
  <2>16. good(m)
    BY <2>12, <2>13, <2>14, <2>15
  <2> HIDE DEF good
  <2>17. QED
    BY <2>1, <2>16
<1>2. good(N)
  <2> HIDE DEF good
  <2>1. N <= N
    OBVIOUS
  <2>2. QED
    BY <1>1, <2>1
<1>3. QED
  BY <1>2 DEF ScannedAll

ReadsAll(slots, found, lo, hi) == Fit(slots, lo, hi) /\ \A t : Has(slots, t) <=> t \in found

LEMMA DatastoreFits ==
  ASSUME NEW res \in Resolutions, NEW begin \in Int, NEW end \in Int, NEW hi \in Int, end <= hi,
         Whole(begin, hi, Interval[res]), begin + Interval[res] <= hi,
         Timed, NEW seen \in SUBSET Trades, \A t \in seen : trade[t] # NoTrade
  PROVE  ReadsAll(FromDatastore(seen, res, begin, end), MatchedIn(seen, begin, end), begin, hi)
<1>1. PICK txs : txs = QueryTransactions(seen, begin, end)
  OBVIOUS
<1>2. Lists(QueryTransactions(seen, begin, end), MatchedIn(seen, begin, end))
  BY Transactions
<1>3. \E r : ScanOf(r, QueryTransactions(seen, begin, end), res, begin, FromDatastore(seen, res, begin, end))
  BY <1>2, ScanRun DEF Lists
<1>. PICK r : ScanOf(r, txs, res, begin, FromDatastore(seen, res, begin, end))
  BY <1>1, <1>3
<1>4. PICK s : s = r[0]
  OBVIOUS
<1>5. s.slots = <<>> /\ s.begin = begin /\ s.end = begin + Interval[res] /\ s.trades = <<>>
  BY <1>4 DEF ScanOf
<1>6. Scan(s, res, begin, hi) /\ \A t : ~Collected(s, t)
  <2>1. s \in Window
    BY <1>4, IntervalIs DEF Window, ScanOf
  <2>2. Fit(s.slots, begin, hi) /\ \A t : ~Has(s.slots, t)
    BY <1>5, FitNone
  <2>3. 1..Len(s.slots) = {} /\ 1..Len(s.trades) = {}
    BY <1>5
  <2>4. Whole(begin, s.begin, Interval[res])
    <3>1. begin = begin + 0 * Interval[res]
      BY IntervalIs
    <3>2. QED
      BY <1>5, <3>1 DEF Whole
  <2>5. \A t : ~Among(s.trades, t)
    BY <2>3 DEF Among
  <2>6. QED
    BY <1>5, <2>1, <2>2, <2>3, <2>4, <2>5 DEF Scan, Collected
<1>7. /\ txs \in Seq(Trades) /\ Len(txs) \in Nat /\ Ascending(txs, Len(txs))
      /\ \A i \in 1..Len(txs) : txs[i] \in MatchedIn(seen, begin, end)
      /\ \A t \in MatchedIn(seen, begin, end) : \E i \in 1..Len(txs) : txs[i] = t
  BY <1>1, <1>2 DEF Lists
<1>8. \A i \in 1..Len(txs) : /\ trade[txs[i]] # NoTrade /\ trade[txs[i]].matched \in Int
                             /\ begin <= trade[txs[i]].matched /\ trade[txs[i]].matched < hi
  BY <1>7 DEF MatchedIn, Timed
<1>9. ScannedAll(r[Len(txs)], txs, res, begin, hi)
  <2>1. Scan(r[0], res, begin, hi) /\ r[0].begin = begin /\ \A t : ~Collected(r[0], t)
    BY <1>4, <1>5, <1>6
  <2>2. \A k \in 1..Len(txs) : r[k] = AddPrice(r[k - 1], res, txs[k])
    BY DEF ScanOf
  <2>3. QED
    BY <1>7, <1>8, <2>1, <2>2, AllScanned
<1>10. /\ Fit(FromDatastore(seen, res, begin, end), begin, hi)
       /\ \A t : Has(FromDatastore(seen, res, begin, end), t) <=> \E j \in 1..Len(txs) : txs[j] = t
  BY <1>9, FlushedFits DEF ScanOf, ScannedAll
<1>11. QED
  BY <1>7, <1>10 DEF ReadsAll
-----------------------------------------------------------------------------
(* The trades that must be there.                                          *)

LEMMA HasOldOlder ==
  ASSUME NEW slots, NEW lo, NEW hi, NEW old \in Int, NEW limit \in Int, old <= limit,
         TradesTyped, HasOld(slots, lo, hi, limit)
  PROVE  HasOld(slots, lo, hi, old)
<1> SUFFICES ASSUME NEW t \in Trades, Due(t, lo, hi), trade[t].stored < old PROVE Has(slots, t)
  BY DEF HasOld
<1>1. trade[t].stored \in Int
  BY DEF TradesTyped
<1>2. trade[t].stored < limit
  BY <1>1
<1>3. QED
  BY <1>2 DEF HasOld

LEMMA HasOldShorter ==
  ASSUME NEW slots, NEW lo \in Int, NEW hi \in Int, NEW end \in Int, end <= hi, NEW limit, HasOld(slots, lo, hi, limit)
  PROVE  HasOld(slots, lo, end, limit)
<1>1. \A t : Due(t, lo, end) => Due(t, lo, hi)
  BY DEF Due
<1>2. QED
  BY <1>1 DEF HasOld

(***************************************************************************)
(* Due trades of two times that follow one another.                        *)
(***************************************************************************)
LEMMA HasOldJoin ==
  ASSUME TradesTyped, NEW a \in Seq(Slot), NEW b \in Seq(Slot),
         NEW lo \in Int, NEW mid \in Int, NEW hi \in Int, NEW limit,
         HasOld(a, lo, mid, limit), HasOld(b, mid, hi, limit)
  PROVE  HasOld(a \o b, lo, hi, limit)
<1> SUFFICES ASSUME NEW t \in Trades, Due(t, lo, hi), trade[t].stored < limit PROVE Has(a \o b, t)
  BY DEF HasOld
<1>1. trade[t].matched \in Int
  BY DEF TradesTyped
<1>2. Due(t, lo, mid) \/ Due(t, mid, hi)
  BY <1>1 DEF Due
<1>3. Has(a, t) \/ Has(b, t)
  BY <1>2 DEF HasOld
<1>4. QED
  BY <1>3, HasJoin

(***************************************************************************)
(* A tile that is asked for up to an end before its own has what was stored*)
(* before the query, or is partial.                                        *)
(***************************************************************************)
LEMMA NothingAfterTheEnd ==
  ASSUME TradesTyped, NEW slots, NEW lo \in Int, NEW end \in Int, NEW hi \in Int, NEW at \in Int,
         ~(end < hi /\ end < at), NEW limit \in Int, limit <= at,
         HasOld(slots, lo, end, limit)
  PROVE  HasOld(slots, lo, hi, limit)
<1> SUFFICES ASSUME NEW t \in Trades, Due(t, lo, hi), trade[t].stored < limit PROVE Has(slots, t)
  BY DEF HasOld
<1>1. PICK m, s : m = trade[t].matched /\ s = trade[t].stored
  OBVIOUS
<1>2. m \in Int /\ s \in Int /\ m \in lo..hi - 1 /\ m <= s /\ s < limit
  BY <1>1 DEF Due, TradesTyped
<1>3. m < end
  BY <1>2
<1>4. m \in lo..end - 1
  BY <1>2, <1>3
<1>5. QED
  BY <1>1, <1>4 DEF HasOld, Due

(***************************************************************************)
(* A tile that is kept for ever has all trades that AnswersComplete is     *)
(* about: the others come too late after their match.                      *)
(***************************************************************************)
LEMMA AllAreOld ==
  ASSUME clock \in Nat, TradesTyped, NEW slots, NEW lo \in Int, NEW hi \in Int, hi + Horizon <= clock,
         NEW at \in Int, clock <= at + Slack, NEW age \in Int, age <= MaxAge,
         HasOld(slots, lo, hi, at - age)
  PROVE  HasDue(slots, lo, hi)
<1> SUFFICES ASSUME NEW t \in Trades, Due(t, lo, hi) PROVE Has(slots, t)
  BY DEF HasDue
<1>1. MaxAge \in Nat /\ Horizon \in Nat /\ Slack \in Nat /\ Grace = Horizon - Slack - MaxAge
  BY Numbers
<1>2. PICK m, s : m = trade[t].matched /\ s = trade[t].stored
  OBVIOUS
<1>3. m \in Int /\ s \in Int /\ m \in lo..hi - 1 /\ m <= s /\ s <= m + Grace
  BY <1>2 DEF Due, TradesTyped
<1>4. s < at - age
  BY <1>1, <1>3
<1>5. QED
  BY <1>2, <1>4 DEF HasOld

-----------------------------------------------------------------------------
(* Tiles.                                                                  *)

LEMMA WholeTile ==
  ASSUME NEW tile \in Resolutions, NEW res \in Resolutions, tile <= res, NEW begin \in Int
  PROVE  /\ Whole(begin, begin + Interval[tile], Interval[res])
         /\ begin + Interval[res] <= begin + Interval[tile]
         /\ begin + Interval[tile] \in Int
<1>1. PICK I, J : I = Interval[tile] /\ J = Interval[res] /\ I \in Nat \ {0} /\ J \in Nat \ {0}
  BY IntervalIs
<1>2. PICK q \in Nat \ {0} : I = q * J
  BY <1>1, Divides
<1>3. Whole(begin, begin + I, J)
  BY <1>2 DEF Whole
<1>4. J <= I
  BY <1>1, <1>2
<1>5. QED
  BY <1>1, <1>3, <1>4

TileEnds(tile, begin, end) ==
  LET e == TileEnd(tile, begin, end) IN
  e \in Int /\ begin < e /\ e <= end /\ e <= begin + Interval[tile]

LEMMA TileEndIs ==
  ASSUME NEW tile \in Resolutions, NEW begin \in Int, NEW end \in Int, begin < end
  PROVE  TileEnds(tile, begin, end)
<1>1. PICK I : I = Interval[tile] /\ I \in Nat \ {0}
  BY IntervalIs
<1>2. TileEnd(tile, begin, end) = IF begin + I <= end THEN begin + I ELSE end
  BY <1>1, MinOfTwo DEF TileEnd
<1>3. QED
  BY <1>1, <1>2 DEF TileEnds

(***************************************************************************)
(* What a step ahead by one finer tile leaves of a tile.                   *)
(***************************************************************************)
LEMMA OneTileFurther ==
  ASSUME NEW tile \in Resolutions, NEW finer \in Resolutions, tile <= finer,
         NEW begin \in Int, NEW next \in Int, begin <= next, next < begin + Interval[tile],
         Whole(begin, next, Interval[finer])
  PROVE  next + Interval[finer] <= begin + Interval[tile]
<1>1. PICK I, J : I = Interval[tile] /\ J = Interval[finer] /\ I \in Nat \ {0} /\ J \in Nat \ {0}
  BY IntervalIs
<1>2. PICK q \in Nat : next = begin + q * J
  BY <1>1 DEF Whole
<1>3. PICK m \in Nat \ {0} : I = m * J
  BY <1>1, Divides
<1>4. q * J \in Nat
  BY <1>1, Product
<1>5. q * J < m * J
  BY <1>1, <1>2, <1>3, <1>4
<1>6. q * J + J <= m * J
  BY <1>1, <1>5, LessByOne
<1>7. QED
  BY <1>1, <1>2, <1>3, <1>4, <1>6

LEMMA WholeFurther ==
  ASSUME NEW begin \in Int, NEW next \in Int, NEW J \in Nat \ {0}, Whole(begin, next, J)
  PROVE  Whole(begin, next + J, J)
<1>1. PICK q \in Nat : next = begin + q * J
  BY DEF Whole
<1>2. q + 1 \in Nat /\ (q + 1) * J = q * J + J /\ q * J \in Nat
  BY OneMore, Product
<1>3. next + J = begin + (q + 1) * J
  BY <1>1, <1>2
<1>4. QED
  BY <1>2, <1>3 DEF Whole

(***************************************************************************)
(* A tile of the cache has what a query needs that is put together from it.*)
(***************************************************************************)
LEMMA CachedIsGood ==
  ASSUME clock \in Nat, TradesTyped, NEW e, GoodTile(e), NEW at \in Int, at <= clock
  PROVE  e.partial \/ HasOld(e.slots, e.begin, e.begin + Interval[e.tile],
                             at - Expiry - Slack - Age(e.tile, e.res))
<1>1. PICK age : age = Age(e.tile, e.res)
  OBVIOUS
<1>2. PICK lo, hi : lo = e.begin /\ hi = e.begin + Interval[e.tile]
  OBVIOUS
<1>3. age \in Nat /\ Expiry \in Nat /\ Slack \in Nat
  BY <1>1, Ages, TilesAreSizes, Numbers DEF GoodTile
<1>4. CASE e.partial
  BY <1>4
<1>5. CASE ~e.partial /\ e.until = Always
  <2>1. HasDue(e.slots, lo, hi)
    BY <1>2, <1>5 DEF GoodTile
  <2>2. QED
    BY <1>1, <1>2, <2>1 DEF HasDue, HasOld
<1>6. CASE ~e.partial /\ e.until # Always
  <2>1. PICK u : u = e.until
    OBVIOUS
  <2>2. u \in Int /\ clock < u /\ HasOld(e.slots, lo, hi, u - Expiry - Slack - age)
    BY <1>1, <1>2, <1>6, <2>1 DEF GoodTile
  <2>3. /\ u - Expiry - Slack - age \in Int /\ at - Expiry - Slack - age \in Int
        /\ at - Expiry - Slack - age <= u - Expiry - Slack - age
    BY <1>3, <2>2
  <2>4. HasOld(e.slots, lo, hi, at - Expiry - Slack - age)
    BY <2>2, <2>3, HasOldOlder
  <2>5. QED
    BY <1>1, <1>2, <2>4
<1>7. QED
  BY <1>4, <1>5, <1>6

-----------------------------------------------------------------------------
(* Calls of queryPrices.                                                   *)

LEMMA CallParts ==
  ASSUME NEW res, NEW at, NEW f, GoodCall(f, res, at)
  PROVE  /\ f.tile \in Nat /\ f.begin \in Int /\ f.end \in Int /\ f.next \in Int
         /\ f.slots \in Seq(Slot) /\ f.partial \in BOOLEAN
         /\ IsSize(f.tile, res)
BY DEF GoodCall, Calls, IsSize

LEMMA HasNothing ==
  ASSUME NEW slots, NEW lo \in Int, NEW limit
  PROVE  HasOld(slots, lo, lo, limit)
<1>1. lo..lo - 1 = {}
  OBVIOUS
<1>2. QED
  BY <1>1 DEF HasOld, Due

LEMMA WholeNothing ==
  ASSUME NEW lo \in Int, NEW I \in Int
  PROVE  Whole(lo, lo, I)
<1>1. lo = lo + 0 * I
  OBVIOUS
<1>2. QED
  BY <1>1 DEF Whole

(***************************************************************************)
(* A call that has not fetched anything.                                   *)
(***************************************************************************)
LEMMA FrameIsGood ==
  ASSUME NEW res \in Resolutions, NEW at, NEW tile, IsSize(tile, res),
         NEW begin \in Int, NEW end \in Int, begin < end
  PROVE  LET f == Frame(tile, begin, end) IN
         /\ GoodCall(f, res, at)
         /\ f.tile = tile /\ f.begin = begin /\ f.end = end /\ f.next = begin
<1>1. PICK f : f = Frame(tile, begin, end)
  OBVIOUS
<1>2. /\ f.tile = tile /\ f.begin = begin /\ f.end = end /\ f.next = begin
      /\ f.slots = <<>> /\ f.partial = FALSE
  BY <1>1 DEF Frame
<1>3. f \in Calls
  <2>1. f = [tile |-> tile, begin |-> begin, end |-> end, next |-> begin, slots |-> <<>>, partial |-> FALSE]
    BY <1>1 DEF Frame
  <2>2. tile \in Nat /\ <<>> \in Seq(Slot)
    BY DEF IsSize
  <2>3. QED
    BY <2>1, <2>2 DEF Calls
<1>4. tile # finestTileResolution(res) => Whole(begin, begin, Interval[tile + 1])
  <2> SUFFICES ASSUME tile # finestTileResolution(res) PROVE Whole(begin, begin, Interval[tile + 1])
    OBVIOUS
  <2>1. Interval[tile + 1] \in Int
    BY Ages, TilesAreSizes
  <2>2. QED
    BY <2>1, WholeNothing
<1>5. Fit(<<>>, begin, begin)
  BY FitNone
<1>6. Upto(f) = begin
  BY <1>2 DEF Upto
<1>7. HasOld(<<>>, begin, begin, at - Age(tile, res))
  BY HasNothing
<1>8. f.tile <= finestTileResolution(res) /\ coarsestTileResolution(res) <= f.tile + 1
  BY <1>2 DEF IsSize
<1>9. GoodCall(f, res, at)
  BY <1>2, <1>3, <1>4, <1>5, <1>6, <1>7, <1>8 DEF GoodCall
<1>10. QED
  BY <1>1, <1>2, <1>9

LEMMA CallIsGood ==
  ASSUME NEW res \in Resolutions, NEW at, NEW f, GoodCall(f, res, at),
         f.tile # finestTileResolution(res), f.next < f.end
  PROVE  LET call == Frame(f.tile + 1, f.next, TileEnd(f.tile + 1, f.next, f.end)) IN
         GoodCall(call, res, at) /\ CallOfTile(call, res) /\ CalledBy(call, f)
<1>1. PICK tile, next, end : tile = f.tile + 1 /\ next = f.next /\ end = TileEnd(f.tile + 1, f.next, f.end)
  OBVIOUS
<1>2. tile \in Tiles(res) /\ next \in Int /\ f.end \in Int /\ next < f.end
  BY <1>1, CallParts, Ages
<1>3. IsSize(tile, res) /\ tile \in Resolutions /\ Interval[tile] \in Nat \ {0}
  BY <1>2, TilesAreSizes
<1>4. end \in Int /\ next < end /\ end <= next + Interval[tile]
  BY <1>1, <1>2, <1>3, TileEndIs DEF TileEnds
<1>5. PICK call : call = Frame(tile, next, end)
  OBVIOUS
<1>6. /\ GoodCall(call, res, at)
      /\ call.tile = tile /\ call.begin = next /\ call.end = end /\ call.next = next
  BY <1>2, <1>3, <1>4, <1>5, FrameIsGood
<1>7. CallOfTile(call, res)
  <2>1. coarsestTileResolution(res) <= tile
    BY <1>2 DEF Tiles
  <2>2. next <= next + Interval[tile]
    BY <1>2, <1>3
  <2>3. QED
    BY <1>4, <1>6, <2>1, <2>2 DEF CallOfTile
<1>8. CalledBy(call, f)
  BY <1>1, <1>2, <1>6 DEF CalledBy
<1>9. QED
  BY <1>1, <1>5, <1>6, <1>7, <1>8

(***************************************************************************)
(* A call that has fetched one tile more.                                  *)
(***************************************************************************)
JoinedTo(g, f, res, at) ==
  /\ GoodCall(g, res, at)
  /\ g.tile = f.tile /\ g.begin = f.begin
  /\ CallOfTile(f, res) => CallOfTile(g, res)

LEMMA JoinedIsGood ==
  ASSUME TradesTyped, NEW res \in Resolutions, NEW at \in Int, NEW f, GoodCall(f, res, at),
         f.tile # finestTileResolution(res), f.next < f.end,
         NEW slots, NEW partial \in BOOLEAN, Fit(slots, f.next, f.next + Interval[f.tile + 1]),
         partial \/ HasOld(slots, f.next, f.next + Interval[f.tile + 1], at - Age(f.tile, res))
  PROVE  JoinedTo(Joined(f, slots, partial), f, res, at)
<1>1. PICK g : g = Joined(f, slots, partial)
  OBVIOUS
<1>2. PICK finer, J, next, end, begin :
        finer = f.tile + 1 /\ J = Interval[f.tile + 1] /\ next = f.next /\ end = f.end /\ begin = f.begin
  OBVIOUS
<1>3. /\ f.tile \in Nat /\ begin \in Int /\ end \in Int /\ next \in Int
      /\ f.slots \in Seq(Slot) /\ f.partial \in BOOLEAN /\ IsSize(f.tile, res) /\ f \in Calls
  BY <1>2, CallParts DEF GoodCall
<1>4. finer \in Tiles(res) /\ finer \in Resolutions /\ J \in Nat \ {0}
  BY <1>2, <1>3, Ages, TilesAreSizes
<1>5. /\ g.tile = f.tile /\ g.begin = begin /\ g.end = end /\ g.next = next + J
      /\ g.slots = f.slots \o slots /\ g.partial = (f.partial \/ partial)
      /\ g = [f EXCEPT !.slots = g.slots, !.partial = g.partial, !.next = g.next]
  BY <1>1, <1>2, <1>3 DEF Joined, Calls
<1>6. slots \in Seq(Slot) /\ next + J \in Int /\ next <= next + J /\ begin <= next /\ begin < end /\ next < end
  BY <1>2, <1>3, <1>4, FitParts DEF GoodCall
<1>7. g \in Calls
  <2>1. g.slots \in Seq(Slot) /\ g.partial \in BOOLEAN /\ g.next \in Int
    BY <1>3, <1>5, <1>6, Concatenation
  <2>2. QED
    BY <1>3, <1>5, <2>1 DEF Calls
<1>8. Whole(begin, next + J, J)
  <2>1. Whole(begin, next, J)
    BY <1>2 DEF GoodCall
  <2>2. QED
    BY <1>3, <1>4, <2>1, WholeFurther
<1>9. Fit(g.slots, begin, next + J)
  <2>1. Fit(f.slots, begin, next) /\ Fit(slots, next, next + J)
    BY <1>2 DEF GoodCall
  <2>2. QED
    BY <1>3, <1>5, <1>6, <2>1, FitAfter
<1>10. ASSUME ~g.partial PROVE HasOld(g.slots, begin, Upto(g), at - Age(f.tile, res))
  <2>1. Upto(f) = next
    BY <1>2, <1>3, <1>6 DEF Upto
  <2>2. ~f.partial /\ ~partial
    BY <1>5, <1>10
  <2>3. HasOld(f.slots, begin, next, at - Age(f.tile, res))
    BY <1>2, <2>1, <2>2 DEF GoodCall
  <2>4. HasOld(slots, next, next + J, at - Age(f.tile, res))
    BY <1>2, <2>2
  <2>5. HasOld(g.slots, begin, next + J, at - Age(f.tile, res))
    BY <1>3, <1>5, <1>6, <2>3, <2>4, HasOldJoin
  <2>6. Upto(g) \in Int /\ Upto(g) <= next + J
    BY <1>3, <1>5, <1>6 DEF Upto
  <2>7. QED
    BY <1>3, <1>6, <2>5, <2>6, HasOldShorter
<1>11. GoodCall(g, res, at)
  <2>1. g.partial \in BOOLEAN
    BY <1>3, <1>5
  <2>2. g.partial \/ HasOld(g.slots, g.begin, Upto(g), at - Age(g.tile, res))
    BY <1>5, <1>10, <2>1
  <2>3. g.begin <= g.next /\ g.begin < g.end
    BY <1>3, <1>5, <1>6
  <2>4. g.tile <= finestTileResolution(res) /\ coarsestTileResolution(res) <= g.tile + 1
    BY <1>5 DEF GoodCall
  <2>5. Whole(g.begin, g.next, Interval[g.tile + 1]) /\ Fit(g.slots, g.begin, g.next)
    BY <1>2, <1>5, <1>8, <1>9
  <2>6. QED
    BY <1>7, <2>2, <2>3, <2>4, <2>5 DEF GoodCall
<1>12. ASSUME CallOfTile(f, res) PROVE CallOfTile(g, res)
  <2>1. /\ coarsestTileResolution(res) <= f.tile
        /\ end <= begin + Interval[f.tile]
    BY <1>2, <1>12 DEF CallOfTile
  <2>2. f.tile \in Tiles(res)
    BY <1>3, <2>1, TileSizes DEF Tiles, IsSize
  <2>3. f.tile \in Resolutions /\ f.tile <= finer /\ Interval[f.tile] \in Nat \ {0}
    BY <1>2, <1>3, <2>2, TilesAreSizes
  <2>4. next < begin + Interval[f.tile]
    BY <1>3, <1>6, <2>1, <2>3
  <2>5. Whole(begin, next, Interval[finer])
    BY <1>2 DEF GoodCall
  <2>6. next + Interval[finer] <= begin + Interval[f.tile]
    BY <1>3, <1>4, <1>6, <2>3, <2>4, <2>5, OneTileFurther
  <2>7. QED
    BY <1>2, <1>5, <2>1, <2>6 DEF CallOfTile
<1>13. JoinedTo(g, f, res, at)
  BY <1>2, <1>5, <1>11, <1>12 DEF JoinedTo
<1>14. QED
  BY <1>1, <1>13

(***************************************************************************)
(* The finest tile, from the datastore.                                    *)
(***************************************************************************)
LEMMA ReadIsGood ==
  ASSUME clock \in Nat, TradesTyped, NEW res \in Resolutions, NEW at \in Int, at <= clock,
         NEW f, GoodCall(f, res, at), CallOfTile(f, res),
         f.tile = finestTileResolution(res), f.next < f.end, NEW seen \in Seen
  PROVE  JoinedTo([f EXCEPT !.slots = FromDatastore(seen, res, f.begin, f.end),
                            !.next = @ + Interval[f.tile]], f, res, at)
<1>1. PICK tile, begin, end, I, new :
        /\ tile = f.tile /\ begin = f.begin /\ end = f.end /\ I = Interval[f.tile]
        /\ new = FromDatastore(seen, res, f.begin, f.end)
  OBVIOUS
<1>2. PICK g : g = [f EXCEPT !.slots = new, !.next = @ + I]
  OBVIOUS
<1>3. /\ tile \in Nat /\ begin \in Int /\ end \in Int /\ f.next \in Int /\ f.partial \in BOOLEAN
      /\ IsSize(tile, res) /\ f \in Calls
  BY <1>1, CallParts DEF GoodCall
<1>4. tile \in Tiles(res)
  BY <1>1, <1>3, TileSizes DEF Tiles, IsSize, CallOfTile
<1>5. tile \in Resolutions /\ tile <= res /\ I \in Nat \ {0}
  BY <1>1, <1>4, TilesAreSizes
<1>6. begin < end /\ end <= begin + I /\ f.next = begin
  <2>1. begin < end /\ end <= begin + I /\ (f.next = begin \/ f.next = begin + I) /\ f.next < end
    BY <1>1 DEF GoodCall, CallOfTile
  <2>2. QED
    BY <1>3, <1>5, <2>1
<1>7. /\ g.tile = tile /\ g.begin = begin /\ g.end = end /\ g.next = begin + I
      /\ g.slots = new /\ g.partial = f.partial
  BY <1>1, <1>2, <1>3, <1>6 DEF Calls
<1>8. Timed
  BY DEF Timed, TradesTyped
<1>9. seen \in SUBSET Trades /\ \A t \in seen : trade[t] # NoTrade
  BY DEF Seen
<1>10. ReadsAll(new, MatchedIn(seen, begin, end), begin, begin + I)
  <2>1. Whole(begin, begin + I, Interval[res]) /\ begin + Interval[res] <= begin + I /\ begin + I \in Int
    BY <1>1, <1>3, <1>5, WholeTile
  <2>2. QED
    BY <1>1, <1>3, <1>6, <1>8, <1>9, <2>1, DatastoreFits
<1>11. Fit(new, begin, begin + I) /\ \A t : Has(new, t) <=> t \in MatchedIn(seen, begin, end)
  BY <1>10 DEF ReadsAll
<1>12. PICK age : age = Age(tile, res) /\ age \in Nat /\ IndexLag <= age
  BY <1>3, Ages
<1>13. HasOld(new, begin, end, at - age)
  <2> SUFFICES ASSUME NEW t \in Trades, Due(t, begin, end), trade[t].stored < at - age PROVE Has(new, t)
    BY DEF HasOld
  <2>1. PICK m, s : m = trade[t].matched /\ s = trade[t].stored
    OBVIOUS
  <2>2. m \in Int /\ s \in Int /\ trade[t] # NoTrade /\ m \in begin..end - 1 /\ s < at - age
    BY <2>1 DEF TradesTyped, Due
  <2>3. s + IndexLag <= clock
    BY <1>12, <2>2, Numbers
  <2>4. t \in seen
    BY <2>1, <2>2, <2>3 DEF Seen
  <2>5. begin <= m /\ m < end
    BY <1>3, <2>2
  <2>6. QED
    BY <1>11, <2>1, <2>4, <2>5 DEF MatchedIn
<1>14. Upto(g) = end
  BY <1>3, <1>5, <1>6, <1>7 DEF Upto
<1>15. g \in Calls
  <2>1. new \in Seq(Slot) /\ begin + I \in Int
    BY <1>3, <1>5, <1>11, FitParts
  <2>2. g = [f EXCEPT !.slots = new, !.next = begin + I]
    BY <1>2, <1>3, <1>6 DEF Calls
  <2>3. QED
    BY <1>3, <2>1, <2>2 DEF Calls
<1>16. GoodCall(g, res, at)
  <2>1. g.begin < g.end /\ g.begin <= g.next
    BY <1>3, <1>5, <1>6, <1>7
  <2>2. g.tile = finestTileResolution(res)
    BY <1>1, <1>7
  <2>3. g.tile <= finestTileResolution(res) /\ coarsestTileResolution(res) <= g.tile + 1
    BY <1>3, <1>7 DEF IsSize
  <2>4. Fit(g.slots, g.begin, g.next) /\ HasOld(g.slots, g.begin, Upto(g), at - Age(g.tile, res))
    BY <1>7, <1>11, <1>12, <1>13, <1>14
  <2>5. QED
    BY <1>15, <2>1, <2>2, <2>3, <2>4 DEF GoodCall
<1>17. CallOfTile(g, res)
  <2>1. coarsestTileResolution(res) <= g.tile
    BY <1>1, <1>7 DEF CallOfTile
  <2>2. begin + I <= begin + I
    BY <1>3, <1>5
  <2>3. QED
    BY <1>1, <1>6, <1>7, <2>1, <2>2 DEF CallOfTile
<1>18. JoinedTo(g, f, res, at)
  BY <1>1, <1>7, <1>16, <1>17 DEF JoinedTo
<1>19. QED
  BY <1>1, <1>2, <1>18

(***************************************************************************)
(* What a call for a tile returns, and adds to the cache.                  *)
(***************************************************************************)
IsPartial(f, at) == f.partial \/ (f.end < f.begin + Interval[f.tile] /\ f.end < at)

LEMMA ReturnedIsGood ==
  ASSUME TradesTyped, NEW res \in Resolutions, NEW at \in Int,
         NEW f, GoodCall(f, res, at), CallOfTile(f, res), f.end <= f.next
  PROVE  /\ f.tile \in Tiles(res) /\ f.begin + Interval[f.tile] \in Int
         /\ IsPartial(f, at) \in BOOLEAN
         /\ Fit(f.slots, f.begin, f.begin + Interval[f.tile])
         /\ IsPartial(f, at) \/ HasOld(f.slots, f.begin, f.begin + Interval[f.tile], at - Age(f.tile, res))
<1>1. PICK begin, end, hi : begin = f.begin /\ end = f.end /\ hi = f.begin + Interval[f.tile]
  OBVIOUS
<1>2. f.tile \in Nat /\ begin \in Int /\ end \in Int /\ f.next \in Int /\ f.partial \in BOOLEAN /\ IsSize(f.tile, res)
  BY <1>1, CallParts
<1>3. f.tile \in Tiles(res)
  BY <1>2, TileSizes DEF Tiles, IsSize, CallOfTile
<1>4. hi \in Int
  BY <1>1, <1>2, <1>3, TilesAreSizes
<1>5. Fit(f.slots, begin, hi)
  <2>1. Fit(f.slots, begin, f.next) /\ f.next <= hi
    BY <1>1 DEF GoodCall, CallOfTile
  <2>2. begin <= begin
    BY <1>2
  <2>3. QED
    BY <1>2, <1>4, <2>1, <2>2, FitWiden
<1>6. IsPartial(f, at) \in BOOLEAN
  BY <1>2 DEF IsPartial
<1>7. ASSUME ~IsPartial(f, at) PROVE HasOld(f.slots, begin, hi, at - Age(f.tile, res))
  <2>1. ~f.partial /\ ~(end < hi /\ end < at)
    BY <1>1, <1>7 DEF IsPartial
  <2>2. Upto(f) = end
    BY <1>1, <1>2 DEF Upto
  <2>3. PICK age : age = Age(f.tile, res) /\ age \in Nat
    BY <1>2, Ages
  <2>4. HasOld(f.slots, begin, end, at - age)
    BY <1>1, <2>1, <2>2, <2>3 DEF GoodCall
  <2>5. at - age \in Int /\ at - age <= at
    BY <2>3
  <2>6. HasOld(f.slots, begin, hi, at - age)
    BY <1>2, <1>4, <2>1, <2>4, <2>5, NothingAfterTheEnd
  <2>7. QED
    BY <2>3, <2>6
<1>8. QED
  BY <1>1, <1>3, <1>4, <1>5, <1>6, <1>7

LEMMA AddedIsGood ==
  ASSUME clock \in Nat, TradesTyped, NEW res \in Resolutions, NEW at \in Int, at <= clock, clock <= at + Slack,
         NEW f, GoodCall(f, res, at), CallOfTile(f, res), f.end <= f.next
  PROVE  GoodTile([tile |-> f.tile, res |-> res, begin |-> f.begin, slots |-> f.slots,
                   partial |-> IsPartial(f, at), until |-> Life(f.tile, f.begin)])
<1>1. PICK begin, hi, partial, age :
        begin = f.begin /\ hi = f.begin + Interval[f.tile] /\ partial = IsPartial(f, at) /\ age = Age(f.tile, res)
  OBVIOUS
<1>2. /\ f.tile \in Tiles(res) /\ begin \in Int /\ hi \in Int /\ partial \in BOOLEAN
      /\ Fit(f.slots, begin, hi)
      /\ partial \/ HasOld(f.slots, begin, hi, at - age)
  BY <1>1, ReturnedIsGood, CallParts
<1>3. age \in Nat /\ age <= MaxAge
  BY <1>1, <1>2, Ages, TilesAreSizes
<1>4. PICK e : e = [tile |-> f.tile, res |-> res, begin |-> begin, slots |-> f.slots,
                    partial |-> partial, until |-> Life(f.tile, begin)]
  OBVIOUS
<1>5. /\ e.tile = f.tile /\ e.res = res /\ e.begin = begin /\ e.slots = f.slots
      /\ e.partial = partial /\ e.until = Life(f.tile, begin)
  BY <1>4
<1>6. Slack \in Nat /\ Horizon \in Nat /\ Expiry \in Nat \ {0} /\ MaxAge \in Nat
  BY Numbers
<1>7. GoodTile(e)
  <2>1. CASE hi > clock - Horizon
    <3>1. e.until = clock + Expiry
      BY <1>1, <1>5, <2>1 DEF Life
    <3>2. e.until \in Int /\ e.until # Always /\ clock < e.until /\ e.until <= clock + Expiry
      BY <1>6, <3>1 DEF Always
    <3>3. PICK limit : limit = e.until - Expiry - Slack - age
      OBVIOUS
    <3>4. limit \in Int /\ limit <= at - age /\ at - age \in Int
      BY <1>3, <1>6, <3>1, <3>3
    <3>5. partial \/ HasOld(f.slots, begin, hi, limit)
      BY <1>2, <3>4, HasOldOlder
    <3>6. QED
      BY <1>1, <1>2, <1>5, <3>2, <3>3, <3>5 DEF GoodTile
  <2>2. CASE ~(hi > clock - Horizon)
    <3>1. e.until = Always
      BY <1>1, <1>5, <2>2 DEF Life
    <3>2. hi + Horizon <= clock
      BY <1>2, <1>6, <2>2
    <3>3. partial \/ HasDue(f.slots, begin, hi)
      BY <1>2, <1>3, <3>2, AllAreOld
    <3>4. Always \in Int
      BY DEF Always
    <3>5. QED
      BY <1>1, <1>2, <1>5, <3>1, <3>2, <3>3, <3>4 DEF GoodTile
  <2>3. QED
    BY <2>1, <2>2
<1>8. QED
  BY <1>1, <1>4, <1>7
-----------------------------------------------------------------------------
(* Stacks of calls.                                                        *)

LEMMA FrontIs ==
  ASSUME NEW S, NEW s \in Seq(S), s # <<>>
  PROVE  /\ Len(s) \in Nat \ {0} /\ Last(s) = s[Len(s)] /\ Last(s) \in S
         /\ Front(s) \in Seq(S) /\ Len(Front(s)) = Len(s) - 1
         /\ \A i \in 1..Len(s) - 1 : Front(s)[i] = s[i]
<1>1. PICK n : n = Len(s)
  OBVIOUS
<1>2. n \in Nat \ {0}
  BY <1>1
<1>3. Last(s) = s[n] /\ Last(s) \in S
  BY <1>1, <1>2 DEF Last
<1>4. Front(s) = SubSeq(s, 1, n - 1)
  BY <1>1 DEF Front
<1>5. /\ SubSeq(s, 1, n - 1) \in Seq(S)
      /\ Len(SubSeq(s, 1, n - 1)) = n - 1
      /\ \A i \in 1..n - 1 : SubSeq(s, 1, n - 1)[i] = s[i]
  BY <1>1, <1>2
<1>6. QED
  BY <1>1, <1>2, <1>3, <1>4, <1>5

LEMMA AppendIs ==
  ASSUME NEW S, NEW s \in Seq(S), NEW x \in S
  PROVE  /\ Append(s, x) \in Seq(S) /\ Append(s, x) # <<>> /\ Len(s) \in Nat
         /\ Len(Append(s, x)) = Len(s) + 1
         /\ \A i \in 1..Len(s) : Append(s, x)[i] = s[i]
         /\ Append(s, x)[Len(s) + 1] = x
OBVIOUS

LEMMA Pushed ==
  ASSUME NEW res, NEW at, NEW s, GoodStack(s, res, at),
         NEW g, GoodCall(g, res, at), CallOfTile(g, res), CalledBy(g, Last(s))
  PROVE  GoodStack(Append(s, g), res, at)
<1>1. PICK n, a : n = Len(s) /\ a = Append(s, g)
  OBVIOUS
<1>2. s \in Seq(Calls) /\ s # <<>> /\ g \in Calls
  BY DEF GoodStack, GoodCall
<1>3. n \in Nat \ {0} /\ Last(s) = s[n]
  BY <1>1, <1>2, FrontIs
<1>4. /\ a \in Seq(Calls) /\ a # <<>> /\ Len(a) = n + 1
      /\ \A i \in 1..n : a[i] = s[i]
      /\ a[n + 1] = g
  BY <1>1, <1>2, AppendIs
<1>5. a[1].tile # finestTileResolution(res)
  BY <1>3, <1>4 DEF GoodStack
<1>6. ASSUME NEW k \in 1..Len(a) PROVE GoodCall(a[k], res, at)
  <2>1. k \in 1..n \/ k = n + 1
    BY <1>3, <1>4
  <2>2. QED
    BY <1>1, <1>4, <2>1 DEF GoodStack
<1>7. ASSUME NEW k \in 2..Len(a) PROVE CallOfTile(a[k], res) /\ CalledBy(a[k], a[k - 1])
  <2>1. (k \in 2..n /\ k \in 1..n /\ k - 1 \in 1..n) \/ (k = n + 1 /\ k - 1 = n /\ n \in 1..n)
    BY <1>3, <1>4
  <2>2. QED
    BY <1>1, <1>3, <1>4, <2>1 DEF GoodStack
<1>8. GoodStack(a, res, at)
  BY <1>4, <1>5, <1>6, <1>7 DEF GoodStack
<1>9. QED
  BY <1>1, <1>8

LEMMA Popped ==
  ASSUME NEW res, NEW at, NEW s, GoodStack(s, res, at), Len(s) > 1
  PROVE  GoodStack(Front(s), res, at) /\ CallOfTile(Last(s), res) /\ CalledBy(Last(s), Last(Front(s)))
<1>1. PICK n, b : n = Len(s) /\ b = Front(s)
  OBVIOUS
<1>2. s \in Seq(Calls) /\ s # <<>>
  BY DEF GoodStack
<1>3. /\ n \in Nat /\ n > 1 /\ Last(s) = s[n]
      /\ b \in Seq(Calls) /\ Len(b) = n - 1
      /\ \A i \in 1..n - 1 : b[i] = s[i]
  BY <1>1, <1>2, FrontIs
<1>4. b # <<>>
  BY <1>3
<1>5. Last(b) = s[n - 1]
  <2>1. Last(b) = b[n - 1]
    BY <1>3 DEF Last
  <2>2. n - 1 \in 1..n - 1
    BY <1>3
  <2>3. QED
    BY <1>3, <2>1, <2>2
<1>6. b[1].tile # finestTileResolution(res)
  BY <1>3 DEF GoodStack
<1>7. \A k \in 1..Len(b) : GoodCall(b[k], res, at)
  BY <1>1, <1>3 DEF GoodStack
<1>8. ASSUME NEW k \in 2..Len(b) PROVE CallOfTile(b[k], res) /\ CalledBy(b[k], b[k - 1])
  <2>1. k \in 2..n /\ k \in 1..n - 1 /\ k - 1 \in 1..n - 1
    BY <1>3
  <2>2. QED
    BY <1>1, <1>3, <2>1 DEF GoodStack
<1>9. GoodStack(b, res, at)
  BY <1>3, <1>4, <1>6, <1>7, <1>8 DEF GoodStack
<1>10. CallOfTile(s[n], res) /\ CalledBy(s[n], s[n - 1])
  <2>1. n \in 2..Len(s)
    BY <1>1, <1>3
  <2>2. QED
    BY <2>1 DEF GoodStack
<1>11. QED
  BY <1>1, <1>3, <1>5, <1>9, <1>10

(***************************************************************************)
(* The call on top has gone on.                                            *)
(***************************************************************************)
LEMMA GoneOn ==
  ASSUME NEW res, NEW at, NEW s, GoodStack(s, res, at), NEW g, JoinedTo(g, Last(s), res, at)
  PROVE  GoodStack(Append(Front(s), g), res, at)
<1>1. PICK n, b, a : n = Len(s) /\ b = Front(s) /\ a = Append(Front(s), g)
  OBVIOUS
<1>2. s \in Seq(Calls) /\ s # <<>> /\ g \in Calls
  BY DEF GoodStack, JoinedTo, GoodCall
<1>3. /\ n \in Nat \ {0} /\ Last(s) = s[n]
      /\ b \in Seq(Calls) /\ Len(b) = n - 1
      /\ \A i \in 1..n - 1 : b[i] = s[i]
  BY <1>1, <1>2, FrontIs
<1>4. /\ a \in Seq(Calls) /\ a # <<>> /\ Len(a) = n
      /\ \A i \in 1..n - 1 : a[i] = s[i]
      /\ a[n] = g
  <2>1. /\ a \in Seq(Calls) /\ a # <<>> /\ Len(a) = Len(b) + 1
        /\ \A i \in 1..Len(b) : a[i] = b[i]
        /\ a[Len(b) + 1] = g
    BY <1>1, <1>2, <1>3, AppendIs
  <2>2. Len(b) + 1 = n
    BY <1>3
  <2>3. QED
    BY <1>3, <2>1, <2>2
<1>5. g.tile = s[n].tile /\ g.begin = s[n].begin /\ GoodCall(g, res, at) /\ (CallOfTile(s[n], res) => CallOfTile(g, res))
  BY <1>3 DEF JoinedTo
<1>6. a[1].tile # finestTileResolution(res)
  <2>1. 1 \in 1..n - 1 \/ 1 = n
    BY <1>3
  <2>2. QED
    BY <1>4, <1>5, <2>1 DEF GoodStack
<1>7. ASSUME NEW k \in 1..Len(a) PROVE GoodCall(a[k], res, at)
  <2>1. (k \in 1..n - 1 /\ k \in 1..n) \/ k = n
    BY <1>3, <1>4
  <2>2. QED
    BY <1>1, <1>4, <1>5, <2>1 DEF GoodStack
<1>8. ASSUME NEW k \in 2..Len(a) PROVE CallOfTile(a[k], res) /\ CalledBy(a[k], a[k - 1])
  <2>1. k \in 2..n /\ k - 1 \in 1..n - 1 /\ (k \in 1..n - 1 \/ k = n)
    BY <1>3, <1>4
  <2>2. CallOfTile(s[k], res) /\ CalledBy(s[k], s[k - 1]) /\ a[k - 1] = s[k - 1]
    BY <1>1, <1>4, <2>1 DEF GoodStack
  <2>3. CASE k = n
    BY <1>4, <1>5, <2>2, <2>3 DEF CalledBy
  <2>4. CASE k \in 1..n - 1
    BY <1>4, <2>2, <2>4
  <2>5. QED
    BY <2>1, <2>3, <2>4
<1>9. GoodStack(a, res, at)
  BY <1>4, <1>6, <1>7, <1>8 DEF GoodStack
<1>10. QED
  BY <1>1, <1>9

-----------------------------------------------------------------------------
(* What is returned, from what is known of its slots.                      *)

FitTogether(slots) ==
  /\ \A i \in DOMAIN slots \ {1} : slots[i - 1].end <= slots[i].begin
  /\ \A i \in DOMAIN slots : slots[i].trades # <<>>
  /\ \A t \in Trades : Cardinality(PlacesOf(slots, t)) <= 1
  /\ \A p \in Places(slots) :
       LET s == slots[p[1]] IN trade[s.trades[p[2]]].matched \in s.begin..s.end

CompleteAnswer(a) ==
  a.partial \/ \A t \in Trades :
    /\ trade[t] # NoTrade
    /\ trade[t].matched \in a.begin..a.end - 1
    /\ trade[t].stored \in trade[t].matched..Min({trade[t].matched + Grace, a.at - Stale - 1})
    => PlacesOf(a.slots, t) # {}

LEMMA SlotTrades ==
  ASSUME NEW slots \in Seq(Slot), NEW i \in 1..Len(slots)
  PROVE  slots[i].trades \in Seq(Trades)
<1>1. slots[i] \in Slot
  OBVIOUS
<1>2. QED
  BY <1>1 DEF Slot

LEMMA PlaceIs ==
  ASSUME NEW slots \in Seq(Slot), NEW p, p \in Places(slots)
  PROVE  \E i \in 1..Len(slots) : \E k \in 1..Len(slots[i].trades) : p = <<i, k>>
<1>1. PICK i \in DOMAIN slots : p \in {<<i, j>> : j \in DOMAIN slots[i].trades}
  BY DEF Places
<1>2. PICK k \in DOMAIN slots[i].trades : p = <<i, k>>
  BY <1>1
<1>3. i \in 1..Len(slots)
  OBVIOUS
<1>4. slots[i].trades \in Seq(Trades)
  BY <1>3, SlotTrades
<1>5. k \in 1..Len(slots[i].trades)
  BY <1>4
<1>6. QED
  BY <1>2, <1>3, <1>5

LEMMA HasPlace ==
  ASSUME NEW slots \in Seq(Slot), NEW t, Has(slots, t)
  PROVE  PlacesOf(slots, t) # {}
<1>1. PICK i \in 1..Len(slots) : Among(slots[i].trades, t)
  BY DEF Has
<1>2. PICK k \in 1..Len(slots[i].trades) : slots[i].trades[k] = t
  BY <1>1 DEF Among
<1>3. slots[i].trades \in Seq(Trades)
  BY SlotTrades
<1>4. i \in DOMAIN slots /\ k \in DOMAIN slots[i].trades
  BY <1>3
<1>5. <<i, k>> \in Places(slots)
  BY <1>4 DEF Places
<1>6. <<i, k>> \in PlacesOf(slots, t)
  BY <1>2, <1>5 DEF PlacesOf
<1>7. QED
  BY <1>6

LEMMA FitIsTogether ==
  ASSUME NEW slots, NEW lo, NEW hi, Fit(slots, lo, hi)
  PROVE  FitTogether(slots)
<1>1. slots \in Seq(Slot) /\ DOMAIN slots = 1..Len(slots) /\ Len(slots) \in Nat
  BY FitParts
<1>2. \A i \in DOMAIN slots \ {1} : slots[i - 1].end <= slots[i].begin
  <2> SUFFICES ASSUME NEW i \in DOMAIN slots \ {1} PROVE slots[i - 1].end <= slots[i].begin
    OBVIOUS
  <2>1. i \in 1..Len(slots) /\ i - 1 \in 1..Len(slots) /\ i - 1 < i
    BY <1>1
  <2>2. QED
    BY <2>1 DEF Fit
<1>3. \A i \in DOMAIN slots : slots[i].trades # <<>>
  BY <1>1, FitParts DEF Within
<1>4. ASSUME NEW t \in Trades PROVE Cardinality(PlacesOf(slots, t)) <= 1
  <2>1. ASSUME NEW p \in PlacesOf(slots, t), NEW q \in PlacesOf(slots, t) PROVE p = q
    <3>1. /\ p \in Places(slots) /\ slots[p[1]].trades[p[2]] = t
          /\ q \in Places(slots) /\ slots[q[1]].trades[q[2]] = t
      BY DEF PlacesOf
    <3>2. PICK i \in 1..Len(slots) : \E k \in 1..Len(slots[i].trades) : p = <<i, k>>
      BY <1>1, <3>1, PlaceIs
    <3>3. PICK k \in 1..Len(slots[i].trades) : p = <<i, k>>
      BY <3>2
    <3>4. PICK j \in 1..Len(slots) : \E l \in 1..Len(slots[j].trades) : q = <<j, l>>
      BY <1>1, <3>1, PlaceIs
    <3>5. PICK l \in 1..Len(slots[j].trades) : q = <<j, l>>
      BY <3>4
    <3>6. slots[i].trades[k] = slots[j].trades[l]
      BY <3>1, <3>3, <3>5
    <3>7. i = j /\ k = l
      BY <3>6 DEF Fit
    <3>8. QED
      BY <3>3, <3>5, <3>7
  <2>2. CASE PlacesOf(slots, t) = {}
    BY <2>2, FS_EmptySet
  <2>3. CASE PlacesOf(slots, t) # {}
    <3>1. PICK p : p \in PlacesOf(slots, t)
      BY <2>3
    <3>2. PlacesOf(slots, t) = {p}
      BY <2>1, <3>1
    <3>3. Cardinality({p}) = 1
      BY FS_Singleton
    <3>4. QED
      BY <3>2, <3>3
  <2>4. QED
    BY <2>2, <2>3
<1>5. ASSUME NEW p \in Places(slots)
      PROVE  trade[slots[p[1]].trades[p[2]]].matched \in slots[p[1]].begin..slots[p[1]].end
  <2>1. PICK i \in 1..Len(slots) : \E k \in 1..Len(slots[i].trades) : p = <<i, k>>
    BY <1>1, PlaceIs
  <2>2. PICK k \in 1..Len(slots[i].trades) : p = <<i, k>>
    BY <2>1
  <2>3. Belongs(slots[i].trades[k], slots[i], lo, hi)
    BY FitParts
  <2>4. p[1] = i /\ p[2] = k
    BY <2>2
  <2>5. QED
    BY <2>3, <2>4 DEF Belongs
<1>6. QED
  BY <1>2, <1>3, <1>4, <1>5, Zenon DEF FitTogether

LEMMA OldIsComplete ==
  ASSUME TradesTyped, NEW a, NEW lo \in Int, NEW hi, a.begin = lo, a.end \in Int, a.at \in Int,
         NEW age \in Int, age <= Stale,
         Fit(a.slots, lo, hi), a.partial \/ HasOld(a.slots, lo, a.end, a.at - age)
  PROVE  CompleteAnswer(a)
<1> SUFFICES ASSUME HasOld(a.slots, lo, a.end, a.at - age),
                    NEW t \in Trades, trade[t] # NoTrade, trade[t].matched \in a.begin..a.end - 1,
                    trade[t].stored \in trade[t].matched..Min({trade[t].matched + Grace, a.at - Stale - 1})
             PROVE  PlacesOf(a.slots, t) # {}
  BY DEF CompleteAnswer
<1>1. Grace \in Int /\ Stale \in Nat
  BY Numbers
<1>2. PICK m, s, end, at : m = trade[t].matched /\ s = trade[t].stored /\ end = a.end /\ at = a.at
  OBVIOUS
<1>3. m \in Int /\ s \in Int /\ end \in Int /\ at \in Int
  BY <1>2 DEF TradesTyped
<1>4. m \in lo..end - 1
  BY <1>2
<1>5. s \in m..Min({m + Grace, at - Stale - 1})
  BY <1>2
<1>6. Min({m + Grace, at - Stale - 1}) =
        IF m + Grace <= at - Stale - 1 THEN m + Grace ELSE at - Stale - 1
  BY <1>1, <1>3, MinOfTwo
<1>7. m <= s /\ s <= m + Grace /\ s <= at - Stale - 1
  BY <1>1, <1>3, <1>5, <1>6
<1>8. s < at - age
  BY <1>1, <1>3, <1>7
<1>9. Due(t, lo, a.end)
  BY <1>2, <1>4, <1>7 DEF Due
<1>10. Has(a.slots, t)
  BY <1>2, <1>8, <1>9 DEF HasOld
<1>11. QED
  BY <1>10, FitParts, HasPlace
-----------------------------------------------------------------------------
(* Steps: a trade that is new is stored now.                               *)

TradeStep ==
  /\ clock' \in Nat /\ clock <= clock'
  /\ \A t \in Trades : trade'[t] = trade[t] \/ (trade[t] = NoTrade /\ clock <= trade'[t].stored)

LEMMA FitKept ==
  ASSUME TradeStep, NEW slots, NEW lo, NEW hi, Fit(slots, lo, hi)
  PROVE  Fit(slots, lo, hi)'
<1>1. ASSUME NEW i \in 1..Len(slots), NEW k \in 1..Len(slots[i].trades)
      PROVE  Belongs(slots[i].trades[k], slots[i], lo, hi)'
  <2>1. PICK t : t = slots[i].trades[k]
    OBVIOUS
  <2>2. t \in Trades
    BY <2>1, FitParts
  <2>3. Belongs(t, slots[i], lo, hi)
    BY <2>1, FitParts
  <2>4. trade'[t] = trade[t]
    BY <2>2, <2>3 DEF TradeStep, Belongs
  <2>5. Belongs(t, slots[i], lo, hi)'
    BY <2>3, <2>4 DEF Belongs
  <2>6. QED
    BY <2>1, <2>5
<1>2. QED
  BY <1>1 DEF Fit

LEMMA HasOldKept ==
  ASSUME clock \in Nat, TradesTyped', TradeStep, NEW slots, NEW lo, NEW hi,
         NEW limit \in Int, limit <= clock, HasOld(slots, lo, hi, limit)
  PROVE  HasOld(slots, lo, hi, limit)'
<1>1. ASSUME NEW t \in Trades, Due(t, lo, hi)', trade'[t].stored < limit PROVE Has(slots, t)
  <2>1. CASE trade'[t] = trade[t]
    <3>1. Due(t, lo, hi) /\ trade[t].stored < limit
      BY <1>1, <2>1 DEF Due
    <3>2. QED
      BY <3>1 DEF HasOld
  <2>2. CASE clock <= trade'[t].stored
    <3>1. PICK s : s = trade'[t].stored
      OBVIOUS
    <3>2. s \in Int /\ s < limit /\ clock <= s
      BY <1>1, <2>2, <3>1 DEF TradesTyped
    <3>3. FALSE
      BY <3>2
    <3>4. QED
      BY <3>3
  <2>3. QED
    BY <2>1, <2>2 DEF TradeStep
<1>2. QED
  BY <1>1 DEF HasOld, Has, Among

LEMMA TileKept ==
  ASSUME clock \in Nat, TradesTyped, TradesTyped', TradeStep,
         NEW e, GoodTile(e), e.until = Always \/ clock' < e.until
  PROVE  GoodTile(e)'
<1>1. PICK hi : hi = e.begin + Interval[e.tile]
  OBVIOUS
<1>2. e.res \in Resolutions /\ e.tile \in Tiles(e.res) /\ e.tile \in Resolutions
  BY TileSizes DEF GoodTile
<1>3. e.begin \in Int /\ e.until \in Int /\ e.partial \in BOOLEAN /\ hi \in Int
  BY <1>1, <1>2, IntervalIs DEF GoodTile
<1>4. Fit(e.slots, e.begin, hi)'
  BY <1>1, FitKept DEF GoodTile
<1>5. clock \in Nat /\ clock' \in Nat /\ clock <= clock'
  BY DEF TradeStep
<1>6. PICK age : age = Age(e.tile, e.res) /\ age \in Nat
  BY <1>2, Ages, TilesAreSizes
<1>7. Horizon \in Nat /\ Expiry \in Nat /\ Slack \in Nat /\ Grace \in Int /\ Grace <= Horizon
  BY Numbers
<1>8. CASE e.until = Always
  <2>1. hi + Horizon <= clock /\ (e.partial \/ HasDue(e.slots, e.begin, hi))
    BY <1>1, <1>8 DEF GoodTile
  <2>2. hi + Horizon <= clock'
    BY <1>3, <1>5, <1>7, <2>1
  <2>3. ASSUME HasDue(e.slots, e.begin, hi) PROVE HasDue(e.slots, e.begin, hi)'
    <3>1. ASSUME NEW t \in Trades, Due(t, e.begin, hi)' PROVE Has(e.slots, t)
      <4>1. CASE trade'[t] = trade[t]
        <5>1. Due(t, e.begin, hi)
          BY <3>1, <4>1 DEF Due
        <5>2. QED
          BY <2>3, <5>1 DEF HasDue
      <4>2. CASE clock <= trade'[t].stored
        <5>1. PICK m, s : m = trade'[t].matched /\ s = trade'[t].stored
          OBVIOUS
        <5>2. m \in Int /\ s \in Int /\ m <= hi - 1 /\ s <= m + Grace /\ clock <= s
          BY <3>1, <4>2, <5>1 DEF Due, TradesTyped
        <5>3. FALSE
          BY <1>3, <1>5, <1>7, <2>1, <5>2
        <5>4. QED
          BY <5>3
      <4>3. QED
        BY <4>1, <4>2 DEF TradeStep
    <3>2. QED
      BY <3>1 DEF HasDue, Has, Among
  <2>4. QED
    BY <1>1, <1>2, <1>3, <1>4, <1>8, <2>1, <2>2, <2>3 DEF GoodTile
<1>9. CASE e.until # Always
  <2>1. PICK u, limit : u = e.until /\ limit = e.until - Expiry - Slack - age
    OBVIOUS
  <2>2. /\ clock < u /\ u <= clock + Expiry
        /\ e.partial \/ HasOld(e.slots, e.begin, hi, limit)
    BY <1>1, <1>6, <1>9, <2>1 DEF GoodTile
  <2>3. clock' < u /\ u <= clock' + Expiry
    BY <1>3, <1>5, <1>7, <1>9, <2>1, <2>2
  <2>4. limit \in Int /\ limit <= clock
    BY <1>3, <1>5, <1>6, <1>7, <2>1, <2>2
  <2>5. e.partial \/ HasOld(e.slots, e.begin, hi, limit)'
    BY <2>2, <2>4, HasOldKept
  <2>6. QED
    BY <1>1, <1>2, <1>3, <1>4, <1>6, <1>9, <2>1, <2>3, <2>5 DEF GoodTile
<1>10. QED
  BY <1>8, <1>9

LEMMA CallKept ==
  ASSUME clock \in Nat, TradesTyped', TradeStep,
         NEW res \in Resolutions, NEW at \in Int, at <= clock, NEW f, GoodCall(f, res, at)
  PROVE  GoodCall(f, res, at)'
<1>1. Fit(f.slots, f.begin, f.next)'
  BY FitKept DEF GoodCall
<1>2. PICK limit : limit = at - Age(f.tile, res)
  OBVIOUS
<1>3. limit \in Int /\ limit <= clock
  BY <1>2, CallParts, Ages
<1>4. f.partial \/ HasOld(f.slots, f.begin, Upto(f), limit)'
  BY <1>2, <1>3, HasOldKept DEF GoodCall
<1>5. QED
  BY <1>1, <1>2, <1>4 DEF GoodCall

LEMMA QueryKept ==
  ASSUME clock \in Nat, TradesTyped', TradeStep,
         NEW q, GoodQuery(q), clock' <= q.at + Slack
  PROVE  GoodQuery(q)'
<1>1. q.res \in Resolutions /\ q.at \in Int /\ q.at <= clock /\ clock <= clock' /\ clock' \in Nat
  BY DEF GoodQuery, TradeStep
<1>2. q.at <= clock'
  BY <1>1
<1>3. GoodStack(q.stack, q.res, q.at)
  BY DEF GoodQuery
<1>4. \A k \in 1..Len(q.stack) : GoodCall(q.stack[k], q.res, q.at)'
  BY <1>1, <1>3, CallKept DEF GoodStack
<1>5. GoodStack(q.stack, q.res, q.at)'
  BY <1>3, <1>4 DEF GoodStack
<1>6. QED
  BY <1>2, <1>5 DEF GoodQuery
-----------------------------------------------------------------------------
(* The inductive invariant, and its theorems.                              *)

LEMMA NoTradeIs == NoTrade \in [matched : Int, stored : Int] /\ NoTrade.stored = 0 - 1
BY DEF NoTrade, NotYet

LEMMA NoAnswerIs == NoAnswer.slots = <<>> /\ NoAnswer.begin = 0 /\ NoAnswer.end = 0
BY DEF NoAnswer

LEMMA NothingPlaced ==
  /\ DOMAIN <<>> = {} /\ Places(<<>>) = {}
  /\ \A t : Cardinality(PlacesOf(<<>>, t)) <= 1
  /\ NoAnswer.begin..NoAnswer.end - 1 = {}
<1>1. DOMAIN <<>> = {} /\ Places(<<>>) = {}
  BY DEF Places
<1>2. \A t : PlacesOf(<<>>, t) = {}
  BY <1>1 DEF PlacesOf
<1>3. Cardinality({}) <= 1
  <2>1. Cardinality({}) = 0
    BY FS_EmptySet
  <2>2. QED
    BY <2>1
<1>4. \A t : Cardinality(PlacesOf(<<>>, t)) <= 1
  BY <1>2, <1>3
<1>5. NoAnswer.begin..NoAnswer.end - 1 = {}
  BY NoAnswerIs
<1>6. QED
  BY <1>1, <1>4, <1>5

LEMMA NoAnswerFits == FitTogether(NoAnswer.slots) /\ CompleteAnswer(NoAnswer)
<1>1. FitTogether(<<>>)
  BY NothingPlaced DEF FitTogether
<1>2. CompleteAnswer(NoAnswer)
  BY NothingPlaced DEF CompleteAnswer
<1>3. QED
  BY <1>1, <1>2, NoAnswerIs

LEMMA NoAnswerFitsAfter == FitTogether(NoAnswer.slots)' /\ CompleteAnswer(NoAnswer)'
<1>1. FitTogether(<<>>)'
  BY NothingPlaced DEF FitTogether
<1>2. CompleteAnswer(NoAnswer)'
  BY NothingPlaced DEF CompleteAnswer
<1>3. QED
  BY <1>1, <1>2, NoAnswerIs

LEMMA TileOfQuery ==
  ASSUME NEW period \in Resolutions, NEW res \in Resolutions
  PROVE  Tile(period, res) \in Tiles(res)
<1>1. PICK f, c : f = finestTileResolution(res) /\ c = coarsestTileResolution(res)
  OBVIOUS
<1>2. f \in Nat /\ c \in Nat /\ c <= f /\ Tiles(res) = c..f /\ period \in Int
  BY <1>1, TileSizes DEF Tiles
<1>3. PICK m : m = Max({c, period})
  OBVIOUS
<1>4. m \in Int /\ c <= m
  BY <1>2, <1>3, MaxOfTwo
<1>5. Tile(period, res) = Min({f, m})
  BY <1>1, <1>3 DEF Tile
<1>6. Min({f, m}) = IF f <= m THEN f ELSE m
  BY <1>2, <1>4, MinOfTwo
<1>7. QED
  BY <1>2, <1>4, <1>5, <1>6

LEMMA TruncatedIs ==
  ASSUME NEW begin \in Int, NEW tile \in Resolutions
  PROVE  Truncated(begin, tile) \in Int /\ Truncated(begin, tile) <= begin
<1>1. PICK I : I = Interval[tile] /\ I \in Nat \ {0}
  BY IntervalIs
<1>2. begin % I \in Nat
  BY <1>1
<1>3. QED
  BY <1>1, <1>2 DEF Truncated

Inductive ==
  /\ PricesInv
  /\ SlotsFitTogether
  /\ AnswersComplete

LEMMA AnswerGood ==
  /\ SlotsFitTogether <=> FitTogether(answer.slots)
  /\ AnswersComplete <=> CompleteAnswer(answer)
BY DEF SlotsFitTogether, AnswersComplete, FitTogether, CompleteAnswer

LEMMA AnswerGoodAfter ==
  /\ SlotsFitTogether' <=> FitTogether(answer.slots)'
  /\ AnswersComplete' <=> CompleteAnswer(answer)'
BY DEF SlotsFitTogether, AnswersComplete, FitTogether, CompleteAnswer

LEMMA InitPrices == PricesInit => Inductive
<1> SUFFICES ASSUME PricesInit PROVE Inductive
  OBVIOUS
<1>1. clock \in Nat
  BY PricesAssumption DEF PricesInit
<1>2. TradesTyped
  BY NoTradeIs DEF PricesInit, TradesTyped
<1>3. DOMAIN query = Queriers /\ \A q \in Queriers : query[q] = NoQuery
  BY DEF PricesInit
<1>4. PricesInv
  BY <1>1, <1>2, <1>3 DEF PricesInit, PricesInv
<1>5. FitTogether(answer.slots) /\ CompleteAnswer(answer)
  BY NoAnswerFits DEF PricesInit
<1>6. SlotsFitTogether /\ AnswersComplete
  BY <1>5, AnswerGood
<1>7. QED
  BY <1>4, <1>6 DEF Inductive

LEMMA NothingAnswered ==
  ASSUME answer' = NoAnswer
  PROVE  SlotsFitTogether' /\ AnswersComplete'
<1>1. FitTogether(answer.slots)' /\ CompleteAnswer(answer)'
  BY NoAnswerFitsAfter DEF FitTogether, CompleteAnswer
<1>2. QED
  BY <1>1, AnswerGoodAfter

LEMMA MatchBidsKeeps ==
  ASSUME PricesInv, NEW t \in Trades, MatchBids(t)
  PROVE  PricesInv'
<1>1. PICK delay \in Delays : trade' = [trade EXCEPT ![t] = [matched |-> clock - delay, stored |-> clock]]
  BY DEF MatchBids
<1>2. /\ clock' = clock /\ query' = query /\ cache' = cache /\ trade[t] = NoTrade
      /\ clock \in Nat /\ TradesTyped
  BY DEF MatchBids, PricesInv
<1>3. clock - delay \in Int /\ clock \in Int
  <2>1. delay \in Int
    BY PricesAssumption
  <2>2. QED
    BY <1>2, <2>1
<1>4. PICK new : new = [matched |-> clock - delay, stored |-> clock]
  OBVIOUS
<1>5. new \in [matched : Int, stored : Int] /\ new.stored = clock
  BY <1>3, <1>4
<1>6. trade'[t] = new /\ \A u \in Trades : u # t => trade'[u] = trade[u]
  BY <1>1, <1>2, <1>4 DEF TradesTyped
<1>7. TradesTyped'
  <2>1. trade' \in [Trades -> [matched : Int, stored : Int]]
    BY <1>1, <1>2, <1>4, <1>5 DEF TradesTyped
  <2>2. \A u \in Trades : trade'[u] # NoTrade => trade'[u].stored \in Nat /\ trade'[u].stored <= clock'
    BY <1>2, <1>5, <1>6 DEF TradesTyped
  <2>3. QED
    BY <2>1, <2>2 DEF TradesTyped
<1>8. TradeStep
  BY <1>2, <1>3, <1>5, <1>6 DEF TradeStep
<1>9. ASSUME NEW e \in cache' PROVE GoodTile(e)'
  <2>1. GoodTile(e)
    BY <1>2, <1>9 DEF PricesInv
  <2>2. e.until = Always \/ clock' < e.until
    BY <1>2, <2>1 DEF GoodTile
  <2>3. QED
    BY <1>2, <1>7, <1>8, <2>1, <2>2, TileKept
<1>10. ASSUME NEW q \in Queriers, query'[q] # NoQuery PROVE GoodQuery(query[q])'
  <2>1. PICK r : r = query[q]
    OBVIOUS
  <2>2. GoodQuery(r)
    BY <1>2, <1>10, <2>1 DEF PricesInv
  <2>3. clock' <= r.at + Slack
    BY <1>2, <2>2 DEF GoodQuery
  <2>4. GoodQuery(r)'
    BY <1>2, <1>7, <1>8, <2>2, <2>3, QueryKept
  <2>5. QED
    BY <1>2, <2>1, <2>4 DEF GoodQuery
<1>11. QED
  BY <1>2, <1>7, <1>9, <1>10 DEF PricesInv

(***************************************************************************)
(* Steps that leave the clock and the trades as they are.                  *)
(***************************************************************************)
LEMMA StillGood ==
  ASSUME clock \in Nat, TradesTyped, UNCHANGED <<clock, trade>>
  PROVE  /\ clock' \in Nat /\ TradesTyped'
         /\ \A e : GoodTile(e) => GoodTile(e)'
         /\ \A q : GoodQuery(q) => GoodQuery(q)'
<1>1. clock' \in Nat /\ TradesTyped' /\ TradeStep
  BY DEF TradesTyped, TradeStep
<1>2. ASSUME NEW e, GoodTile(e) PROVE GoodTile(e)'
  <2>1. e.until = Always \/ clock' < e.until
    BY <1>2 DEF GoodTile
  <2>2. QED
    BY <1>1, <1>2, <2>1, TileKept
<1>3. ASSUME NEW q, GoodQuery(q) PROVE GoodQuery(q)'
  <2>1. clock' <= q.at + Slack
    BY <1>3 DEF GoodQuery
  <2>2. QED
    BY <1>1, <1>3, <2>1, QueryKept
<1>4. QED
  BY <1>1, <1>2, <1>3

(***************************************************************************)
(* Steps of one handler.                                                   *)
(***************************************************************************)
LEMMA HandlerStep ==
  ASSUME PricesInv, UNCHANGED <<clock, trade>>, NEW q \in Queriers,
         NEW new, new = NoQuery \/ GoodQuery(new), query' = [query EXCEPT ![q] = new],
         \A e \in cache' : GoodTile(e)
  PROVE  PricesInv'
<1>1. clock \in Nat /\ TradesTyped
  BY DEF PricesInv
<1>2. /\ clock' \in Nat /\ TradesTyped'
      /\ \A e : GoodTile(e) => GoodTile(e)'
      /\ \A r : GoodQuery(r) => GoodQuery(r)'
  BY <1>1, StillGood
<1>3. DOMAIN query' = Queriers /\ query'[q] = new /\ \A r \in Queriers \ {q} : query'[r] = query[r]
  BY DEF PricesInv
<1>4. ASSUME NEW r \in Queriers PROVE query'[r] = NoQuery \/ GoodQuery(query[r])'
  <2>1. PICK x : x = query'[r]
    OBVIOUS
  <2>2. x = NoQuery \/ GoodQuery(x)
    BY <1>3, <2>1 DEF PricesInv
  <2>3. x = NoQuery \/ GoodQuery(x)'
    BY <1>2, <2>2
  <2>4. QED
    BY <2>1, <2>3 DEF GoodQuery
<1>5. \A e \in cache' : GoodTile(e)'
  BY <1>2
<1>6. QED
  BY <1>2, <1>3, <1>4, <1>5 DEF PricesInv

LEMMA StackStep ==
  ASSUME PricesInv, UNCHANGED <<clock, trade>>, NEW q \in Queriers, query[q] # NoQuery,
         NEW s, GoodStack(s, query[q].res, query[q].at), query' = [query EXCEPT ![q].stack = s],
         \A e \in cache' : GoodTile(e)
  PROVE  PricesInv'
<1>1. GoodQuery(query[q])
  BY DEF PricesInv
<1>2. PICK r, new : r = query[q] /\ new = [query[q] EXCEPT !.stack = s]
  OBVIOUS
<1>3. r \in [res : Resolutions, at : Int, stack : Seq(Calls)] /\ s \in Seq(Calls)
  BY <1>1, <1>2 DEF GoodQuery, GoodStack
<1>4. /\ new \in [res : Resolutions, at : Int, stack : Seq(Calls)]
      /\ new.res = r.res /\ new.at = r.at /\ new.stack = s
  BY <1>2, <1>3
<1>5. GoodQuery(new)
  BY <1>1, <1>2, <1>4 DEF GoodQuery
<1>6. query' = [query EXCEPT ![q] = new]
  BY <1>2
<1>7. QED
  BY <1>5, <1>6, HandlerStep

LEMMA ActiveParts ==
  ASSUME PricesInv, NEW q \in Queriers, query[q] # NoQuery
  PROVE  /\ clock \in Nat /\ TradesTyped
         /\ query[q].res \in Resolutions /\ query[q].at \in Int
         /\ query[q].at <= clock /\ clock <= query[q].at + Slack
         /\ GoodStack(query[q].stack, query[q].res, query[q].at)
         /\ query[q].stack \in Seq(Calls) /\ query[q].stack # <<>>
         /\ Len(query[q].stack) \in Nat \ {0} /\ Top(q) = query[q].stack[Len(query[q].stack)]
         /\ GoodCall(Top(q), query[q].res, query[q].at)
         /\ Top(q) = Last(query[q].stack) /\ Below(q) = Front(query[q].stack)
<1>1. GoodQuery(query[q]) /\ clock \in Nat /\ TradesTyped
  BY DEF PricesInv
<1>2. PICK s : s = query[q].stack
  OBVIOUS
<1>3. GoodStack(s, query[q].res, query[q].at) /\ s \in Seq(Calls) /\ s # <<>>
  BY <1>1, <1>2 DEF GoodQuery, GoodStack
<1>4. Len(s) \in Nat \ {0} /\ Last(s) = s[Len(s)]
  BY <1>3, FrontIs
<1>5. Len(s) \in 1..Len(s)
  BY <1>4
<1>6. GoodCall(s[Len(s)], query[q].res, query[q].at)
  BY <1>3, <1>5 DEF GoodStack
<1>7. QED
  BY <1>1, <1>2, <1>3, <1>4, <1>6 DEF GoodQuery, Top, Below

LEMMA AskKeeps ==
  ASSUME PricesInv, NEW q \in Queriers, NEW given \in Int,
         NEW period \in Resolutions, NEW res \in Resolutions, Ask(q, given, period, res)
  PROVE  PricesInv'
<1>1. clock \in Nat /\ UNCHANGED <<clock, trade>> /\ cache' = cache
  BY DEF Ask, PricesInv
<1>2. PICK begin, tile, from, end :
        /\ begin = (IF given = Now THEN clock - Interval[period] ELSE given)
        /\ tile = Tile(period, res) /\ from = Truncated(begin, tile) /\ end = begin + Interval[period]
  OBVIOUS
<1>3. PICK call, new : call = Frame(tile - 1, from, end) /\ new = [res |-> res, at |-> clock, stack |-> <<call>>]
  OBVIOUS
<1>4. query' = [query EXCEPT ![q] = new]
  BY <1>2, <1>3 DEF Ask
<1>5. begin \in Int /\ Interval[period] \in Nat \ {0}
  BY <1>1, <1>2, IntervalIs
<1>6. tile \in Tiles(res) /\ tile \in Resolutions
  BY <1>2, TileOfQuery, TilesAreSizes
<1>7. from \in Int /\ end \in Int /\ from < end
  <2>1. from \in Int /\ from <= begin
    BY <1>2, <1>5, <1>6, TruncatedIs
  <2>2. QED
    BY <1>2, <1>5, <2>1
<1>8. IsSize(tile - 1, res) /\ tile - 1 # finestTileResolution(res)
  <2>1. PICK f, c : f = finestTileResolution(res) /\ c = coarsestTileResolution(res)
    OBVIOUS
  <2>2. f \in Nat /\ c \in Nat /\ 1 <= c /\ tile \in c..f
    BY <1>6, <2>1, TileSizes DEF Tiles
  <2>3. QED
    BY <2>1, <2>2 DEF IsSize
<1>9. GoodCall(call, res, clock) /\ call.tile = tile - 1
  BY <1>3, <1>7, <1>8, FrameIsGood
<1>10. GoodStack(<<call>>, res, clock)
  <2>1. PICK s : s = <<call>>
    OBVIOUS
  <2>2. call \in Calls
    BY <1>9 DEF GoodCall
  <2>3. s \in Seq(Calls) /\ s # <<>> /\ Len(s) = 1 /\ s[1] = call
    BY <2>1, <2>2
  <2>4. 2..Len(s) = {} /\ \A k \in 1..Len(s) : k = 1
    BY <2>3
  <2>5. GoodStack(s, res, clock)
    BY <1>8, <1>9, <2>3, <2>4 DEF GoodStack
  <2>6. QED
    BY <2>1, <2>5
<1>11. GoodQuery(new)
  <2>1. clock \in Int /\ clock <= clock /\ clock <= clock + Slack
    BY <1>1, Numbers
  <2>2. new.res = res /\ new.at = clock /\ new.stack = <<call>>
    BY <1>3
  <2>3. <<call>> \in Seq(Calls)
    BY <1>10 DEF GoodStack
  <2>4. new \in [res : Resolutions, at : Int, stack : Seq(Calls)]
    BY <1>3, <2>1, <2>3
  <2>5. QED
    BY <1>10, <2>1, <2>2, <2>4 DEF GoodQuery
<1>12. \A e \in cache' : GoodTile(e)
  BY <1>1 DEF PricesInv
<1>13. QED
  BY <1>1, <1>4, <1>11, <1>12, HandlerStep

LEMMA FoundKeeps ==
  ASSUME PricesInv, NEW q \in Queriers, Found(q)
  PROVE  PricesInv'
<1>1. PICK f, res, at, s : f = Top(q) /\ res = query[q].res /\ at = query[q].at /\ s = query[q].stack
  OBVIOUS
<1>2. /\ query[q] # NoQuery /\ f.next < f.end /\ f.tile # finestTileResolution(res)
      /\ UNCHANGED <<clock, trade>> /\ cache' = cache
  BY <1>1 DEF Found, Fetches, Finest
<1>3. /\ clock \in Nat /\ TradesTyped /\ res \in Resolutions /\ at \in Int /\ at <= clock
      /\ GoodStack(s, res, at) /\ GoodCall(f, res, at) /\ f = Last(s) /\ Below(q) = Front(s)
  BY <1>1, <1>2, ActiveParts
<1>4. PICK e \in Cached(Top(q).tile + 1, query[q].res, Top(q).next) :
        query' = [query EXCEPT ![q].stack = Append(Below(q), Joined(Top(q), e.slots, e.partial))]
  BY DEF Found
<1>5. e \in cache /\ e.tile = f.tile + 1 /\ e.res = res /\ e.begin = f.next
  BY <1>1, <1>4 DEF Cached
<1>6. GoodTile(e)
  BY <1>5 DEF PricesInv
<1>7. PICK g : g = Joined(f, e.slots, e.partial)
  OBVIOUS
<1>8. JoinedTo(g, f, res, at)
  <2>1. e.partial \in BOOLEAN /\ Fit(e.slots, f.next, f.next + Interval[f.tile + 1])
    BY <1>5, <1>6 DEF GoodTile
  <2>2. PICK age : age = Age(f.tile + 1, res)
    OBVIOUS
  <2>3. e.partial \/ HasOld(e.slots, f.next, f.next + Interval[f.tile + 1], at - Expiry - Slack - age)
    BY <1>3, <1>5, <1>6, <2>2, CachedIsGood
  <2>4. at - Expiry - Slack - age = at - Age(f.tile, res)
    <3>1. IsSize(f.tile, res)
      BY <1>3, CallParts
    <3>2. f.tile + 1 \in Tiles(res) /\ Age(f.tile, res) = Expiry + Slack + age
      BY <1>2, <1>3, <2>2, <3>1, Ages
    <3>3. age \in Nat
      BY <1>3, <2>2, <3>2, Ages, TilesAreSizes
    <3>4. QED
      BY <1>3, <3>2, <3>3, Numbers
  <2>5. QED
    BY <1>2, <1>3, <1>7, <2>1, <2>3, <2>4, JoinedIsGood
<1>9. GoodStack(Append(Front(s), g), res, at)
  BY <1>3, <1>8, GoneOn
<1>10. query' = [query EXCEPT ![q].stack = Append(Front(s), g)]
  BY <1>1, <1>3, <1>4, <1>7
<1>11. \A x \in cache' : GoodTile(x)
  BY <1>2 DEF PricesInv
<1>12. QED
  BY <1>1, <1>2, <1>9, <1>10, <1>11, StackStep

LEMMA NotFoundKeeps ==
  ASSUME PricesInv, NEW q \in Queriers, NotFound(q)
  PROVE  PricesInv'
<1>1. PICK f, res, at, s : f = Top(q) /\ res = query[q].res /\ at = query[q].at /\ s = query[q].stack
  OBVIOUS
<1>2. /\ query[q] # NoQuery /\ f.next < f.end /\ f.tile # finestTileResolution(res)
      /\ UNCHANGED <<clock, trade>> /\ cache' = cache
  BY <1>1 DEF NotFound, Fetches, Finest
<1>3. /\ res \in Resolutions /\ at \in Int
      /\ GoodStack(s, res, at) /\ GoodCall(f, res, at) /\ f = Last(s)
  BY <1>1, <1>2, ActiveParts
<1>4. PICK call : call = Frame(f.tile + 1, f.next, TileEnd(f.tile + 1, f.next, f.end))
  OBVIOUS
<1>5. GoodCall(call, res, at) /\ CallOfTile(call, res) /\ CalledBy(call, f)
  BY <1>2, <1>3, <1>4, CallIsGood
<1>6. GoodStack(Append(s, call), res, at)
  BY <1>3, <1>5, Pushed
<1>7. query' = [query EXCEPT ![q].stack = Append(s, call)]
  BY <1>1, <1>4 DEF NotFound
<1>8. \A x \in cache' : GoodTile(x)
  BY <1>2 DEF PricesInv
<1>9. QED
  BY <1>1, <1>2, <1>6, <1>7, <1>8, StackStep

LEMMA ReadKeeps ==
  ASSUME PricesInv, NEW q \in Queriers, Read(q)
  PROVE  PricesInv'
<1>1. PICK f, res, at, s : f = Top(q) /\ res = query[q].res /\ at = query[q].at /\ s = query[q].stack
  OBVIOUS
<1>2. /\ query[q] # NoQuery /\ f.next < f.end /\ f.tile = finestTileResolution(res)
      /\ UNCHANGED <<clock, trade>> /\ cache' = cache
  BY <1>1 DEF Read, Reads, Finest
<1>3. /\ clock \in Nat /\ TradesTyped /\ res \in Resolutions /\ at \in Int /\ at <= clock
      /\ GoodStack(s, res, at) /\ GoodCall(f, res, at) /\ f = Last(s) /\ Below(q) = Front(s)
      /\ Len(s) \in Nat \ {0} /\ f = s[Len(s)]
  BY <1>1, <1>2, ActiveParts
<1>4. Len(s) > 1
  <2>1. s[1].tile # finestTileResolution(res)
    BY <1>3 DEF GoodStack
  <2>2. Len(s) # 1
    BY <1>2, <1>3, <2>1
  <2>3. PICK n : n = Len(s)
    OBVIOUS
  <2>4. n \in Nat \ {0} /\ n # 1
    BY <1>3, <2>2, <2>3
  <2>5. QED
    BY <2>3, <2>4
<1>5. CallOfTile(f, res)
  BY <1>3, <1>4, Popped
<1>6. PICK seen \in Seen :
        query' = [query EXCEPT ![q].stack = Append(Below(q),
                    [Top(q) EXCEPT !.slots = FromDatastore(seen, query[q].res, Top(q).begin, Top(q).end),
                                   !.next = @ + Interval[Top(q).tile]])]
  BY DEF Read
<1>7. PICK g : g = [f EXCEPT !.slots = FromDatastore(seen, res, f.begin, f.end), !.next = @ + Interval[f.tile]]
  OBVIOUS
<1>8. JoinedTo(g, f, res, at)
  BY <1>2, <1>3, <1>5, <1>7, ReadIsGood
<1>9. GoodStack(Append(Front(s), g), res, at)
  BY <1>3, <1>8, GoneOn
<1>10. query' = [query EXCEPT ![q].stack = Append(Front(s), g)]
  BY <1>1, <1>3, <1>6, <1>7
<1>11. \A x \in cache' : GoodTile(x)
  BY <1>2 DEF PricesInv
<1>12. QED
  BY <1>1, <1>2, <1>9, <1>10, <1>11, StackStep

LEMMA AddTileKeeps ==
  ASSUME PricesInv, NEW q \in Queriers, AddTile(q)
  PROVE  PricesInv'
<1>1. PICK f, res, at, s : f = Top(q) /\ res = query[q].res /\ at = query[q].at /\ s = query[q].stack
  OBVIOUS
<1>2. /\ query[q] # NoQuery /\ f.end <= f.next /\ Len(s) > 1 /\ UNCHANGED <<clock, trade>>
  BY <1>1 DEF AddTile, Returns
<1>3. /\ clock \in Nat /\ TradesTyped /\ res \in Resolutions /\ at \in Int
      /\ at <= clock /\ clock <= at + Slack
      /\ GoodStack(s, res, at) /\ GoodCall(f, res, at) /\ f = Last(s) /\ Below(q) = Front(s)
  BY <1>1, <1>2, ActiveParts
<1>4. PICK b, p, partial : b = Front(s) /\ p = Last(Front(s)) /\ partial = IsPartial(f, at)
  OBVIOUS
<1>5. GoodStack(b, res, at) /\ CallOfTile(f, res) /\ CalledBy(f, p)
  BY <1>2, <1>3, <1>4, Popped
<1>6. GoodCall(p, res, at)
  <2>1. b \in Seq(Calls) /\ b # <<>>
    BY <1>5 DEF GoodStack
  <2>2. Len(b) \in Nat \ {0} /\ p = b[Len(b)]
    BY <1>4, <2>1, FrontIs
  <2>3. Len(b) \in 1..Len(b)
    BY <2>2
  <2>4. QED
    BY <1>5, <2>2, <2>3 DEF GoodStack
<1>7. PICK item : item = [tile |-> f.tile, res |-> res, begin |-> f.begin, slots |-> f.slots,
                          partial |-> partial, until |-> Life(f.tile, f.begin)]
  OBVIOUS
<1>8. GoodTile(item)
  BY <1>2, <1>3, <1>4, <1>5, <1>7, AddedIsGood
<1>9. PICK g : g = Joined(p, f.slots, partial)
  OBVIOUS
<1>10. /\ \/ cache' = (cache \ Cached(f.tile, res, f.begin)) \cup {item}
          \/ cache' = cache
       /\ query' = [query EXCEPT ![q].stack = Append(Front(b), g)]
  BY <1>1, <1>3, <1>4, <1>7, <1>9 DEF AddTile, IsPartial
<1>11. JoinedTo(g, p, res, at)
  <2>1. /\ f.tile \in Tiles(res) /\ partial \in BOOLEAN
        /\ Fit(f.slots, f.begin, f.begin + Interval[f.tile])
        /\ partial \/ HasOld(f.slots, f.begin, f.begin + Interval[f.tile], at - Age(f.tile, res))
    BY <1>2, <1>3, <1>4, <1>5, ReturnedIsGood
  <2>2. f.tile = p.tile + 1 /\ f.begin = p.next /\ p.next < p.end
    BY <1>5 DEF CalledBy
  <2>3. p.tile # finestTileResolution(res)
    <3>1. p.tile \in Nat /\ p.tile + 1 <= finestTileResolution(res) /\ finestTileResolution(res) \in Nat
      BY <1>3, <1>6, <2>2, CallParts, TileSizes DEF GoodCall
    <3>2. QED
      BY <3>1
  <2>4. PICK age : age = Age(f.tile, res) /\ age \in Nat /\ Age(p.tile, res) = Expiry + Slack + age
    <3>1. IsSize(p.tile, res)
      BY <1>6, CallParts
    <3>2. Age(f.tile, res) \in Nat
      BY <1>3, <2>1, Ages, TilesAreSizes
    <3>3. QED
      BY <1>3, <2>2, <2>3, <3>1, <3>2, Ages
  <2>5. PICK lo, hi : lo = f.begin /\ hi = f.begin + Interval[f.tile]
    OBVIOUS
  <2>6. partial \/ HasOld(f.slots, lo, hi, at - Age(p.tile, res))
    <3>1. at - Age(p.tile, res) \in Int /\ at - age \in Int /\ at - Age(p.tile, res) <= at - age
      BY <1>3, <2>4, Numbers
    <3>2. partial \/ HasOld(f.slots, lo, hi, at - age)
      BY <2>1, <2>4, <2>5
    <3>3. QED
      BY <1>3, <3>1, <3>2, HasOldOlder
  <2>7. QED
    BY <1>3, <1>6, <1>9, <2>1, <2>2, <2>3, <2>5, <2>6, JoinedIsGood
<1>12. GoodStack(Append(Front(b), g), res, at)
  BY <1>4, <1>5, <1>11, GoneOn
<1>13. \A x \in cache' : GoodTile(x)
  BY <1>8, <1>10 DEF PricesInv
<1>14. QED
  BY <1>1, <1>2, <1>10, <1>12, <1>13, StackStep

LEMMA ReplyKeeps ==
  ASSUME PricesInv, NEW q \in Queriers, Reply(q)
  PROVE  PricesInv' /\ SlotsFitTogether' /\ AnswersComplete'
<1>1. PICK f, res, at : f = Top(q) /\ res = query[q].res /\ at = query[q].at
  OBVIOUS
<1>2. PICK a : a = [slots |-> f.slots, partial |-> f.partial, begin |-> f.begin, end |-> f.end, at |-> at]
  OBVIOUS
<1>3. /\ query[q] # NoQuery /\ f.end <= f.next /\ UNCHANGED <<clock, trade>> /\ cache' = cache
      /\ query' = [query EXCEPT ![q] = NoQuery] /\ answer' = a
  BY <1>1, <1>2 DEF Reply, Returns
<1>4. TradesTyped /\ res \in Resolutions /\ at \in Int /\ GoodCall(f, res, at)
  BY <1>1, <1>3, ActiveParts
<1>5. PricesInv'
  <2>1. \A e \in cache' : GoodTile(e)
    BY <1>3 DEF PricesInv
  <2>2. QED
    BY <1>3, <2>1, HandlerStep
<1>6. f.begin \in Int /\ f.end \in Int /\ f.next \in Int /\ IsSize(f.tile, res)
  BY <1>4, CallParts
<1>7. PICK age : age = Age(f.tile, res) /\ age \in Nat /\ age <= Stale
  BY <1>4, <1>6, Ages
<1>8. Fit(f.slots, f.begin, f.next) /\ (f.partial \/ HasOld(f.slots, f.begin, f.end, at - age))
  <2>1. Upto(f) = f.end
    BY <1>3, <1>6 DEF Upto
  <2>2. QED
    BY <1>4, <1>7, <2>1 DEF GoodCall
<1>9. a.slots = f.slots /\ a.partial = f.partial /\ a.begin = f.begin /\ a.end = f.end /\ a.at = at
  BY <1>2
<1>10. FitTogether(a.slots)
  BY <1>8, <1>9, FitIsTogether
<1>11. CompleteAnswer(a)
  BY <1>4, <1>6, <1>7, <1>8, <1>9, OldIsComplete
<1>12. FitTogether(a.slots)' /\ CompleteAnswer(a)'
  BY <1>3, <1>10, <1>11 DEF FitTogether, CompleteAnswer
<1>13. FitTogether(answer.slots)' /\ CompleteAnswer(answer)'
  BY <1>3, <1>12 DEF FitTogether, CompleteAnswer
<1>14. QED
  BY <1>5, <1>13, AnswerGoodAfter

LEMMA FailKeeps ==
  ASSUME PricesInv, NEW q \in Queriers, Fail(q)
  PROVE  PricesInv'
<1>1. UNCHANGED <<clock, trade>> /\ cache' = cache /\ query' = [query EXCEPT ![q] = NoQuery]
  BY DEF Fail
<1>2. \A e \in cache' : GoodTile(e)
  BY <1>1 DEF PricesInv
<1>3. QED
  BY <1>1, <1>2, HandlerStep

LEMMA TickKeeps ==
  ASSUME PricesInv, PricesTick
  PROVE  PricesInv'
<1>1. /\ clock \in Nat /\ TradesTyped /\ clock' = clock + TimeStep /\ trade' = trade /\ query' = query
      /\ \A q \in Queriers : query[q] # NoQuery => clock + TimeStep <= query[q].at + Slack
      /\ cache' = {e \in cache : e.until = Always \/ clock + TimeStep < e.until}
  BY DEF PricesTick, PricesInv
<1>2. clock' \in Nat /\ clock <= clock'
  BY <1>1, PricesAssumption
<1>3. TradesTyped'
  <2>1. \A t \in Trades : trade[t] # NoTrade => trade[t].stored \in Nat /\ trade[t].stored <= clock'
    <3> SUFFICES ASSUME NEW t \in Trades, trade[t] # NoTrade
                 PROVE  trade[t].stored \in Nat /\ trade[t].stored <= clock'
      OBVIOUS
    <3>1. trade[t].stored \in Nat /\ trade[t].stored <= clock
      BY <1>1 DEF TradesTyped
    <3>2. QED
      BY <1>1, <1>2, <3>1
  <2>2. QED
    BY <1>1, <2>1 DEF TradesTyped
<1>4. TradeStep
  BY <1>1, <1>2 DEF TradeStep
<1>5. ASSUME NEW e \in cache' PROVE GoodTile(e)'
  <2>1. e \in cache /\ (e.until = Always \/ clock' < e.until)
    BY <1>1
  <2>2. GoodTile(e)
    BY <2>1 DEF PricesInv
  <2>3. QED
    BY <1>1, <1>3, <1>4, <2>1, <2>2, TileKept
<1>6. ASSUME NEW q \in Queriers, query'[q] # NoQuery PROVE GoodQuery(query[q])'
  <2>1. PICK r : r = query[q]
    OBVIOUS
  <2>2. GoodQuery(r) /\ clock' <= r.at + Slack
    BY <1>1, <1>6, <2>1 DEF PricesInv
  <2>3. GoodQuery(r)'
    BY <1>1, <1>3, <1>4, <2>2, QueryKept
  <2>4. QED
    BY <1>1, <2>1, <2>3 DEF GoodQuery
<1>7. DOMAIN query' = Queriers
  BY <1>1 DEF PricesInv
<1>8. QED
  BY <1>2, <1>3, <1>5, <1>6, <1>7 DEF PricesInv

LEMMA StutterKeeps ==
  ASSUME Inductive, UNCHANGED pricesVars
  PROVE  Inductive'
<1>1. /\ UNCHANGED <<clock, trade>> /\ query' = query /\ cache' = cache /\ answer' = answer
      /\ clock \in Nat /\ TradesTyped
  BY DEF pricesVars, Inductive, PricesInv
<1>2. /\ clock' \in Nat /\ TradesTyped'
      /\ \A e : GoodTile(e) => GoodTile(e)'
      /\ \A q : GoodQuery(q) => GoodQuery(q)'
  BY <1>1, StillGood
<1>3. ASSUME NEW q \in Queriers PROVE query'[q] = NoQuery \/ GoodQuery(query[q])'
  <2>1. PICK r : r = query[q]
    OBVIOUS
  <2>2. r = NoQuery \/ GoodQuery(r)'
    BY <1>2, <2>1 DEF Inductive, PricesInv
  <2>3. QED
    BY <1>1, <2>1, <2>2 DEF GoodQuery
<1>4. PricesInv'
  BY <1>1, <1>2, <1>3 DEF Inductive, PricesInv
<1>5. FitTogether(answer.slots) /\ CompleteAnswer(answer)
  BY AnswerGood DEF Inductive
<1>6. FitTogether(answer.slots)' /\ CompleteAnswer(answer)'
  BY <1>1, <1>5 DEF FitTogether, CompleteAnswer
<1>7. QED
  BY <1>4, <1>6, AnswerGoodAfter DEF Inductive

LEMMA StepPrices == Inductive /\ [PricesNext]_pricesVars => Inductive'
<1> SUFFICES ASSUME Inductive, [PricesNext]_pricesVars PROVE Inductive'
  OBVIOUS
<1>1. PricesInv
  BY DEF Inductive
<1>2. ASSUME NEW t \in Trades, MatchBids(t) PROVE Inductive'
  BY <1>1, <1>2, MatchBidsKeeps, NothingAnswered DEF MatchBids, Inductive
<1>3. ASSUME NEW q \in Queriers, NEW p \in Questions, Ask(q, p[1], p[2], p[3]) PROVE Inductive'
  <2>1. p[1] \in Int /\ p[2] \in Resolutions /\ p[3] \in Resolutions
    BY PricesAssumption
  <2>2. answer' = NoAnswer
    BY <1>3 DEF Ask
  <2>3. QED
    BY <1>1, <1>3, <2>1, <2>2, AskKeeps, NothingAnswered DEF Inductive
<1>4. ASSUME NEW q \in Queriers, Found(q) PROVE Inductive'
  BY <1>1, <1>4, FoundKeeps, NothingAnswered DEF Found, Inductive
<1>5. ASSUME NEW q \in Queriers, NotFound(q) PROVE Inductive'
  BY <1>1, <1>5, NotFoundKeeps, NothingAnswered DEF NotFound, Inductive
<1>6. ASSUME NEW q \in Queriers, Read(q) PROVE Inductive'
  BY <1>1, <1>6, ReadKeeps, NothingAnswered DEF Read, Inductive
<1>7. ASSUME NEW q \in Queriers, AddTile(q) PROVE Inductive'
  <2>1. answer' = NoAnswer
    BY <1>7 DEF AddTile
  <2>2. QED
    BY <1>1, <1>7, <2>1, AddTileKeeps, NothingAnswered DEF Inductive
<1>8. ASSUME NEW q \in Queriers, Reply(q) PROVE Inductive'
  BY <1>1, <1>8, ReplyKeeps DEF Inductive
<1>9. ASSUME NEW q \in Queriers, Fail(q) PROVE Inductive'
  BY <1>1, <1>9, FailKeeps, NothingAnswered DEF Fail, Inductive
<1>10. CASE PricesTick
  BY <1>1, <1>10, TickKeeps, NothingAnswered DEF PricesTick, Inductive
<1>11. CASE UNCHANGED pricesVars
  BY <1>11, StutterKeeps
<1>12. QED
  BY <1>2, <1>3, <1>4, <1>5, <1>6, <1>7, <1>8, <1>9, <1>10, <1>11 DEF PricesNext

(***************************************************************************)
(* The slots of each answer follow one another, none of them is empty, and *)
(* no trade is counted twice or in a slot of another time, whatever part   *)
(* of the answer came from the cache and whatever other queries do.        *)
(***************************************************************************)
THEOREM SlotsAlwaysFit == PricesSpec => []SlotsFitTogether
<1>1. Inductive => SlotsFitTogether
  BY DEF Inductive
<1>2. QED
  BY <1>1, InitPrices, StepPrices, PTL DEF PricesSpec

(***************************************************************************)
(* An answer has every trade that was stored before all tiles it may be    *)
(* made of were read, although tiles of the past are kept for ever and are *)
(* made, in steps, of tiles that other queries left in the cache.          *)
(***************************************************************************)
THEOREM AnswersAlwaysComplete == PricesSpec => []AnswersComplete
<1>1. Inductive => AnswersComplete
  BY DEF Inductive
<1>2. QED
  BY <1>1, InitPrices, StepPrices, PTL DEF PricesSpec
=============================================================================
