-------------------------- MODULE ActivitiesProofs --------------------------
(***************************************************************************)
(* The trades of a client, for any number of trades, mandates and tokens   *)
(* and any mishaps: every trade is cleared at most once, open bids and     *)
(* mandates keep to their limits, no file is handed over that was disposed.*)
(*                                                                         *)
(* Inv, which holds the types, is inductive by itself.  The invariants of  *)
(* tokens (Counted), mandates (Limited) and files (Files) are inductive    *)
(* relative to it and do not need each other.                              *)
(***************************************************************************)
EXTENDS Activities, FiniteSetTheorems, SequenceTheorems, TLAPS

-----------------------------------------------------------------------------
(***************************************************************************)
(* The inductive invariant: what has not begun is as new and known to      *)
(* nobody, and only a matched trade takes the steps of a local trade.      *)
(***************************************************************************)
Begun == {t \in Trades : pc[t] # "new"}
LocalSteps == {"local", "working", "offering"}

Fresh ==
  /\ \A t \in Trades : pc[t] = "new" => trade[t] = NewTrade
  /\ \A t \in Trades : pc[t] \in LocalSteps => trade[t].match # NoTrade
  /\ activities \subseteq Begun /\ Range(history) \subseteq Begun
  /\ \A m \in Mandates : todo[m] \subseteq Begun /\ looking[m] \in Begun \cup {NoTrade}

Inv == TypeOK /\ Fresh /\ ClearedOnce

TradesTyped == trade \in [Trades -> TradeRecord]
MandatesTyped ==
  /\ mandate \in [Mandates -> MandateRecord] /\ mandates \subseteq Mandates
  /\ entering \subseteq Mandates
  /\ todo \in [Mandates -> SUBSET Trades]
  /\ looking \in [Mandates -> Trades \cup {NoTrade}]
TokensTyped ==
  /\ unmatched \in [BidTypes -> Nat] /\ transmission \in Nat
  /\ open \subseteq Trades /\ hung \subseteq Trades /\ uploadFailed \subseteq Buys
  /\ holders \subseteq Buys /\ unserved \subseteq Buys /\ lost \in Nat
  /\ revived \subseteq Trades

LEMMA TypeParts ==
  TypeOK <=> /\ TradesTyped /\ MandatesTyped /\ TokensTyped
             /\ pc \in [Trades -> Steps]
             /\ activities \subseteq Trades /\ history \in Seq(Trades)
  BY DEF TypeOK, TradesTyped, MandatesTyped, TokensTyped

LEMMA NewTradeTyped == NewTrade \in TradeRecord
  BY DEF NewTrade, TradeRecord, File

LEMMA TypeOf == \A t \in Trades : Type(t) \in BidTypes
  BY DEF Type, BidTypes

LEMMA Initially == Init => Inv
<1> SUFFICES ASSUME Init PROVE Inv
  OBVIOUS
<1> USE ActivitiesAssumption DEF Init
<1>1. NoMandate \in MandateRecord
  BY DEF NoMandate, MandateRecord, BidTypes
<1>2. TypeOK
  BY <1>1, NewTradeTyped DEF TypeOK, Steps
<1>3. Range(history) = {}
  BY DEF Range
<1>4. Fresh
  BY <1>3 DEF Fresh, Begun, LocalSteps
<1>5. ClearedOnce
  BY DEF ClearedOnce, NewTrade, Published
<1>6. QED
  BY <1>2, <1>4, <1>5 DEF Inv

-----------------------------------------------------------------------------
(***************************************************************************)
(* Steps of a trade that leave its clearance alone.                        *)
(***************************************************************************)
SameClearance(t) ==
  /\ TradesTyped'
  /\ \A u \in Trades \ {t} : trade'[u] = trade[u]
  /\ trade'[t].awaiting = trade[t].awaiting /\ trade'[t].match = trade[t].match
  /\ trade'[t].price = trade[t].price /\ trade'[t].localOnly = trade[t].localOnly

Moved(t) ==
  /\ pc[t] # "new" /\ pc'[t] # "new"
  /\ pc' \in [Trades -> Steps]
  /\ \A u \in Trades \ {t} : pc'[u] = pc[u]
  /\ pc'[t] \in LocalSteps => trade[t].match # NoTrade

Uncleared(t) == SameClearance(t) /\ Moved(t)

LEMMA UnclearedKeeps ==
  ASSUME Inv, NEW t \in Trades, Uncleared(t),
         UNCHANGED <<registry, mandateVars>>, TokensTyped'
  PROVE  Inv'
<1> USE DEF Inv
<1>1. TypeOK'
  <2>1. MandatesTyped'
    BY TypeParts DEF MandatesTyped, mandateVars
  <2>2. QED
    BY <2>1, TypeParts DEF Uncleared, SameClearance, Moved, registry, TypeOK, TradesTyped, TokensTyped, MandatesTyped
<1>2. Begun' = Begun
  BY DEF Uncleared, SameClearance, Moved, Begun
<1>3. Fresh'
  <2>1. Range(history)' = Range(history)
    BY DEF registry, Range
  <2>2. \A u \in Trades : pc'[u] = "new" => trade'[u] = NewTrade
    BY DEF Uncleared, SameClearance, Moved, Fresh
  <2>3. \A u \in Trades : pc'[u] \in LocalSteps => trade'[u].match # NoTrade
    BY DEF Uncleared, SameClearance, Moved, Fresh
  <2>4. QED
    BY <1>2, <2>1, <2>2, <2>3 DEF Fresh, registry, mandateVars
<1>4. ClearedOnce'
  <2>1. \A u \in Trades : /\ trade'[u].match = trade[u].match
                          /\ trade'[u].price = trade[u].price
                          /\ trade'[u].awaiting = trade[u].awaiting
                          /\ trade'[u].localOnly = trade[u].localOnly
    BY DEF Uncleared, SameClearance, Moved
  <2>2. \A u \in Trades : trade[u].match # NoTrade => trade[u].match \in Trades
    BY DEF TypeOK, TradeRecord
  <2>3. QED
    BY <2>1, <2>2 DEF ClearedOnce, Published
<1>5. QED
  BY <1>1, <1>3, <1>4

\* One field of the trade changes, or none.
LEMMA FieldChange ==
  ASSUME TypeOK, NEW t \in Trades,
         \/ UNCHANGED trade
         \/ \E f \in File : trade' = [trade EXCEPT ![t].work = f]
         \/ \E f \in File : trade' = [trade EXCEPT ![t].result = f]
         \/ \E b \in BOOLEAN : trade' = [trade EXCEPT ![t].transmitting = b]
         \/ \E b \in BOOLEAN : trade' = [trade EXCEPT ![t].alive = b]
  PROVE  SameClearance(t)
<1>1. ASSUME NEW r \in TradeRecord, trade' = [trade EXCEPT ![t] = r],
             r.awaiting = trade[t].awaiting, r.match = trade[t].match,
             r.price = trade[t].price, r.localOnly = trade[t].localOnly
      PROVE  SameClearance(t)
  <2>1. trade \in [Trades -> TradeRecord]
    BY DEF TypeOK
  <2>2. trade' \in [Trades -> TradeRecord] /\ trade'[t] = r
        /\ \A u \in Trades \ {t} : trade'[u] = trade[u]
    BY <1>1, <2>1
  <2>3. QED
    BY <1>1, <2>2 DEF SameClearance, TradesTyped
<1>2. trade[t] \in TradeRecord
  BY DEF TypeOK
<1>3. CASE UNCHANGED trade
  BY <1>3 DEF SameClearance, TradesTyped, TypeOK
<1>4. ASSUME NEW f \in File, trade' = [trade EXCEPT ![t].work = f]
      PROVE  SameClearance(t)
  <2> DEFINE r == [trade[t] EXCEPT !.work = f]
  <2>1. /\ r \in TradeRecord
        /\ r.awaiting = trade[t].awaiting /\ r.match = trade[t].match
        /\ r.price = trade[t].price /\ r.localOnly = trade[t].localOnly
    BY <1>2 DEF TradeRecord
  <2>2. trade' = [trade EXCEPT ![t] = r]
    BY <1>4
  <2> HIDE DEF r
  <2>3. QED
    BY <1>1, <2>1, <2>2
<1>5. ASSUME NEW f \in File, trade' = [trade EXCEPT ![t].result = f]
      PROVE  SameClearance(t)
  <2> DEFINE r == [trade[t] EXCEPT !.result = f]
  <2>1. /\ r \in TradeRecord
        /\ r.awaiting = trade[t].awaiting /\ r.match = trade[t].match
        /\ r.price = trade[t].price /\ r.localOnly = trade[t].localOnly
    BY <1>2 DEF TradeRecord
  <2>2. trade' = [trade EXCEPT ![t] = r]
    BY <1>5
  <2> HIDE DEF r
  <2>3. QED
    BY <1>1, <2>1, <2>2
<1>6. ASSUME NEW f \in BOOLEAN, trade' = [trade EXCEPT ![t].transmitting = f]
      PROVE  SameClearance(t)
  <2> DEFINE r == [trade[t] EXCEPT !.transmitting = f]
  <2>1. /\ r \in TradeRecord
        /\ r.awaiting = trade[t].awaiting /\ r.match = trade[t].match
        /\ r.price = trade[t].price /\ r.localOnly = trade[t].localOnly
    BY <1>2 DEF TradeRecord
  <2>2. trade' = [trade EXCEPT ![t] = r]
    BY <1>6
  <2> HIDE DEF r
  <2>3. QED
    BY <1>1, <2>1, <2>2
<1>7. ASSUME NEW f \in BOOLEAN, trade' = [trade EXCEPT ![t].alive = f]
      PROVE  SameClearance(t)
  <2> DEFINE r == [trade[t] EXCEPT !.alive = f]
  <2>1. /\ r \in TradeRecord
        /\ r.awaiting = trade[t].awaiting /\ r.match = trade[t].match
        /\ r.price = trade[t].price /\ r.localOnly = trade[t].localOnly
    BY <1>2 DEF TradeRecord
  <2>2. trade' = [trade EXCEPT ![t] = r]
    BY <1>7
  <2> HIDE DEF r
  <2>3. QED
    BY <1>1, <2>1, <2>2
<1>8. QED
  BY <1>3, <1>4, <1>5, <1>6, <1>7

\* The tokens and the net are as they were.
LEMMA TokensStay ==
  ASSUME TypeOK, UNCHANGED <<tokenVars, netVars>>
  PROVE  TokensTyped'
  BY DEF TypeOK, tokenVars, netVars, TokensTyped

\* The parts of a local trade.
LEMMA LocalUncleared ==
  ASSUME Inv, NEW t \in Trades,
         \/ AwaitClearance(t) \/ LocalBuy(t) \/ TakeWork(t) \/ DoWork(t)
         \/ OfferResult(t) \/ End(t) \/ EndTransaction(t)
  PROVE  Uncleared(t)
<1>1. pc[t] \in LocalSteps => trade[t].match \in Trades
  BY DEF Inv, Fresh, TypeOK, TradeRecord
<1>2. SameClearance(t)
  <2>1. CASE LocalBuy(t)
    <3>1. trade[trade[t].match].result \in File
      BY <1>1, <2>1 DEF LocalBuy, LocalSteps, TradeRecord, Inv, TypeOK
    <3>2. QED
      BY <2>1, <3>1, FieldChange DEF LocalBuy, Inv
  <2>2. CASE TakeWork(t)
    <3>1. trade[trade[t].match].work \in File
      BY <1>1, <2>2 DEF TakeWork, LocalSteps, TradeRecord, Inv, TypeOK
    <3>2. QED
      BY <2>2, <3>1, FieldChange DEF TakeWork, Inv
  <2>3. CASE DoWork(t)
    BY <2>3, FieldChange DEF DoWork, Inv, File
  <2>4. CASE End(t)
    BY <2>4, FieldChange DEF End, Inv
  <2>5. CASE AwaitClearance(t) \/ OfferResult(t) \/ EndTransaction(t)
    BY <2>5, FieldChange DEF AwaitClearance, OfferResult, EndTransaction, Inv
  <2>6. QED
    BY <2>1, <2>2, <2>3, <2>4, <2>5
<1>3. Moved(t)
  <2> USE DEF Inv, TypeOK, Goto, Moved, LocalSteps, Steps
  <2>1. CASE AwaitClearance(t)
    BY <2>1 DEF AwaitClearance
  <2>2. CASE LocalBuy(t) \/ TakeWork(t)
    <3>1. pc[t] = "local" /\ \E step \in {"working", "ending"} : Goto(t, step)
      BY <2>2 DEF LocalBuy, TakeWork
    <3>2. trade[t].match # NoTrade
      BY <1>1, <3>1, ActivitiesAssumption
    <3>3. QED
      BY <3>1, <3>2
  <2>3. CASE DoWork(t) \/ OfferResult(t)
    BY <1>1, <2>3, ActivitiesAssumption DEF DoWork, OfferResult
  <2>4. CASE End(t) \/ EndTransaction(t)
    BY <2>4 DEF End, EndTransaction
  <2>5. QED
    BY <2>1, <2>2, <2>3, <2>4
<1>4. QED
  BY <1>2, <1>3 DEF Uncleared

LEMMA LocalKeeps ==
  ASSUME Inv, NEW t \in Trades,
         \/ AwaitClearance(t) \/ LocalBuy(t) \/ TakeWork(t) \/ DoWork(t)
         \/ OfferResult(t) \/ End(t) \/ EndTransaction(t)
  PROVE  Inv'
<1>1. TokensTyped' /\ UNCHANGED <<registry, mandateVars>>
  BY TokensStay DEF Inv, Alone, AwaitClearance, LocalBuy, TakeWork, DoWork,
     OfferResult, End, EndTransaction
<1>2. QED
  BY <1>1, LocalUncleared, UnclearedKeeps

\* The upload, tokens and bids: what these change is counted in Nat.
LEMMA RemoteUncleared ==
  ASSUME Inv, NEW t \in Trades,
         \/ t \in Buys /\ (Upload(t) \/ TakeTransmissionToken(t) \/ Transmit(t))
         \/ TakeUnmatchedToken(t) \/ PlaceBid(t) \/ AwaitTransaction(t)
         \/ ReturnUnmatchedToken(t) \/ Close(t)
  PROVE  Uncleared(t)
<1>1. SameClearance(t)
  <2> USE FieldChange DEF Inv
  <2>1. CASE Upload(t)
    BY <2>1 DEF Upload, File
  <2>2. CASE TakeUnmatchedToken(t)
    <3>1. CASE t \in Buys
      BY <2>2, <3>1 DEF TakeUnmatchedToken
    <3>2. CASE t \notin Buys
      <4>1. (t \in Buys) = FALSE
        BY <3>2
      <4>2. UNCHANGED trade \/ trade' = [trade EXCEPT ![t].transmitting = FALSE]
        BY <2>2, <4>1 DEF TakeUnmatchedToken
      <4>3. QED
        BY <4>2
    <3>3. QED
      BY <3>1, <3>2
  <2>3. CASE Transmit(t) \/ Close(t)
    BY <2>3 DEF Transmit, Close, ReturnTransmissionToken
  <2>4. CASE TakeTransmissionToken(t) \/ PlaceBid(t) \/ AwaitTransaction(t)
             \/ ReturnUnmatchedToken(t)
    BY <2>4 DEF TakeTransmissionToken, PlaceBid, AwaitTransaction, ReturnUnmatchedToken
  <2>5. QED
    BY <2>1, <2>2, <2>3, <2>4
<1>2. Moved(t)
  <2> USE DEF Inv, TypeOK, Goto, Moved, LocalSteps, Steps
  <2>1. CASE Upload(t)
    BY <2>1 DEF Upload
  <2>2. CASE TakeUnmatchedToken(t) \/ TakeTransmissionToken(t)
    BY <2>2 DEF TakeUnmatchedToken, TakeTransmissionToken
  <2>3. CASE PlaceBid(t) \/ AwaitTransaction(t) \/ ReturnUnmatchedToken(t)
    BY <2>3 DEF PlaceBid, AwaitTransaction, ReturnUnmatchedToken
  <2>4. CASE Transmit(t) \/ Close(t)
    BY <2>4 DEF Transmit, Close
  <2>5. QED
    BY <2>1, <2>2, <2>3, <2>4
<1>3. QED
  BY <1>1, <1>2 DEF Uncleared

LEMMA RemoteKeeps ==
  ASSUME Inv, NEW t \in Trades,
         \/ t \in Buys /\ (Upload(t) \/ TakeTransmissionToken(t) \/ Transmit(t))
         \/ TakeUnmatchedToken(t) \/ PlaceBid(t) \/ AwaitTransaction(t)
         \/ ReturnUnmatchedToken(t) \/ Close(t)
  PROVE  Inv'
<1>1. TokensTyped' /\ UNCHANGED <<registry, mandateVars>>
  <2> USE TypeOf DEF Inv, TypeOK, TokensTyped, tokenVars, netVars
  <2>1. CASE t \in Buys /\ Upload(t)
    BY <2>1 DEF Upload
  <2>2. CASE t \in Buys /\ TakeTransmissionToken(t)
    BY <2>2 DEF TakeTransmissionToken, HasTransmissionToken
  <2>3. CASE Transmit(t) \/ Close(t)
    <3>1. ReturnTransmissionToken(t) \/ UNCHANGED <<transmission, holders>>
      BY <2>3 DEF Transmit, Close
    <3>2. transmission' \in Nat /\ holders' \subseteq Buys
      BY <3>1 DEF ReturnTransmissionToken
    <3>3. QED
      BY <2>3, <3>2 DEF Transmit, Close
  <2>4. CASE TakeUnmatchedToken(t)
    <3>1. HasToken(Type(t)) => unmatched[Type(t)] - 1 \in Nat
      BY DEF HasToken
    <3>2. unmatched' \in [BidTypes -> Nat]
      BY <2>4, <3>1 DEF TakeUnmatchedToken
    <3>3. QED
      BY <2>4, <3>2 DEF TakeUnmatchedToken
  <2>5. CASE PlaceBid(t) \/ AwaitTransaction(t)
    BY <2>5 DEF PlaceBid, AwaitTransaction, LoseSight
  <2>6. CASE ReturnUnmatchedToken(t)
    BY <2>6 DEF ReturnUnmatchedToken
  <2>7. QED
    BY <2>1, <2>2, <2>3, <2>4, <2>5, <2>6
<1>2. QED
  BY <1>1, RemoteUncleared, UnclearedKeeps
-----------------------------------------------------------------------------
(***************************************************************************)
(* What leaves trades and goroutines alone: contexts, the server, mandates *)
(* that are granted, listed, looked at and revoked.                        *)
(***************************************************************************)
LEMMA OthersKeep ==
  ASSUME Inv, NEW t \in Trades, HangUp(t) \/ Resolve(t) \/ Revive(t)
  PROVE  Inv'
<1> USE DEF Inv
<1>1. UNCHANGED <<trade, pc, registry, mandateVars>>
  BY DEF HangUp, Resolve, Revive
<1>2. TypeOK'
  BY <1>1 DEF HangUp, Resolve, Revive, TypeOK, registry, mandateVars, tokenVars
<1>3. Fresh' /\ ClearedOnce'
  BY <1>1 DEF Fresh, Begun, registry, mandateVars, ClearedOnce, Published
<1>4. QED
  BY <1>2, <1>3

LEMMA GrantKeeps ==
  ASSUME Inv, NEW m \in Mandates, Grant(m)
  PROVE  Inv'
<1> USE DEF Inv
<1>1. UNCHANGED <<trade, pc, registry, todo, looking, tokenVars, netVars>>
  BY DEF Grant
<1>2. Fresh' /\ ClearedOnce'
  BY <1>1 DEF Fresh, Begun, registry, ClearedOnce, Published
<1>3. mandate' \in [Mandates -> MandateRecord]
  <2>1. PICK y \in BidTypes, n \in 1 .. MaxTradesLeft, limits \in Limits :
          LET left == IF limits = {} THEN 1 ELSE n
          IN mandate' = [mandate EXCEPT ![m] =
               [type |-> y, useLeft |-> limits # {"time"}, left |-> left,
                useUntil |-> "time" \in limits, expired |-> FALSE, granted |-> left]]
    BY DEF Grant
  <2> DEFINE left == IF limits = {} THEN 1 ELSE n
             r == [type |-> y, useLeft |-> limits # {"time"}, left |-> left,
                   useUntil |-> "time" \in limits, expired |-> FALSE, granted |-> left]
  <2>2. r \in MandateRecord
    BY ActivitiesAssumption DEF MandateRecord
  <2>3. mandate' = [mandate EXCEPT ![m] = r]
    BY <2>1
  <2> HIDE DEF r
  <2>4. QED
    BY <2>2, <2>3 DEF TypeOK
<1>4. TypeOK'
  BY <1>1, <1>3 DEF Grant, TypeOK, registry, tokenVars, netVars
<1>5. QED
  BY <1>2, <1>4

LEMMA ListKeeps ==
  ASSUME Inv, NEW m \in Mandates, List(m) \/ Revoke(m)
  PROVE  Inv'
<1> USE DEF Inv
<1>1. UNCHANGED <<trade, pc, registry, mandate, looking, tokenVars, netVars>>
  BY DEF List, Revoke
<1>2. ClearedOnce'
  BY <1>1 DEF ClearedOnce, Published
<1>3. todo' = todo \/ todo' = [todo EXCEPT ![m] = activities \cup Range(history)]
  BY DEF List, Revoke
<1>4. Begun' = Begun /\ Begun \subseteq Trades
  BY <1>1 DEF Begun
<1>5. todo' \in [Mandates -> SUBSET Trades] /\ \A k \in Mandates : todo'[k] \subseteq Begun
  BY <1>3, <1>4 DEF TypeOK, Fresh
<1>6. Fresh'
  BY <1>1, <1>4, <1>5 DEF Fresh, registry
<1>7. TypeOK'
  BY <1>1, <1>5 DEF TypeOK, List, Revoke, registry, tokenVars, netVars
<1>8. QED
  BY <1>2, <1>6, <1>7

LEMMA LookKeeps ==
  ASSUME Inv, NEW m \in Mandates, NEW t \in Trades, Look(m, t)
  PROVE  Inv'
<1> USE DEF Inv
<1>1. UNCHANGED <<trade, pc, registry, mandate, mandates, entering, tokenVars, netVars>>
  BY DEF Look
<1>2. ClearedOnce'
  BY <1>1 DEF ClearedOnce, Published
<1>3. Begun' = Begun
  BY <1>1 DEF Begun
<1>4. t \in Begun
  BY DEF Look, Fresh
<1>5. todo' \in [Mandates -> SUBSET Trades] /\ \A k \in Mandates : todo'[k] \subseteq Begun
  BY DEF Look, TypeOK, Fresh
<1>6. looking' \in [Mandates -> Trades \cup {NoTrade}]
      /\ \A k \in Mandates : looking'[k] \in Begun \cup {NoTrade}
  BY <1>4 DEF Look, TypeOK, Fresh
<1>7. Fresh'
  BY <1>1, <1>3, <1>5, <1>6 DEF Fresh, registry
<1>8. TypeOK'
  BY <1>1, <1>5, <1>6 DEF TypeOK, registry, tokenVars, netVars
<1>9. QED
  BY <1>2, <1>7, <1>8
-----------------------------------------------------------------------------
(***************************************************************************)
(* Clearance: by a price, by a match.                                      *)
(***************************************************************************)
LEMMA MandatesUpdate ==
  ASSUME TypeOK,
         UNCHANGED mandate \/ (\E ms \in SUBSET Mandates : Expire(ms))
         \/ (\E m \in Mandates, ms \in SUBSET Mandates : Spend(m, ms))
  PROVE  mandate' \in [Mandates -> MandateRecord]
<1> USE DEF TypeOK, MandateRecord
<1>1. ASSUME NEW ms \in SUBSET Mandates, Expire(ms)
      PROVE  mandate' \in [Mandates -> MandateRecord]
  <2>1. ASSUME NEW k \in Mandates
        PROVE  (IF k \in ms THEN [mandate[k] EXCEPT !.expired = TRUE] ELSE mandate[k])
                 \in MandateRecord
    OBVIOUS
  <2>2. QED
    BY <1>1, <2>1 DEF Expire
<1>2. ASSUME NEW m \in Mandates, NEW ms \in SUBSET Mandates, Spend(m, ms)
      PROVE  mandate' \in [Mandates -> MandateRecord]
  <2>1. ASSUME NEW k \in Mandates
        PROVE  [mandate[k] EXCEPT !.left = IF k = m THEN @ - 1 ELSE @,
                                  !.expired = @ \/ k \in ms] \in MandateRecord
    <3> DEFINE l == IF k = m THEN mandate[k].left - 1 ELSE mandate[k].left
               e == mandate[k].expired \/ k \in ms
    <3>1. l \in Int /\ e \in BOOLEAN
      OBVIOUS
    <3> HIDE DEF l, e
    <3>2. [mandate[k] EXCEPT !.left = l, !.expired = e] \in MandateRecord
      BY <3>1
    <3>3. QED
      BY <3>2 DEF l, e
  <2>2. QED
    BY <1>2, <2>1 DEF Spend
<1>3. QED
  BY <1>1, <1>2

\* A trade that waits for clearance has no price and no match.
LEMMA AwaitingIsOpen ==
  ASSUME Inv, NEW t \in Trades, trade[t].awaiting
  PROVE  trade[t].match = NoTrade /\ trade[t].price = NoPrice
  BY DEF Inv, ClearedOnce, Published

\* What is not matched, nobody is matched with.
LEMMA UnmatchedAlone ==
  ASSUME Inv, NEW t \in Trades, NEW u \in Trades, trade[t].match = NoTrade
  PROVE  trade[u].match # t
<1>1. t # NoTrade /\ u # NoTrade
  BY ActivitiesAssumption
<1>2. QED
  BY <1>1 DEF Inv, ClearedOnce

\* A trade gets the record r, which has no match, and at most a price if it does
\* not wait any more.
LEMMA PriceClears ==
  ASSUME Inv, NEW t \in Trades, trade[t].match = NoTrade,
         NEW r \in TradeRecord, trade' = [trade EXCEPT ![t] = r],
         r.match = NoTrade, r.price # NoPrice => ~r.awaiting /\ ~r.localOnly
  PROVE  TradesTyped' /\ ClearedOnce'
<1>1. trade' \in [Trades -> TradeRecord] /\ trade'[t] = r
      /\ \A u \in Trades \ {t} : trade'[u] = trade[u]
  BY DEF Inv, TypeOK
<1>2. \A u \in Trades : trade[u].match \in Trades \cup {NoTrade}
  BY DEF Inv, TypeOK, TradeRecord
<1>3. \A u \in Trades : trade[u].match # t
  BY UnmatchedAlone
<1>4. ASSUME NEW u \in Trades \ {t}, trade'[u].match # NoTrade
      PROVE  LET v == trade'[u].match IN
             /\ trade'[v].match = u /\ Type(v) # Type(u)
             /\ trade'[u].price = NoPrice /\ ~trade'[u].awaiting
  <2>1. trade[u].match \in Trades \ {t} /\ trade'[u] = trade[u]
    BY <1>1, <1>2, <1>3, <1>4
  <2>2. trade'[trade[u].match] = trade[trade[u].match]
    BY <1>1, <2>1
  <2>3. QED
    BY <1>4, <2>1, <2>2 DEF Inv, ClearedOnce, Published
<1>5. \A u \in Trades : trade'[u].price # NoPrice => ~trade'[u].awaiting /\ ~trade'[u].localOnly
  BY <1>1 DEF Inv, ClearedOnce, Published
<1>6. QED
  BY <1>1, <1>4, <1>5 DEF TradesTyped, ClearedOnce, Published

LEMMA MatchClears ==
  ASSUME Inv, NEW t \in Trades, pc[t] = "new", NEW u \in Candidates(t),
         NEW r \in TradeRecord, r.match = NoTrade, r.price = NoPrice,
         trade' = MatchedWith(t, r, u)
  PROVE  /\ TradesTyped' /\ ClearedOnce'
         /\ u \in Trades \ {t}
         /\ trade'[u].match # NoTrade
         /\ \A v \in Trades \ {t, u} : trade'[v] = trade[v]
<1>1. u \in Trades \ {t} /\ trade[u].awaiting /\ Type(u) # Type(t)
  BY DEF Candidates, Inv, TypeOK
<1>2. trade[u].match = NoTrade /\ trade[u].price = NoPrice
  BY <1>1, AwaitingIsOpen
<1>3. trade[t].match = NoTrade
  BY DEF Inv, Fresh, NewTrade
<1> DEFINE rt == [r EXCEPT !.match = u, !.awaiting = FALSE]
           ru == [trade[u] EXCEPT !.match = t, !.awaiting = FALSE]
<1>4. trade[u] \in TradeRecord
  BY <1>1 DEF Inv, TypeOK
<1>5. /\ rt \in TradeRecord /\ ru \in TradeRecord
      /\ rt.match = u /\ ~rt.awaiting /\ rt.price = NoPrice
      /\ ru.match = t /\ ~ru.awaiting /\ ru.price = NoPrice
  BY <1>1, <1>2, <1>4 DEF TradeRecord
<1>6. /\ trade' \in [Trades -> TradeRecord]
      /\ trade'[t] = rt /\ trade'[u] = ru
      /\ \A v \in Trades \ {t, u} : trade'[v] = trade[v]
  <2>1. trade' = [[trade EXCEPT ![t] = rt] EXCEPT ![u] = ru]
    BY <1>1 DEF MatchedWith, Inv, TypeOK
  <2>2. trade \in [Trades -> TradeRecord]
    BY DEF Inv, TypeOK
  <2>3. QED
    BY <1>1, <1>5, <2>1, <2>2
<1> HIDE DEF rt, ru
<1>7. \A v \in Trades : trade[v].match # t /\ trade[v].match # u
  BY <1>1, <1>2, <1>3, UnmatchedAlone
<1>8. ASSUME NEW v \in Trades \ {t, u}, trade'[v].match # NoTrade
      PROVE  LET w == trade'[v].match IN
             /\ trade'[w].match = v /\ Type(w) # Type(v)
             /\ trade'[v].price = NoPrice /\ ~trade'[v].awaiting
  <2>1. trade[v].match \in Trades \ {t, u} /\ trade'[v] = trade[v]
    BY <1>6, <1>7, <1>8 DEF Inv, TypeOK, TradeRecord
  <2>2. trade'[trade[v].match] = trade[trade[v].match]
    BY <1>6, <2>1
  <2>3. QED
    BY <1>8, <2>1, <2>2 DEF Inv, ClearedOnce, Published
<1>9. \A v \in Trades : trade'[v].price # NoPrice => ~trade'[v].awaiting /\ ~trade'[v].localOnly
  BY <1>5, <1>6 DEF Inv, ClearedOnce, Published
<1>10. ClearedOnce'
  BY <1>1, <1>5, <1>6, <1>8, <1>9 DEF ClearedOnce, Published
<1>11. QED
  BY <1>1, <1>5, <1>6, <1>10, ActivitiesAssumption DEF TradesTyped

LEMMA PriceTyped ==
  ASSUME TypeOK, NEW t \in Trades, NEW p \in Mandates \cup {Requested}
  PROVE  /\ WithPrice(t, p) \in TradeRecord
         /\ WithPrice(t, p).match = trade[t].match
         /\ ~WithPrice(t, p).awaiting
         /\ WithPrice(t, p).localOnly = trade[t].localOnly
  BY DEF TypeOK, TradeRecord, WithPrice

\* Mandate.Apply and Publish on a trade that has begun.
LEMMA PublishKeeps ==
  ASSUME Inv, NEW t \in Begun, NEW p \in Mandates \cup {Requested},
         UNCHANGED trade
         \/ (MayPublish(t) /\ trade' = [trade EXCEPT ![t] = WithPrice(t, p)])
  PROVE  /\ TradesTyped' /\ ClearedOnce'
         /\ \A u \in Trades \ {t} : trade'[u] = trade[u]
         /\ trade'[t].match = trade[t].match
<1>1. t \in Trades
  BY DEF Begun
<1>2. CASE UNCHANGED trade
  BY <1>2 DEF Inv, TypeOK, TradesTyped, ClearedOnce, Published
<1>3. CASE MayPublish(t) /\ trade' = [trade EXCEPT ![t] = WithPrice(t, p)]
  <2>1. trade[t].match = NoTrade
    BY <1>1, <1>3, AwaitingIsOpen DEF MayPublish
  <2>2. /\ WithPrice(t, p) \in TradeRecord /\ WithPrice(t, p).match = NoTrade
        /\ ~WithPrice(t, p).awaiting /\ ~WithPrice(t, p).localOnly
    BY <1>1, <1>3, <2>1, PriceTyped DEF MayPublish, Inv
  <2>3. TradesTyped' /\ ClearedOnce'
    BY <1>1, <1>3, <2>1, <2>2, PriceClears
  <2>4. QED
    BY <1>1, <1>3, <2>1, <2>2, <2>3 DEF Inv, TypeOK
<1>4. QED
  BY <1>2, <1>3

LEMMA ApplyKeeps ==
  ASSUME Inv, NEW m \in Mandates, NEW t \in Trades, Apply(m, t)
  PROVE  Inv'
<1>1. UNCHANGED <<pc, registry, entering, todo, tokenVars, netVars>>
  BY DEF Apply
<1>2. t \in Begun
  BY DEF Apply, Inv, Fresh
<1>3. UNCHANGED trade
      \/ (MayPublish(t) /\ trade' = [trade EXCEPT ![t] = WithPrice(t, m)])
  BY DEF Apply
<1>4. /\ TradesTyped' /\ ClearedOnce'
      /\ \A u \in Trades \ {t} : trade'[u] = trade[u]
      /\ trade'[t].match = trade[t].match
  BY <1>2, <1>3, PublishKeeps
<1>5. Begun' = Begun
  BY <1>1 DEF Begun
<1>6. looking' \in [Mandates -> Trades \cup {NoTrade}]
      /\ \A k \in Mandates : looking'[k] \in Begun \cup {NoTrade}
  BY DEF Apply, Inv, TypeOK, Fresh
<1>7. Fresh'
  <2>1. \A u \in Trades : pc'[u] = "new" => trade'[u] = NewTrade
    BY <1>1, <1>2, <1>4 DEF Begun, Inv, Fresh
  <2>2. \A u \in Trades : pc'[u] \in LocalSteps => trade'[u].match # NoTrade
    BY <1>1, <1>4 DEF Inv, Fresh
  <2>3. QED
    BY <1>1, <1>5, <1>6, <2>1, <2>2 DEF Inv, Fresh, registry
<1>8. mandate' \in [Mandates -> MandateRecord] /\ mandates' \subseteq Mandates
  <2>1. (\E ms \in SUBSET Mandates : Expire(ms))
        \/ (\E k \in Mandates, ms \in SUBSET Mandates : Spend(k, ms))
    BY DEF Apply
  <2>2. QED
    BY <2>1, MandatesUpdate DEF Apply, Inv, TypeOK
<1>9. TypeOK'
  BY <1>1, <1>4, <1>6, <1>8
  DEF Inv, TypeOK, TradesTyped, registry, tokenVars, netVars
<1>10. QED
  BY <1>4, <1>7, <1>9 DEF Inv

\* What a trade of its own does with no one else looking on.
LEMMA PublishStepKeeps ==
  ASSUME Inv, NEW b \in Buys, Publish(b)
  PROVE  Inv'
<1>1. b \in Trades /\ pc[b] = "pricing" /\ b \in Begun
  BY DEF Publish, Trades, Begun
<1>2. pc' \in [Trades -> Steps] /\ pc'[b] = "uploading"
      /\ \A u \in Trades \ {b} : pc'[u] = pc[u]
  BY <1>1 DEF Publish, Goto, Inv, TypeOK, Steps
<1>3. UNCHANGED <<registry, mandateVars, tokenVars, netVars>>
  BY DEF Publish
<1>4. /\ TradesTyped' /\ ClearedOnce'
      /\ \A u \in Trades \ {b} : trade'[u] = trade[u]
  <2>1. UNCHANGED trade
        \/ (MayPublish(b) /\ trade' = [trade EXCEPT ![b] = WithPrice(b, Requested)])
    BY DEF Publish
  <2>2. QED
    BY <1>1, <2>1, PublishKeeps
<1>5. Begun' = Begun
  BY <1>1, <1>2 DEF Begun
<1>6. Range(history)' = Range(history)
  BY <1>3 DEF registry, Range
<1>7. Fresh'
  <2>1. \A u \in Trades : pc'[u] = "new" => trade'[u] = NewTrade
    BY <1>2, <1>4 DEF Inv, Fresh
  <2>2. \A u \in Trades : pc'[u] \in LocalSteps => trade'[u].match # NoTrade
    BY <1>2, <1>4 DEF Inv, Fresh, LocalSteps
  <2>3. QED
    BY <1>3, <1>5, <1>6, <2>1, <2>2 DEF Inv, Fresh, registry, mandateVars
<1>8. TypeOK'
  BY <1>2, <1>3, <1>4
  DEF Inv, TypeOK, TradesTyped, registry, mandateVars, tokenVars, netVars
<1>9. QED
  BY <1>4, <1>7, <1>8 DEF Inv

-----------------------------------------------------------------------------
(***************************************************************************)
(* A trade that begins, a trade that is disposed.                          *)
(***************************************************************************)
\* What register does with the mandates.
LEMMA TriedMandates ==
  ASSUME TypeOK, NEW t \in Trades, NEW r \in TradeRecord, NEW over, TryMandates(t, r, over)
  PROVE  /\ mandate' \in [Mandates -> MandateRecord] /\ mandates' \subseteq Mandates
         /\ \/ trade' = [trade EXCEPT ![t] = r]
            \/ /\ ~r.localOnly
               /\ \E m \in Mandates :
                    trade' = [trade EXCEPT ![t] = [r EXCEPT !.price = m, !.awaiting = FALSE]]
<1> DEFINE used(ms) == {m \in ms : AppliesTo(m, t) /\ UsedUp(m, m \in over)}
           publishers == {m \in mandates : AppliesTo(m, t) /\ m \notin used(mandates)
                                           /\ ~r.localOnly}
<1>1. mandates \subseteq Mandates
  BY DEF TypeOK
<1>2. CASE /\ trade' = [trade EXCEPT ![t] = r]
           /\ Expire(used(mandates))
           /\ mandates' = {m \in mandates : ~mandate'[m].expired}
  <2>1. used(mandates) \in SUBSET Mandates
    BY <1>1
  <2> HIDE DEF used
  <2>2. mandate' \in [Mandates -> MandateRecord]
    BY <1>2, <2>1, MandatesUpdate
  <2>3. QED
    BY <1>1, <1>2, <2>2
<1>3. ASSUME NEW m \in publishers, NEW tried \in SUBSET (mandates \ publishers),
             trade' = [trade EXCEPT ![t] = [r EXCEPT !.price = m, !.awaiting = FALSE]],
             Spend(m, used(tried)),
             mandates' = {k \in mandates : k \in tried => ~mandate'[k].expired}
      PROVE  /\ mandate' \in [Mandates -> MandateRecord] /\ mandates' \subseteq Mandates
             /\ ~r.localOnly
             /\ \E k \in Mandates :
                  trade' = [trade EXCEPT ![t] = [r EXCEPT !.price = k, !.awaiting = FALSE]]
  <2>1. m \in Mandates /\ ~r.localOnly /\ used(tried) \in SUBSET Mandates
    BY <1>1
  <2> HIDE DEF used, publishers
  <2>2. mandate' \in [Mandates -> MandateRecord]
    BY <1>3, <2>1, MandatesUpdate
  <2>3. QED
    BY <1>1, <1>3, <2>1, <2>2
<1>4. QED
  BY <1>2, <1>3 DEF TryMandates

LEMMA RegisterKeeps ==
  ASSUME Inv, NEW t \in Trades, pc[t] = "new",
         NEW r \in TradeRecord, r.match = NoTrade, r.price = NoPrice,
         NEW skipMandates \in BOOLEAN, Register(t, r, skipMandates),
         NEW step \in Steps, step # "new", step \notin LocalSteps, Goto(t, step)
  PROVE  Inv'
<1>1. /\ pc' \in [Trades -> Steps] /\ pc'[t] = step
      /\ \A u \in Trades \ {t} : pc'[u] = pc[u]
  BY DEF Goto, Inv, TypeOK
<1>2. activities' = activities \cup {t}
      /\ UNCHANGED <<history, entering, todo, looking, tokenVars, netVars>>
  BY DEF Register
<1>3. Begun' = Begun \cup {t}
  BY <1>1 DEF Begun
<1>4. trade[t].match = NoTrade
  BY DEF Inv, Fresh, NewTrade
<1>5. ASSUME NEW u \in Candidates(t), trade' = MatchedWith(t, r, u)
      PROVE  /\ TradesTyped' /\ ClearedOnce'
             /\ \A v \in Trades \ {t} : trade'[v] = trade[v]
                                        \/ (v \in Begun /\ trade'[v].match # NoTrade)
  <2>1. u \in Begun
    BY DEF Candidates, Inv, Fresh
  <2>2. QED
    BY <1>5, <2>1, MatchClears
<1>6. ASSUME NEW q \in TradeRecord, trade' = [trade EXCEPT ![t] = q],
             q.match = NoTrade, q.price # NoPrice => ~q.awaiting /\ ~q.localOnly
      PROVE  /\ TradesTyped' /\ ClearedOnce'
             /\ \A v \in Trades \ {t} : trade'[v] = trade[v]
  <2>1. TradesTyped' /\ ClearedOnce'
    BY <1>4, <1>6, PriceClears
  <2>2. QED
    BY <1>6, <2>1 DEF Inv, TypeOK
<1>7. /\ TradesTyped' /\ ClearedOnce'
      /\ mandate' \in [Mandates -> MandateRecord] /\ mandates' \subseteq Mandates
      /\ \A v \in Trades \ {t} : trade'[v] = trade[v]
                                 \/ (v \in Begun /\ trade'[v].match # NoTrade)
  <2>1. CASE /\ \E u \in Candidates(t) : trade' = MatchedWith(t, r, u)
             /\ UNCHANGED <<mandate, mandates>>
    BY <1>5, <2>1 DEF Inv, TypeOK
  <2>2. CASE trade' = [trade EXCEPT ![t] = r] /\ UNCHANGED <<mandate, mandates>>
    BY <1>6, <2>2 DEF Inv, TypeOK
  <2>3. ASSUME NEW over, TryMandates(t, r, over)
        PROVE  /\ TradesTyped' /\ ClearedOnce'
               /\ mandate' \in [Mandates -> MandateRecord] /\ mandates' \subseteq Mandates
               /\ \A v \in Trades \ {t} : trade'[v] = trade[v]
    <3>1. /\ mandate' \in [Mandates -> MandateRecord] /\ mandates' \subseteq Mandates
          /\ \/ trade' = [trade EXCEPT ![t] = r]
             \/ /\ ~r.localOnly
                /\ \E m \in Mandates :
                     trade' = [trade EXCEPT ![t] = [r EXCEPT !.price = m, !.awaiting = FALSE]]
      BY <2>3, TriedMandates DEF Inv
    <3>2. CASE trade' = [trade EXCEPT ![t] = r]
      BY <1>6, <3>1, <3>2
    <3>3. ASSUME ~r.localOnly, NEW m \in Mandates,
                 trade' = [trade EXCEPT ![t] = [r EXCEPT !.price = m, !.awaiting = FALSE]]
          PROVE  /\ TradesTyped' /\ ClearedOnce'
                 /\ \A v \in Trades \ {t} : trade'[v] = trade[v]
      <4> DEFINE q == [r EXCEPT !.price = m, !.awaiting = FALSE]
      <4>1. q \in TradeRecord /\ q.match = NoTrade /\ ~q.awaiting /\ ~q.localOnly
        BY <3>3 DEF TradeRecord
      <4>2. trade' = [trade EXCEPT ![t] = q]
        BY <3>3
      <4> HIDE DEF q
      <4>3. QED
        BY <1>6, <4>1, <4>2
    <3>4. QED
      BY <3>1, <3>2, <3>3
  <2>4. QED
    BY <2>1, <2>2, <2>3 DEF Register
<1>8. Fresh'
  <2>1. \A u \in Trades : pc'[u] = "new" => trade'[u] = NewTrade
    BY <1>1, <1>7 DEF Inv, Fresh, Begun
  <2>2. \A u \in Trades : pc'[u] \in LocalSteps => trade'[u].match # NoTrade
    BY <1>1, <1>7 DEF Inv, Fresh
  <2>3. Range(history)' = Range(history)
    BY <1>2 DEF Range
  <2>4. QED
    BY <1>2, <1>3, <2>1, <2>2, <2>3 DEF Inv, Fresh
<1>9. TypeOK'
  BY <1>1, <1>2, <1>7 DEF Inv, TypeOK, TradesTyped, tokenVars, netVars
<1>10. QED
  BY <1>7, <1>8, <1>9 DEF Inv

LEMMA BeginKeeps ==
  ASSUME Inv,
         \/ \E b \in Buys, priced \in BOOLEAN : NewBuy(b, priced)
         \/ \E s \in Sells, localOnly \in BOOLEAN : NewSell(s, localOnly)
  PROVE  Inv'
<1>1. ASSUME NEW b \in Buys, NEW priced \in BOOLEAN, NewBuy(b, priced)
      PROVE  Inv'
  <2>1. \E step \in {"pricing", "uploading"} : Goto(b, step)
    BY <1>1 DEF NewBuy
  <2>2. NewTrade.match = NoTrade /\ NewTrade.price = NoPrice /\ b \in Trades
    BY DEF NewTrade, Trades
  <2>3. Register(b, NewTrade, priced) /\ pc[b] = "new"
    BY <1>1 DEF NewBuy
  <2>4. QED
    BY <2>1, <2>2, <2>3, NewTradeTyped, RegisterKeeps DEF Steps, LocalSteps
<1>2. ASSUME NEW s \in Sells, NEW localOnly \in BOOLEAN, NewSell(s, localOnly)
      PROVE  Inv'
  <2> DEFINE r == [NewTrade EXCEPT !.localOnly = localOnly]
  <2>1. r \in TradeRecord /\ r.match = NoTrade /\ r.price = NoPrice
    BY NewTradeTyped DEF NewTrade, TradeRecord
  <2>2. Register(s, r, FALSE) /\ pc[s] = "new" /\ Goto(s, "clearance") /\ s \in Trades
    BY <1>2 DEF NewSell, Trades
  <2> HIDE DEF r
  <2>3. QED
    BY <2>1, <2>2, RegisterKeeps DEF Steps, LocalSteps
<1>3. QED
  BY <1>1, <1>2

LEMMA Remembered ==
  ASSUME TypeOK, NEW t \in Trades,
         history' = Append(IF Len(history) = HistoryLength THEN Tail(history) ELSE history, t)
  PROVE  history' \in Seq(Trades) /\ Range(history') \subseteq Range(history) \cup {t}
<1> DEFINE h == IF Len(history) = HistoryLength THEN Tail(history) ELSE history
<1>1. history \in Seq(Trades) /\ HistoryLength \in Nat \ {0}
  BY ActivitiesAssumption DEF TypeOK
<1>2. h \in Seq(Trades) /\ \A i \in 1 .. Len(h) : h[i] \in Range(history)
  <2>1. CASE Len(history) = HistoryLength
    <3>1. history # <<>>
      BY <1>1, <2>1
    <3>2. Tail(history) \in Seq(Trades) /\ Len(Tail(history)) = Len(history) - 1
      BY <1>1, <3>1
    <3>3. ASSUME NEW i \in 1 .. Len(Tail(history))
          PROVE  Tail(history)[i] = history[i + 1] /\ i + 1 \in DOMAIN history
      <4>1. Len(history) \in Nat /\ DOMAIN history = 1 .. Len(history)
        BY <1>1
      <4>2. i \in 1 .. Len(history) - 1
        BY <3>2, <3>3
      <4>3. i + 1 \in 1 .. Len(history)
        BY <4>1, <4>2
      <4>4. Tail(history)[i] = history[i + 1]
        BY <1>1, <3>1, HeadTailProperties
      <4>5. QED
        BY <4>1, <4>3, <4>4
    <3>4. QED
      BY <2>1, <3>2, <3>3 DEF Range
  <2>2. CASE Len(history) # HistoryLength
    BY <1>1, <2>2 DEF Range
  <2>3. QED
    BY <2>1, <2>2
<1>3. history' = Append(h, t)
  OBVIOUS
<1> HIDE DEF h
<1>4. /\ history' \in Seq(Trades) /\ DOMAIN history' = 1 .. Len(h) + 1
      /\ history'[Len(h) + 1] = t
      /\ \A i \in 1 .. Len(h) : history'[i] = h[i]
  <2>1. h \in Seq(Trades)
    BY <1>2
  <2>2. /\ Append(h, t) \in Seq(Trades) /\ Len(Append(h, t)) = Len(h) + 1
        /\ \A i \in 1 .. Len(h) : Append(h, t)[i] = h[i]
        /\ Append(h, t)[Len(h) + 1] = t
    BY <2>1, AppendProperties
  <2>3. DOMAIN Append(h, t) = 1 .. Len(h) + 1
    BY <2>2
  <2>4. QED
    BY <1>3, <2>2, <2>3
<1>5. \A i \in DOMAIN history' : history'[i] \in Range(history) \cup {t}
  BY <1>2, <1>4
<1>6. QED
  BY <1>4, <1>5 DEF Range

LEMMA DisposeUncleared ==
  ASSUME Inv, NEW t \in Trades, Dispose(t)
  PROVE  /\ SameClearance(t)
         /\ trade'[t].work = Disposed(trade[t].work)
         /\ trade'[t].result = Disposed(trade[t].result)
         /\ trade'[t].alive = trade[t].alive
<1> DEFINE w == Disposed(trade[t].work)
           x == Disposed(trade[t].result)
           r == [trade[t] EXCEPT !.work = w, !.result = x]
<1>1. trade[t] \in TradeRecord
  BY DEF Inv, TypeOK
<1>2. w \in File /\ x \in File
  BY <1>1 DEF Disposed, File, TradeRecord
<1>3. trade' = [trade EXCEPT ![t] = r]
  BY DEF Dispose, Inv, TypeOK
<1> HIDE DEF w, x
<1>4. /\ r \in TradeRecord
      /\ r.awaiting = trade[t].awaiting /\ r.match = trade[t].match
      /\ r.price = trade[t].price /\ r.localOnly = trade[t].localOnly
      /\ r.work = w /\ r.result = x /\ r.alive = trade[t].alive
  BY <1>1, <1>2 DEF TradeRecord
<1> HIDE DEF r
<1>5. /\ trade' \in [Trades -> TradeRecord] /\ trade'[t] = r
      /\ \A u \in Trades \ {t} : trade'[u] = trade[u]
  BY <1>3, <1>4 DEF Inv, TypeOK
<1>6. QED
  BY <1>4, <1>5 DEF SameClearance, TradesTyped, w, x

LEMMA DisposeKeeps ==
  ASSUME Inv, NEW t \in Trades, Dispose(t)
  PROVE  Inv'
<1>1. /\ pc[t] = "disposing" /\ pc' \in [Trades -> Steps] /\ pc'[t] = "gone"
      /\ \A u \in Trades \ {t} : pc'[u] = pc[u]
  BY DEF Dispose, Goto, Inv, TypeOK, Steps
<1>2. UNCHANGED <<mandateVars, tokenVars, netVars>> /\ activities' \subseteq activities
  BY DEF Dispose
<1>3. t \in Begun /\ Begun' = Begun
  BY <1>1 DEF Begun
<1>4. history' \in Seq(Trades) /\ Range(history') \subseteq Range(history) \cup {t}
  BY Remembered DEF Dispose, Inv
<1>5. SameClearance(t)
  BY DisposeUncleared
<1>6. Fresh'
  <2>1. \A u \in Trades : pc'[u] = "new" => trade'[u] = NewTrade
    BY <1>1, <1>5 DEF Inv, Fresh, SameClearance
  <2>2. \A u \in Trades : pc'[u] \in LocalSteps => trade'[u].match # NoTrade
    BY <1>1, <1>5 DEF Inv, Fresh, SameClearance, LocalSteps
  <2>3. Range(history)' \subseteq Begun
    BY <1>3, <1>4 DEF Inv, Fresh
  <2>4. QED
    BY <1>2, <1>3, <2>1, <2>2, <2>3 DEF Inv, Fresh, mandateVars
<1>7. ClearedOnce'
  <2>1. \A u \in Trades : /\ trade'[u].match = trade[u].match
                          /\ trade'[u].price = trade[u].price
                          /\ trade'[u].awaiting = trade[u].awaiting
                          /\ trade'[u].localOnly = trade[u].localOnly
    BY <1>5 DEF SameClearance
  <2>2. \A u \in Trades : trade[u].match # NoTrade => trade[u].match \in Trades
    BY DEF Inv, TypeOK, TradeRecord
  <2>3. QED
    BY <2>1, <2>2 DEF Inv, ClearedOnce, Published
<1>8. TypeOK'
  BY <1>1, <1>2, <1>4, <1>5
  DEF Inv, TypeOK, SameClearance, TradesTyped, mandateVars, tokenVars, netVars
<1>9. QED
  BY <1>6, <1>7, <1>8 DEF Inv

-----------------------------------------------------------------------------
(***************************************************************************)
(* The types and the clearance of trades.                                  *)
(***************************************************************************)
LEMMA StutterKeeps == Inv /\ UNCHANGED vars => Inv'
<1> SUFFICES ASSUME Inv, UNCHANGED vars PROVE Inv'
  OBVIOUS
<1> USE DEF Inv, vars
<1>1. TypeOK'
  BY DEF TypeOK, registry, mandateVars, tokenVars, netVars
<1>2. Fresh' /\ ClearedOnce'
  BY DEF Fresh, Begun, registry, mandateVars, ClearedOnce, Published
<1>3. QED
  BY <1>1, <1>2

LEMMA NextKeeps ==
  ASSUME Inv, [Next]_vars
  PROVE  Inv'
<1>1. ASSUME NEW t \in Trades, Step(t)
      PROVE  Inv'
  <2>1. CASE t \in Buys /\ Publish(t)
    BY <2>1, PublishStepKeeps
  <2>2. CASE AwaitClearance(t) \/ LocalBuy(t) \/ TakeWork(t) \/ DoWork(t)
             \/ OfferResult(t) \/ End(t) \/ EndTransaction(t)
    BY <2>2, LocalKeeps
  <2>3. CASE \/ t \in Buys /\ (Upload(t) \/ TakeTransmissionToken(t) \/ Transmit(t))
             \/ TakeUnmatchedToken(t) \/ PlaceBid(t) \/ AwaitTransaction(t)
             \/ ReturnUnmatchedToken(t) \/ Close(t)
    BY <2>3, RemoteKeeps
  <2>4. CASE Dispose(t)
    BY <2>4, DisposeKeeps
  <2>5. QED
    BY <1>1, <2>1, <2>2, <2>3, <2>4 DEF Step
<1>2. ASSUME NEW m \in Mandates, MandateStep(m)
      PROVE  Inv'
  <2>1. CASE Grant(m)
    BY <2>1, GrantKeeps
  <2>2. CASE List(m) \/ Revoke(m)
    BY <2>2, ListKeeps
  <2>3. CASE \E t \in Trades : Look(m, t) \/ Apply(m, t)
    BY <2>3, LookKeeps, ApplyKeeps
  <2>4. QED
    BY <1>2, <2>1, <2>2, <2>3 DEF MandateStep
<1>3. QED
  BY <1>1, <1>2, BeginKeeps, OthersKeep, StutterKeeps DEF Next

LEMMA Invariance == Spec => []Inv
<1>1. Init => Inv
  BY Initially
<1>2. Inv /\ [Next]_vars => Inv'
  BY NextKeeps
<1>3. QED
  BY <1>1, <1>2, PTL DEF Spec

(***************************************************************************)
(* Every trade, mandate and token is of its type, whatever the limits.     *)
(***************************************************************************)
THEOREM TypesHold == Spec => []TypeOK
<1>1. Inv => TypeOK
  BY DEF Inv
<1>2. QED
  BY <1>1, Invariance, PTL

(***************************************************************************)
(* Whichever of register, Publish and a mandate gets to a trade first, it  *)
(* is cleared once: by a price or by a match that is mutual.               *)
(***************************************************************************)
THEOREM EveryTradeClearedOnce == Spec => []ClearedOnce
<1>1. Inv => ClearedOnce
  BY DEF Inv
<1>2. QED
  BY <1>1, Invariance, PTL

-----------------------------------------------------------------------------
(***************************************************************************)
(* Tokens.  A trade holds a token of its type from checkoutToken until the *)
(* deferred return, and every token is held by one trade or in the channel.*)
(* An open bid is of a trade that waits for its transaction, and so holds a*)
(* token, unless the client has lost sight of it.                          *)
(***************************************************************************)
Holding == {"transmission", "bidding", "open", "matched", "failed"}
HoldersOf(y) == {t \in Trades : Type(t) = y /\ pc[t] \in Holding}
Unseen == {t \in open : pc[t] # "open"}

TokensHeld ==
  \A y \in BidTypes : unmatched[y] + Cardinality(HoldersOf(y)) = NumUnmatchedBids
UnseenCounted == Cardinality(Unseen) <= lost

Counted == TokensHeld /\ UnseenCounted

LEMMA TradesFinite ==
  ASSUME NEW S, S \subseteq Trades
  PROVE  IsFiniteSet(S) /\ Cardinality(S) \in Nat
  BY FS_Subset, FS_CardinalityType, ActivitiesAssumption

LEMMA CountedInitially == Init => Counted
<1> SUFFICES ASSUME Init PROVE Counted
  OBVIOUS
<1>1. ASSUME NEW y \in BidTypes
      PROVE  unmatched[y] + Cardinality(HoldersOf(y)) = NumUnmatchedBids
  <2>1. HoldersOf(y) = {}
    BY DEF Init, HoldersOf, Holding
  <2>2. unmatched[y] = NumUnmatchedBids /\ NumUnmatchedBids \in Nat
    BY ActivitiesAssumption DEF Init
  <2>3. QED
    BY <2>1, <2>2, FS_EmptySet
<1>2. Unseen = {} /\ lost = 0
  BY DEF Init, Unseen
<1>3. QED
  BY <1>1, <1>2, FS_EmptySet DEF Counted, TokensHeld, UnseenCounted

\* The goroutine of one trade goes on.
Advances(t, step) ==
  /\ pc'[t] = step
  /\ \A u \in Trades \ {t} : pc'[u] = pc[u]

LEMMA GoesTo ==
  ASSUME TypeOK, NEW t \in Trades, NEW step, Goto(t, step)
  PROVE  Advances(t, step)
  BY DEF TypeOK, Goto, Advances

\* It neither takes nor returns a token of its type.
LEMMA HoldersStay ==
  ASSUME TypeOK, TokensHeld, NEW t \in Trades, NEW step, Advances(t, step),
         step \in Holding <=> pc[t] \in Holding,
         UNCHANGED unmatched
  PROVE  TokensHeld'
<1>1. ASSUME NEW y \in BidTypes
      PROVE  HoldersOf(y)' = HoldersOf(y)
  BY DEF HoldersOf, Advances
<1>2. QED
  BY <1>1 DEF TokensHeld

LEMMA TokenTaken ==
  ASSUME TypeOK, TokensHeld, NEW t \in Trades, NEW step, Advances(t, step),
         step \in Holding, pc[t] \notin Holding,
         unmatched' = [unmatched EXCEPT ![Type(t)] = @ - 1]
  PROVE  TokensHeld'
<1>1. ASSUME NEW y \in BidTypes
      PROVE  unmatched'[y] + Cardinality(HoldersOf(y)') = NumUnmatchedBids
  <2>1. IsFiniteSet(HoldersOf(y)) /\ Cardinality(HoldersOf(y)) \in Nat
    BY TradesFinite DEF HoldersOf
  <2>2. unmatched[y] \in Nat /\ unmatched[y] + Cardinality(HoldersOf(y)) = NumUnmatchedBids
    BY DEF TypeOK, TokensHeld
  <2>3. CASE y = Type(t)
    <3>1. HoldersOf(y)' = HoldersOf(y) \cup {t} /\ t \notin HoldersOf(y)
      BY <2>3 DEF HoldersOf, Advances
    <3>2. unmatched'[y] = unmatched[y] - 1
      BY <2>3, TypeOf DEF TypeOK
    <3>3. Cardinality(HoldersOf(y)') = Cardinality(HoldersOf(y)) + 1
      BY <2>1, <3>1, FS_AddElement
    <3>4. QED
      BY <2>1, <2>2, <3>2, <3>3
  <2>4. CASE y # Type(t)
    <3>1. HoldersOf(y)' = HoldersOf(y)
      BY <2>4 DEF HoldersOf, Advances
    <3>2. unmatched'[y] = unmatched[y]
      BY <2>4 DEF TypeOK
    <3>3. QED
      BY <2>2, <3>1, <3>2
  <2>5. QED
    BY <2>3, <2>4
<1>2. QED
  BY <1>1 DEF TokensHeld

LEMMA TokenReturned ==
  ASSUME TypeOK, TokensHeld, NEW t \in Trades, NEW step, Advances(t, step),
         step \notin Holding, pc[t] \in Holding,
         unmatched' = [unmatched EXCEPT ![Type(t)] = @ + 1]
  PROVE  TokensHeld'
<1>1. ASSUME NEW y \in BidTypes
      PROVE  unmatched'[y] + Cardinality(HoldersOf(y)') = NumUnmatchedBids
  <2>1. IsFiniteSet(HoldersOf(y)) /\ Cardinality(HoldersOf(y)) \in Nat
    BY TradesFinite DEF HoldersOf
  <2>2. unmatched[y] \in Nat /\ unmatched[y] + Cardinality(HoldersOf(y)) = NumUnmatchedBids
    BY DEF TypeOK, TokensHeld
  <2>3. CASE y = Type(t)
    <3>1. HoldersOf(y)' = HoldersOf(y) \ {t} /\ t \in HoldersOf(y)
      BY <2>3 DEF HoldersOf, Advances
    <3>2. unmatched'[y] = unmatched[y] + 1
      BY <2>3, TypeOf DEF TypeOK
    <3>3. Cardinality(HoldersOf(y)') = Cardinality(HoldersOf(y)) - 1
      BY <2>1, <3>1, FS_RemoveElement
    <3>4. QED
      BY <2>1, <2>2, <3>2, <3>3
  <2>4. CASE y # Type(t)
    <3>1. HoldersOf(y)' = HoldersOf(y)
      BY <2>4 DEF HoldersOf, Advances
    <3>2. unmatched'[y] = unmatched[y]
      BY <2>4 DEF TypeOK
    <3>3. QED
      BY <2>2, <3>1, <3>2
  <2>5. QED
    BY <2>3, <2>4
<1>2. QED
  BY <1>1 DEF TokensHeld

\* No bid is lost sight of but those counted.
LEMMA UnseenStay ==
  ASSUME TypeOK, UnseenCounted, open' \subseteq Trades, Unseen' \subseteq Unseen,
         UNCHANGED lost
  PROVE  UnseenCounted'
<1>1. IsFiniteSet(Unseen) /\ Cardinality(Unseen) \in Nat
  BY TradesFinite DEF TypeOK, Unseen
<1>2. Cardinality(Unseen') \in Nat /\ Cardinality(Unseen') <= Cardinality(Unseen)
  <2>1. Unseen' \subseteq Trades
    BY DEF Unseen
  <2>2. QED
    BY <1>1, <2>1, FS_Subset, TradesFinite
<1>3. QED
  BY <1>1, <1>2 DEF UnseenCounted, TypeOK

LEMMA UnseenGrow ==
  ASSUME TypeOK, UnseenCounted, NEW t \in Trades, open' \subseteq Trades,
         Unseen' \subseteq Unseen \cup {t}, lost' = lost + 1
  PROVE  UnseenCounted'
<1>1. IsFiniteSet(Unseen) /\ Cardinality(Unseen) \in Nat
  BY TradesFinite DEF TypeOK, Unseen
<1>2. /\ IsFiniteSet(Unseen \cup {t}) /\ Cardinality(Unseen \cup {t}) \in Nat
      /\ Cardinality(Unseen \cup {t}) <= Cardinality(Unseen) + 1
  <2>1. Unseen \cup {t} \subseteq Trades
    BY DEF TypeOK, Unseen
  <2>2. IsFiniteSet(Unseen \cup {t}) /\ Cardinality(Unseen \cup {t}) \in Nat
    BY <2>1, TradesFinite
  <2>3. Cardinality(Unseen \cup {t})
          = IF t \in Unseen THEN Cardinality(Unseen) ELSE Cardinality(Unseen) + 1
    BY <1>1, FS_AddElement
  <2>4. QED
    BY <1>1, <2>2, <2>3
<1>3. Cardinality(Unseen') \in Nat /\ Cardinality(Unseen') <= Cardinality(Unseen \cup {t})
  <2>1. Unseen' \subseteq Trades
    BY DEF Unseen
  <2>2. QED
    BY <1>2, <2>1, FS_Subset, TradesFinite
<1>4. QED
  BY <1>1, <1>2, <1>3 DEF UnseenCounted, TypeOK

\* A step of a trade that has neither a token nor a bid to do with.
LEMMA CountedStay ==
  ASSUME TypeOK, Counted, NEW t \in Trades, NEW step, Advances(t, step),
         pc[t] \notin Holding, step \notin Holding,
         UNCHANGED <<unmatched, open, lost>>
  PROVE  Counted'
<1>1. TokensHeld'
  BY HoldersStay DEF Counted
<1>2. Unseen' \subseteq Unseen
  BY DEF Unseen, Advances, Holding, TypeOK
<1>3. UnseenCounted'
  BY <1>2, UnseenStay DEF Counted, TypeOK
<1>4. QED
  BY <1>1, <1>3 DEF Counted

LEMMA OwnStepCounted ==
  ASSUME TypeOK, Counted, NEW t \in Trades,
         \/ Publish(t) \/ Upload(t) \/ LocalBuy(t) \/ Transmit(t)
         \/ TakeWork(t) \/ DoWork(t) \/ OfferResult(t) \/ AwaitClearance(t)
         \/ EndTransaction(t) \/ Close(t) \/ End(t) \/ Dispose(t)
  PROVE  Counted'
<1>1. PICK step \in Steps \ Holding : Goto(t, step)
  BY DEF Publish, Upload, LocalBuy, Transmit, TakeWork, DoWork, OfferResult,
     AwaitClearance, EndTransaction, Close, End, Dispose, Steps, Holding
<1>2. pc[t] \notin Holding
  BY DEF Publish, Upload, LocalBuy, Transmit, TakeWork, DoWork, OfferResult,
     AwaitClearance, EndTransaction, Close, End, Dispose, Holding
<1>3. UNCHANGED <<unmatched, open, lost>>
  BY DEF Publish, Upload, LocalBuy, Transmit, TakeWork, DoWork, OfferResult,
     AwaitClearance, EndTransaction, Close, End, Dispose, Alone, tokenVars, netVars
<1>4. Advances(t, step)
  BY <1>1, GoesTo
<1>5. QED
  BY <1>1, <1>2, <1>3, <1>4, CountedStay

LEMMA BeginCounted ==
  ASSUME TypeOK, Counted, NEW t \in Trades, pc[t] = "new",
         NEW step \in {"pricing", "uploading", "clearance"}, Goto(t, step),
         NEW r, NEW skipMandates, Register(t, r, skipMandates)
  PROVE  Counted'
<1>1. pc[t] \notin Holding /\ step \notin Holding
  BY DEF Holding
<1>2. UNCHANGED <<unmatched, open, lost>>
  BY DEF Register, tokenVars, netVars
<1>3. Advances(t, step)
  BY GoesTo
<1>4. QED
  BY <1>1, <1>2, <1>3, CountedStay

LEMMA TokenStepCounted ==
  ASSUME TypeOK, Counted, NEW t \in Trades,
         TakeUnmatchedToken(t) \/ TakeTransmissionToken(t) \/ ReturnUnmatchedToken(t)
  PROVE  Counted'
<1>1. UNCHANGED <<open, lost>>
  BY DEF TakeUnmatchedToken, TakeTransmissionToken, ReturnUnmatchedToken, netVars
<1>2. PICK step : Goto(t, step) /\ step # "open" /\ pc[t] # "open"
  BY DEF TakeUnmatchedToken, TakeTransmissionToken, ReturnUnmatchedToken
<1>3. UnseenCounted'
  <2>1. Unseen' \subseteq Unseen
    BY <1>1, <1>2, GoesTo DEF Unseen, Advances, TypeOK
  <2>2. QED
    BY <1>1, <2>1, UnseenStay DEF Counted, TypeOK
<1>4. TokensHeld'
  <2> USE DEF Counted, Holding
  <2>1. CASE /\ pc[t] = "unmatched"
             /\ unmatched' = [unmatched EXCEPT ![Type(t)] = @ - 1]
             /\ Goto(t, IF t \in Buys THEN "transmission" ELSE "bidding")
    BY <2>1, GoesTo, TokenTaken
  <2>2. CASE pc[t] = "unmatched" /\ Goto(t, "closing") /\ UNCHANGED unmatched
    BY <2>2, GoesTo, HoldersStay
  <2>3. CASE pc[t] = "transmission" /\ UNCHANGED unmatched
             /\ (Goto(t, "bidding") \/ Goto(t, "failed"))
    BY <2>3, GoesTo, HoldersStay
  <2>4. CASE ReturnUnmatchedToken(t)
    <3>1. \E s \in {"closing", "transmitting", "selling"} : Goto(t, s)
      BY <2>4 DEF ReturnUnmatchedToken
    <3>2. QED
      BY <2>4, <3>1, GoesTo, TokenReturned DEF ReturnUnmatchedToken
  <2>5. QED
    BY <2>1, <2>2, <2>3, <2>4 DEF TakeUnmatchedToken, TakeTransmissionToken
<1>5. QED
  BY <1>3, <1>4 DEF Counted

LEMMA BidStepCounted ==
  ASSUME TypeOK, Counted, NEW t \in Trades, PlaceBid(t) \/ AwaitTransaction(t)
  PROVE  Counted'
<1>1. TokensHeld'
  <2>1. pc[t] \in Holding /\ UNCHANGED unmatched
    BY DEF PlaceBid, AwaitTransaction, tokenVars, Holding
  <2>2. \E step \in {"open", "failed", "matched"} : Goto(t, step)
    BY DEF PlaceBid, AwaitTransaction
  <2>3. QED
    BY <2>1, <2>2, GoesTo, HoldersStay DEF Counted, Holding
<1>2. UnseenCounted'
  <2> USE DEF Counted
  <2>0. open' \subseteq Trades
    BY DEF PlaceBid, AwaitTransaction, TypeOK
  <2>1. CASE pc[t] = "bidding" /\ Goto(t, "open") /\ open' = open \cup {t} /\ UNCHANGED lost
    <3>1. Unseen' \subseteq Unseen
      BY <2>1, GoesTo DEF Unseen, Advances, TypeOK
    <3>2. QED
      BY <2>0, <2>1, <3>1, UnseenStay
  <2>2. CASE pc[t] = "bidding" /\ Goto(t, "failed") /\ UNCHANGED <<open, lost>>
    <3>1. Unseen' \subseteq Unseen
      BY <2>2, GoesTo DEF Unseen, Advances, TypeOK
    <3>2. QED
      BY <2>0, <2>2, <3>1, UnseenStay
  <2>3. CASE /\ pc[t] = "bidding" /\ Goto(t, "failed") /\ open' = open \cup {t}
             /\ lost' = lost + 1
    <3>1. Unseen' \subseteq Unseen \cup {t}
      BY <2>3, GoesTo DEF Unseen, Advances, TypeOK
    <3>2. QED
      BY <2>0, <2>3, <3>1, UnseenGrow
  <2>4. CASE /\ pc[t] = "open" /\ BidOver(t) /\ UNCHANGED <<open, lost>>
             /\ Goto(t, "matched") \/ Goto(t, "failed")
    <3>1. Unseen' \subseteq Unseen
      BY <2>4, GoesTo DEF Unseen, Advances, TypeOK, BidOver
    <3>2. QED
      BY <2>0, <2>4, <3>1, UnseenStay
  <2>5. CASE /\ pc[t] = "open" /\ UNCHANGED open /\ Goto(t, "failed")
             /\ lost' = lost + 1
    <3>1. Unseen' \subseteq Unseen \cup {t}
      BY <2>5, GoesTo DEF Unseen, Advances, TypeOK
    <3>2. QED
      BY <2>0, <2>5, <3>1, UnseenGrow
  <2>6. QED
    BY <2>1, <2>2, <2>3, <2>4, <2>5 DEF PlaceBid, AwaitTransaction, LoseSight
<1>3. QED
  BY <1>1, <1>2 DEF Counted

\* Goroutines stay where they are, and no bid is placed.
LEMMA OthersCounted ==
  ASSUME TypeOK, Counted, UNCHANGED <<pc, unmatched, lost>>, open' \subseteq open
  PROVE  Counted'
<1>1. TokensHeld'
  BY DEF Counted, TokensHeld, HoldersOf
<1>2. Unseen' \subseteq Unseen
  BY DEF Unseen
<1>3. QED
  BY <1>1, <1>2, UnseenStay DEF Counted, TypeOK

LEMMA CountedKept ==
  ASSUME TypeOK, Counted, [Next]_vars
  PROVE  Counted'
<1>1. ASSUME NEW t \in Trades, Step(t)
      PROVE  Counted'
  <2>1. CASE \/ Publish(t) \/ Upload(t) \/ LocalBuy(t) \/ Transmit(t)
             \/ TakeWork(t) \/ DoWork(t) \/ OfferResult(t) \/ AwaitClearance(t)
             \/ EndTransaction(t) \/ Close(t) \/ End(t) \/ Dispose(t)
    BY <2>1, OwnStepCounted
  <2>2. CASE TakeUnmatchedToken(t) \/ TakeTransmissionToken(t) \/ ReturnUnmatchedToken(t)
    BY <2>2, TokenStepCounted
  <2>3. CASE PlaceBid(t) \/ AwaitTransaction(t)
    BY <2>3, BidStepCounted
  <2>4. QED
    BY <1>1, <2>1, <2>2, <2>3 DEF Step
<1>2. ASSUME NEW t \in Trades, HangUp(t) \/ Resolve(t) \/ Revive(t)
      PROVE  Counted'
  <2>1. UNCHANGED <<pc, unmatched, lost>> /\ open' \subseteq open
    BY <1>2 DEF HangUp, Resolve, Revive, tokenVars
  <2>2. QED
    BY <2>1, OthersCounted
<1>3. ASSUME NEW m \in Mandates, MandateStep(m)
      PROVE  Counted'
  <2>1. UNCHANGED <<pc, unmatched, lost, open>>
    BY <1>3 DEF MandateStep, Grant, List, Revoke, Look, Apply, tokenVars, netVars
  <2>2. QED
    BY <2>1, OthersCounted
<1>4. ASSUME NEW b \in Buys, NEW priced \in BOOLEAN, NewBuy(b, priced)
      PROVE  Counted'
  <2>1. \E step \in {"pricing", "uploading", "clearance"} : Goto(b, step)
    BY <1>4 DEF NewBuy
  <2>2. QED
    BY <1>4, <2>1, BeginCounted DEF NewBuy, Trades
<1>5. ASSUME NEW s \in Sells, NEW localOnly \in BOOLEAN, NewSell(s, localOnly)
      PROVE  Counted'
  BY <1>5, BeginCounted DEF NewSell, Trades
<1>6. CASE UNCHANGED vars
  BY <1>6, OthersCounted DEF vars, tokenVars, netVars
<1>7. QED
  BY <1>1, <1>2, <1>3, <1>4, <1>5, <1>6 DEF Next

\* Bids that are open and seen are of trades that hold a token.
LEMMA OpenBidsCounted ==
  ASSUME TypeOK, Counted
  PROVE  UnmatchedBidsLimited
<1>1. ASSUME NEW y \in BidTypes
      PROVE  Cardinality({t \in open : Type(t) = y}) <= NumUnmatchedBids + lost
  <2> DEFINE opened == {t \in open : Type(t) = y}
  <2>1. /\ IsFiniteSet(HoldersOf(y)) /\ Cardinality(HoldersOf(y)) \in Nat
        /\ IsFiniteSet(Unseen) /\ Cardinality(Unseen) \in Nat
    BY TradesFinite DEF HoldersOf, Unseen, TypeOK
  <2>2. opened \subseteq HoldersOf(y) \cup Unseen
    BY DEF HoldersOf, Unseen, Holding, TypeOK
  <2>3. /\ IsFiniteSet(HoldersOf(y) \cup Unseen)
        /\ Cardinality(HoldersOf(y) \cup Unseen) <= Cardinality(HoldersOf(y)) + Cardinality(Unseen)
        /\ Cardinality(HoldersOf(y) \cup Unseen) \in Nat
    <3>1. IsFiniteSet(HoldersOf(y) \cap Unseen)
          /\ Cardinality(HoldersOf(y) \cap Unseen) \in Nat
      BY <2>1, FS_Subset, FS_CardinalityType
    <3>2. IsFiniteSet(HoldersOf(y) \cup Unseen)
          /\ Cardinality(HoldersOf(y) \cup Unseen)
               = Cardinality(HoldersOf(y)) + Cardinality(Unseen)
                 - Cardinality(HoldersOf(y) \cap Unseen)
      BY <2>1, FS_Union
    <3>3. Cardinality(HoldersOf(y) \cup Unseen) \in Nat
      BY <3>2, FS_CardinalityType
    <3>4. QED
      BY <2>1, <3>1, <3>2, <3>3
  <2>4. /\ Cardinality(opened) \in Nat
        /\ Cardinality(opened) <= Cardinality(HoldersOf(y) \cup Unseen)
    BY <2>2, <2>3, FS_Subset, FS_CardinalityType
  <2>5. Cardinality(HoldersOf(y)) <= NumUnmatchedBids
    <3>1. unmatched[y] \in Nat /\ unmatched[y] + Cardinality(HoldersOf(y)) = NumUnmatchedBids
      BY DEF Counted, TokensHeld, TypeOK
    <3>2. QED
      BY <2>1, <3>1, ActivitiesAssumption
  <2>6. Cardinality(Unseen) <= lost /\ lost \in Nat
    BY DEF Counted, UnseenCounted, TypeOK
  <2> HIDE DEF opened
  <2>7. Cardinality(opened) <= NumUnmatchedBids + lost
    BY <2>1, <2>3, <2>4, <2>5, <2>6, ActivitiesAssumption
  <2>8. QED
    BY <2>7 DEF opened
<1>2. QED
  BY <1>1 DEF UnmatchedBidsLimited

(***************************************************************************)
(* No more bids of a type are open at the server than there are tokens,    *)
(* whichever trades take, return and wait for them, but for the bids of    *)
(* which the client has lost sight.                                        *)
(***************************************************************************)
THEOREM UnmatchedBidsAlwaysLimited == Spec => []UnmatchedBidsLimited
<1>1. Init => Counted
  BY CountedInitially
<1>2. TypeOK /\ Counted /\ [Next]_vars => Counted'
  BY CountedKept
<1>3. TypeOK /\ Counted => UnmatchedBidsLimited
  BY OpenBidsCounted
<1>4. QED
  BY <1>1, <1>2, <1>3, TypesHold, PTL DEF Spec

-----------------------------------------------------------------------------
(***************************************************************************)
(* Mandates.  What a mandate has left and the trades it has published add  *)
(* up to what it was granted.  A mandate that was not granted is nowhere,  *)
(* so that nothing is published by it.                                     *)
(***************************************************************************)
PublishedBy(m) == {t \in Trades : trade[t].price = m}

Ungranted ==
  \A m \in Mandates : mandate[m].granted = 0 =>
    /\ m \notin mandates /\ m \notin entering
    /\ todo[m] = {} /\ looking[m] = NoTrade
    /\ PublishedBy(m) = {}

Limited == Ungranted /\ MandateLimit

LimitOf(m) ==
  /\ Cardinality(PublishedBy(m)) + mandate[m].left = mandate[m].granted
  /\ mandate[m].useLeft => mandate[m].left >= 0

LEMMA LimitParts == MandateLimit <=> \A m \in Mandates : LimitOf(m)
  BY DEF MandateLimit, LimitOf, PublishedBy

LEMMA LimitPartsNext == (\A m \in Mandates : LimitOf(m)') => MandateLimit'
  BY DEF MandateLimit, LimitOf, PublishedBy

LEMMA LimitedInitially == Init => Limited
<1> SUFFICES ASSUME Init PROVE Limited
  OBVIOUS
<1>1. ASSUME NEW m \in Mandates
      PROVE  PublishedBy(m) = {}
  BY ActivitiesAssumption DEF PublishedBy, Init, NewTrade
<1>2. \A m \in Mandates : mandate[m] = NoMandate
  BY DEF Init
<1>3. MandateLimit
  BY <1>1, <1>2, LimitParts, FS_EmptySet DEF LimitOf, NoMandate
<1>4. Ungranted
  BY <1>1 DEF Ungranted, Init
<1>5. QED
  BY <1>3, <1>4 DEF Limited

\* The limits of mandate m are as they were; the trades it has published too.
SameLimit(m) ==
  /\ mandate'[m].left = mandate[m].left
  /\ mandate'[m].useLeft = mandate[m].useLeft
  /\ mandate'[m].granted = mandate[m].granted

SamePublished(m) == PublishedBy(m)' = PublishedBy(m)

\* No mandate appears where it was not.
NoneAppears ==
  /\ mandates' \subseteq mandates /\ entering' \subseteq entering
  /\ \A m \in Mandates : todo'[m] \subseteq todo[m]
                         /\ (looking'[m] = looking[m] \/ looking'[m] = NoTrade)

LEMMA LimitStays ==
  ASSUME NEW m \in Mandates, LimitOf(m), SameLimit(m), SamePublished(m)
  PROVE  LimitOf(m)'
  BY DEF LimitOf, SameLimit, SamePublished

LEMMA LimitedStay ==
  ASSUME Limited, NoneAppears,
         \A m \in Mandates : SameLimit(m) /\ SamePublished(m)
  PROVE  Limited'
<1>1. MandateLimit'
  <2>1. \A m \in Mandates : LimitOf(m)'
    BY LimitStays, LimitParts DEF Limited
  <2>2. QED
    BY <2>1, LimitPartsNext
<1>2. Ungranted'
  BY DEF Limited, Ungranted, NoneAppears, SameLimit, SamePublished
<1>3. QED
  BY <1>1, <1>2 DEF Limited

\* A mandate publishes a trade.
Publishes(m, t) ==
  /\ trade[t].price = NoPrice /\ trade'[t].price = m
  /\ \A u \in Trades \ {t} : trade'[u].price = trade[u].price
  /\ mandate'[m].left = mandate[m].left - 1
  /\ mandate'[m].useLeft = mandate[m].useLeft
  /\ mandate'[m].granted = mandate[m].granted
  /\ \A k \in Mandates \ {m} : SameLimit(k)

LEMMA LimitSpent ==
  ASSUME TypeOK, NEW m \in Mandates, NEW t \in Trades, LimitOf(m), Publishes(m, t),
         mandate[m].useLeft => mandate[m].left > 0
  PROVE  LimitOf(m)'
<1>1. IsFiniteSet(PublishedBy(m)) /\ Cardinality(PublishedBy(m)) \in Nat
  BY TradesFinite DEF PublishedBy
<1>2. mandate[m].left \in Int /\ mandate[m].granted \in Nat
  BY DEF TypeOK, MandateRecord
<1>3. PublishedBy(m)' = PublishedBy(m) \cup {t} /\ t \notin PublishedBy(m)
  BY ActivitiesAssumption DEF PublishedBy, Publishes
<1>4. Cardinality(PublishedBy(m)') = Cardinality(PublishedBy(m)) + 1
  BY <1>1, <1>3, FS_AddElement
<1>5. Cardinality(PublishedBy(m)) + mandate[m].left = mandate[m].granted
  BY DEF LimitOf
<1>6. Cardinality(PublishedBy(m)') + mandate'[m].left = mandate'[m].granted
  BY <1>1, <1>2, <1>4, <1>5 DEF Publishes
<1>7. mandate'[m].useLeft => mandate'[m].left >= 0
  BY <1>2 DEF Publishes
<1>8. QED
  BY <1>6, <1>7 DEF LimitOf

LEMMA LimitedSpent ==
  ASSUME TypeOK, Limited, NEW m \in Mandates, NEW t \in Trades, Publishes(m, t),
         mandate[m].useLeft => mandate[m].left > 0,
         mandate[m].granted # 0, NoneAppears
  PROVE  Limited'
<1>1. ASSUME NEW k \in Mandates, k # m
      PROVE  SameLimit(k) /\ SamePublished(k)
  BY <1>1, ActivitiesAssumption DEF Publishes, SamePublished, PublishedBy
<1>2. MandateLimit'
  <2>1. \A k \in Mandates : LimitOf(k)'
    BY <1>1, LimitStays, LimitSpent, LimitParts DEF Limited
  <2>2. QED
    BY <2>1, LimitPartsNext
<1>3. Ungranted'
  <2>1. ASSUME NEW k \in Mandates, mandate'[k].granted = 0
        PROVE  k # m /\ mandate[k].granted = 0
    BY <1>1, <2>1 DEF Publishes, SameLimit
  <2>2. QED
    BY <1>1, <2>1 DEF Limited, Ungranted, NoneAppears, SamePublished
<1>4. QED
  BY <1>2, <1>3 DEF Limited

\* What Expire and Spend do to the limits.
LEMMA ExpireKeeps ==
  ASSUME TypeOK, NEW ms, Expire(ms), NEW k \in Mandates
  PROVE  SameLimit(k)
<1>1. mandate[k] \in MandateRecord
  BY DEF TypeOK
<1>2. mandate'[k] = IF k \in ms THEN [mandate[k] EXCEPT !.expired = TRUE] ELSE mandate[k]
  BY DEF Expire
<1>3. QED
  BY <1>1, <1>2 DEF SameLimit, MandateRecord

LEMMA SpendCounts ==
  ASSUME TypeOK, NEW m \in Mandates, NEW ms, Spend(m, ms)
  PROVE  /\ mandate'[m].left = mandate[m].left - 1
         /\ mandate'[m].useLeft = mandate[m].useLeft
         /\ mandate'[m].granted = mandate[m].granted
         /\ \A k \in Mandates \ {m} : SameLimit(k)
<1>1. ASSUME NEW k \in Mandates
      PROVE  /\ mandate'[k].left = IF k = m THEN mandate[k].left - 1 ELSE mandate[k].left
             /\ mandate'[k].useLeft = mandate[k].useLeft
             /\ mandate'[k].granted = mandate[k].granted
  <2> DEFINE l == IF k = m THEN mandate[k].left - 1 ELSE mandate[k].left
             e == mandate[k].expired \/ k \in ms
  <2>1. mandate[k] \in MandateRecord
    BY DEF TypeOK
  <2>2. mandate'[k] = [mandate[k] EXCEPT !.left = l, !.expired = e]
    BY DEF Spend
  <2> HIDE DEF l, e
  <2>3. /\ mandate'[k].left = l
        /\ mandate'[k].useLeft = mandate[k].useLeft
        /\ mandate'[k].granted = mandate[k].granted
    BY <2>1, <2>2 DEF MandateRecord
  <2>4. QED
    BY <2>3 DEF l
<1>2. QED
  BY <1>1 DEF SameLimit

\* A mandate that is not used up has a trade left.
LEMMA NotUsedUp ==
  ASSUME TypeOK, NEW m \in Mandates, NEW over, ~UsedUp(m, over), mandate[m].useLeft
  PROVE  mandate[m].left > 0
<1>1. mandate[m].left \in Int
  BY DEF TypeOK, MandateRecord
<1>2. QED
  BY <1>1 DEF UsedUp

-----------------------------------------------------------------------------
(***************************************************************************)
(* Mandates: the actions.                                                  *)
(***************************************************************************)
LEMMA PricesStay ==
  ASSUME \A t \in Trades : trade'[t].price = trade[t].price
  PROVE  \A m \in Mandates : SamePublished(m)
  BY DEF SamePublished, PublishedBy

LEMMA MandatesAlone ==
  ASSUME Limited, UNCHANGED mandateVars, \A m \in Mandates : SamePublished(m)
  PROVE  Limited'
<1>1. NoneAppears /\ \A m \in Mandates : SameLimit(m)
  BY DEF mandateVars, NoneAppears, SameLimit
<1>2. QED
  BY <1>1, LimitedStay

LEMMA GrantLimited ==
  ASSUME Inv, Limited, NEW m \in Mandates, Grant(m)
  PROVE  Limited'
<1>1. PICK y \in BidTypes, n \in 1 .. MaxTradesLeft, limits \in Limits :
        LET left == IF limits = {} THEN 1 ELSE n
        IN mandate' = [mandate EXCEPT ![m] =
             [type |-> y, useLeft |-> limits # {"time"}, left |-> left,
              useUntil |-> "time" \in limits, expired |-> FALSE, granted |-> left]]
  BY DEF Grant
<1> DEFINE left == IF limits = {} THEN 1 ELSE n
           r == [type |-> y, useLeft |-> limits # {"time"}, left |-> left,
                 useUntil |-> "time" \in limits, expired |-> FALSE, granted |-> left]
<1>2. left \in Nat /\ left > 0
  BY ActivitiesAssumption
<1>3. mandate' = [mandate EXCEPT ![m] = r]
  BY <1>1
<1> HIDE DEF left
<1>4. r.left = left /\ r.granted = left
  OBVIOUS
<1> HIDE DEF r
<1>5. mandate'[m] = r /\ \A k \in Mandates \ {m} : SameLimit(k)
  BY <1>3 DEF Inv, TypeOK, SameLimit
<1>6. \A k \in Mandates : SamePublished(k)
  BY PricesStay DEF Grant
<1>7. PublishedBy(m) = {}
  BY DEF Grant, Limited, Ungranted
<1>8. MandateLimit'
  <2>1. LimitOf(m)'
    <3>1. Cardinality(PublishedBy(m)') = 0
      BY <1>6, <1>7, FS_EmptySet DEF SamePublished
    <3>2. mandate'[m].left = left /\ mandate'[m].granted = left
      BY <1>4, <1>5
    <3>3. QED
      BY <1>2, <3>1, <3>2 DEF LimitOf
  <2>2. \A k \in Mandates : LimitOf(k)'
    BY <1>5, <1>6, <2>1, LimitStays, LimitParts DEF Limited
  <2>3. QED
    BY <2>2, LimitPartsNext
<1>9. Ungranted'
  <2>1. ASSUME NEW k \in Mandates, mandate'[k].granted = 0
        PROVE  k # m /\ mandate[k].granted = 0
    BY <1>2, <1>4, <1>5, <2>1 DEF SameLimit
  <2>2. mandates' = mandates \cup {m} /\ entering' = entering \cup {m}
        /\ UNCHANGED <<todo, looking>>
    BY DEF Grant
  <2>3. QED
    BY <1>6, <2>1, <2>2 DEF Limited, Ungranted, SamePublished
<1>10. QED
  BY <1>8, <1>9 DEF Limited

LEMMA ListLimited ==
  ASSUME Inv, Limited, NEW m \in Mandates, List(m) \/ Revoke(m)
  PROVE  Limited'
<1>1. CASE Revoke(m)
  <2>1. NoneAppears /\ \A k \in Mandates : SameLimit(k)
    BY <1>1 DEF Revoke, NoneAppears, SameLimit
  <2>2. \A k \in Mandates : SamePublished(k)
    BY <1>1, PricesStay DEF Revoke
  <2>3. QED
    BY <2>1, <2>2, LimitedStay
<1>2. CASE List(m)
  <2>1. mandate[m].granted # 0
    BY <1>2 DEF List, Limited, Ungranted
  <2>2. \A k \in Mandates : SameLimit(k) /\ SamePublished(k)
    BY <1>2, PricesStay DEF List, SameLimit
  <2>3. MandateLimit'
    <3>1. \A k \in Mandates : LimitOf(k)'
      BY <2>2, LimitStays, LimitParts DEF Limited
    <3>2. QED
      BY <3>1, LimitPartsNext
  <2>4. Ungranted'
    <3>1. ASSUME NEW k \in Mandates, mandate'[k].granted = 0
          PROVE  k # m /\ mandate[k].granted = 0 /\ todo'[k] = todo[k]
      BY <1>2, <2>1, <2>2, <3>1 DEF SameLimit, List, Inv, TypeOK
    <3>2. QED
      BY <1>2, <2>2, <3>1 DEF List, Limited, Ungranted, SamePublished
  <2>5. QED
    BY <2>3, <2>4 DEF Limited
<1>3. QED
  BY <1>1, <1>2

LEMMA LookLimited ==
  ASSUME Inv, Limited, NEW m \in Mandates, NEW t \in Trades, Look(m, t)
  PROVE  Limited'
<1>1. mandate[m].granted # 0
  BY DEF Look, Limited, Ungranted
<1>2. \A k \in Mandates : SameLimit(k) /\ SamePublished(k)
  BY PricesStay DEF Look, SameLimit
<1>3. MandateLimit'
  <2>1. \A k \in Mandates : LimitOf(k)'
    BY <1>2, LimitStays, LimitParts DEF Limited
  <2>2. QED
    BY <2>1, LimitPartsNext
<1>4. Ungranted'
  <2>1. ASSUME NEW k \in Mandates, mandate'[k].granted = 0
        PROVE  k # m /\ mandate[k].granted = 0 /\ todo'[k] = todo[k] /\ looking'[k] = looking[k]
    BY <1>1, <1>2, <2>1 DEF SameLimit, Look, Inv, TypeOK
  <2>2. QED
    BY <1>2, <2>1 DEF Look, Limited, Ungranted, SamePublished
<1>5. QED
  BY <1>3, <1>4 DEF Limited

LEMMA ApplyLimited ==
  ASSUME Inv, Limited, NEW m \in Mandates, NEW t \in Trades, Apply(m, t)
  PROVE  Limited'
<1>1. NoneAppears
  BY DEF Apply, NoneAppears, Inv, TypeOK
<1>2. CASE \E used : UNCHANGED trade /\ Expire(used)
  <2>1. \A k \in Mandates : SameLimit(k) /\ SamePublished(k)
    BY <1>2, ExpireKeeps, PricesStay DEF Inv
  <2>2. QED
    BY <1>1, <2>1, LimitedStay
<1>3. CASE /\ ~UsedUp(m, FALSE) /\ MayPublish(t)
           /\ trade' = [trade EXCEPT ![t] = WithPrice(t, m)]
           /\ Spend(m, {})
  <2>1. trade[t].price = NoPrice
    BY <1>3, AwaitingIsOpen DEF MayPublish
  <2>2. WithPrice(t, m).price = m
    BY DEF WithPrice, Inv, TypeOK, TradeRecord
  <2>3. trade'[t].price = m /\ \A u \in Trades \ {t} : trade'[u] = trade[u]
    BY <1>3, <2>2 DEF Inv, TypeOK
  <2>4. Publishes(m, t)
    BY <1>3, <2>1, <2>3, SpendCounts DEF Publishes, Inv
  <2>5. mandate[m].granted # 0
    BY DEF Apply, Limited, Ungranted
  <2>6. mandate[m].useLeft => mandate[m].left > 0
    BY <1>3, NotUsedUp DEF Inv
  <2>7. QED
    BY <1>1, <2>4, <2>5, <2>6, LimitedSpent DEF Inv
<1>4. QED
  BY <1>2, <1>3 DEF Apply

LEMMA TriedLimited ==
  ASSUME Inv, Limited, NEW t \in Trades, pc[t] = "new",
         NEW r \in TradeRecord, r.price = NoPrice,
         NEW over, TryMandates(t, r, over), UNCHANGED <<entering, todo, looking>>
  PROVE  Limited'
<1>1. trade[t].price = NoPrice
  BY DEF Inv, Fresh, NewTrade
<1>2. NoneAppears
  BY DEF TryMandates, NoneAppears
<1> DEFINE used(ms) == {m \in ms : AppliesTo(m, t) /\ UsedUp(m, m \in over)}
           publishers == {m \in mandates : AppliesTo(m, t) /\ m \notin used(mandates)
                                           /\ ~r.localOnly}
<1>3. CASE trade' = [trade EXCEPT ![t] = r] /\ Expire(used(mandates))
  <2>1. \A u \in Trades : trade'[u].price = trade[u].price
    BY <1>1, <1>3 DEF Inv, TypeOK
  <2> HIDE DEF used
  <2>2. \A k \in Mandates : SameLimit(k) /\ SamePublished(k)
    BY <1>3, <2>1, ExpireKeeps, PricesStay DEF Inv
  <2>3. QED
    BY <1>2, <2>2, LimitedStay
<1>4. ASSUME NEW m \in publishers, NEW tried,
             trade' = [trade EXCEPT ![t] = [r EXCEPT !.price = m, !.awaiting = FALSE]],
             Spend(m, used(tried))
      PROVE  Limited'
  <2>1. m \in Mandates /\ m \in mandates /\ ~UsedUp(m, m \in over)
    BY DEF Inv, TypeOK
  <2> DEFINE q == [r EXCEPT !.price = m, !.awaiting = FALSE]
  <2>2. q.price = m
    BY DEF TradeRecord
  <2>3. trade' = [trade EXCEPT ![t] = q]
    BY <1>4
  <2> HIDE DEF q, used, publishers
  <2>4. trade'[t].price = m /\ \A u \in Trades \ {t} : trade'[u] = trade[u]
    BY <2>2, <2>3 DEF Inv, TypeOK
  <2>5. Publishes(m, t)
    BY <1>1, <1>4, <2>1, <2>4, SpendCounts DEF Publishes, Inv
  <2>6. mandate[m].granted # 0
    BY <2>1 DEF Limited, Ungranted
  <2>7. mandate[m].useLeft => mandate[m].left > 0
    BY <2>1, NotUsedUp DEF Inv
  <2>8. QED
    BY <1>2, <2>1, <2>5, <2>6, <2>7, LimitedSpent DEF Inv
<1>5. QED
  BY <1>3, <1>4 DEF TryMandates

LEMMA RegisterLimited ==
  ASSUME Inv, Limited, NEW t \in Trades, pc[t] = "new",
         NEW r \in TradeRecord, r.price = NoPrice,
         NEW skipMandates, Register(t, r, skipMandates)
  PROVE  Limited'
<1>1. UNCHANGED <<entering, todo, looking>>
  BY DEF Register
<1>2. trade[t].price = NoPrice
  BY DEF Inv, Fresh, NewTrade
<1>3. ASSUME UNCHANGED <<mandate, mandates>>,
             \A u \in Trades : trade'[u].price = trade[u].price
      PROVE  Limited'
  BY <1>1, <1>3, PricesStay, MandatesAlone DEF mandateVars
<1>4. ASSUME NEW u \in Candidates(t), trade' = MatchedWith(t, r, u),
             UNCHANGED <<mandate, mandates>>
      PROVE  Limited'
  <2> DEFINE rt == [r EXCEPT !.match = u, !.awaiting = FALSE]
             ru == [trade[u] EXCEPT !.match = t, !.awaiting = FALSE]
  <2>1. u \in Trades \ {t}
    BY DEF Candidates, Inv, TypeOK
  <2>2. rt.price = NoPrice /\ ru.price = trade[u].price
    BY <2>1 DEF TradeRecord, Inv, TypeOK
  <2>3. trade' = [[trade EXCEPT ![t] = rt] EXCEPT ![u] = ru]
    BY <1>4, <2>1 DEF MatchedWith, Inv, TypeOK
  <2> HIDE DEF rt, ru
  <2>4. \A v \in Trades : trade'[v].price = trade[v].price
    BY <1>2, <2>1, <2>2, <2>3 DEF Inv, TypeOK
  <2>5. QED
    BY <1>3, <1>4, <2>4
<1>5. ASSUME trade' = [trade EXCEPT ![t] = r], UNCHANGED <<mandate, mandates>>
      PROVE  Limited'
  <2>1. \A v \in Trades : trade'[v].price = trade[v].price
    BY <1>2, <1>5 DEF Inv, TypeOK
  <2>2. QED
    BY <1>3, <1>5, <2>1
<1>6. ASSUME NEW over, TryMandates(t, r, over)
      PROVE  Limited'
  BY <1>1, <1>6, TriedLimited
<1>7. QED
  BY <1>4, <1>5, <1>6 DEF Register

LEMMA PublishLimited ==
  ASSUME Inv, Limited, NEW b \in Buys, Publish(b)
  PROVE  Limited'
<1>1. b \in Trades /\ UNCHANGED mandateVars
  BY DEF Publish, Trades
<1>2. CASE MayPublish(b) /\ trade' = [trade EXCEPT ![b] = WithPrice(b, Requested)]
  <2>1. trade[b].price = NoPrice
    BY <1>1, <1>2, AwaitingIsOpen DEF MayPublish
  <2>2. WithPrice(b, Requested).price = Requested
    BY <1>1 DEF WithPrice, Inv, TypeOK, TradeRecord
  <2>3. trade'[b].price = Requested /\ \A u \in Trades \ {b} : trade'[u] = trade[u]
    BY <1>1, <1>2, <2>2 DEF Inv, TypeOK
  <2>4. \A m \in Mandates : SamePublished(m)
    BY <2>1, <2>3, ActivitiesAssumption DEF SamePublished, PublishedBy
  <2>5. QED
    BY <1>1, <2>4, MandatesAlone
<1>3. CASE UNCHANGED trade
  BY <1>1, <1>3, PricesStay, MandatesAlone
<1>4. QED
  BY <1>2, <1>3 DEF Publish

LEMMA LimitedKept ==
  ASSUME Inv, Limited, [Next]_vars
  PROVE  Limited'
<1>1. ASSUME NEW t \in Trades, SameClearance(t), UNCHANGED mandateVars
      PROVE  Limited'
  <2>1. \A u \in Trades : trade'[u].price = trade[u].price
    BY <1>1 DEF SameClearance
  <2>2. QED
    BY <1>1, <2>1, PricesStay, MandatesAlone
<1>2. ASSUME NEW t \in Trades, Step(t)
      PROVE  Limited'
  <2>1. CASE t \in Buys /\ Publish(t)
    BY <2>1, PublishLimited
  <2>2. CASE AwaitClearance(t) \/ LocalBuy(t) \/ TakeWork(t) \/ DoWork(t)
             \/ OfferResult(t) \/ End(t) \/ EndTransaction(t)
    <3>1. UNCHANGED mandateVars
      BY <2>2 DEF Alone, AwaitClearance, LocalBuy, TakeWork, DoWork, OfferResult,
         End, EndTransaction
    <3>2. QED
      BY <1>1, <2>2, <3>1, LocalUncleared DEF Uncleared
  <2>3. CASE \/ t \in Buys /\ (Upload(t) \/ TakeTransmissionToken(t) \/ Transmit(t))
             \/ TakeUnmatchedToken(t) \/ PlaceBid(t) \/ AwaitTransaction(t)
             \/ ReturnUnmatchedToken(t) \/ Close(t)
    <3>1. UNCHANGED mandateVars
      BY <2>3 DEF Upload, TakeTransmissionToken, Transmit, TakeUnmatchedToken,
         PlaceBid, AwaitTransaction, ReturnUnmatchedToken, Close
    <3>2. QED
      BY <1>1, <2>3, <3>1, RemoteUncleared DEF Uncleared
  <2>4. CASE Dispose(t)
    BY <1>1, <2>4, DisposeUncleared DEF Dispose
  <2>5. QED
    BY <1>2, <2>1, <2>2, <2>3, <2>4 DEF Step
<1>3. ASSUME NEW m \in Mandates, MandateStep(m)
      PROVE  Limited'
  BY <1>3, GrantLimited, ListLimited, LookLimited, ApplyLimited DEF MandateStep
<1>4. ASSUME NEW b \in Buys, NEW priced \in BOOLEAN, NewBuy(b, priced)
      PROVE  Limited'
  <2>1. NewTrade.price = NoPrice
    BY DEF NewTrade
  <2>2. QED
    BY <1>4, <2>1, NewTradeTyped, RegisterLimited DEF NewBuy, Trades
<1>5. ASSUME NEW s \in Sells, NEW localOnly \in BOOLEAN, NewSell(s, localOnly)
      PROVE  Limited'
  <2> DEFINE r == [NewTrade EXCEPT !.localOnly = localOnly]
  <2>1. r \in TradeRecord /\ r.price = NoPrice
    BY NewTradeTyped DEF NewTrade, TradeRecord
  <2>2. Register(s, r, FALSE) /\ pc[s] = "new" /\ s \in Trades
    BY <1>5 DEF NewSell, Trades
  <2> HIDE DEF r
  <2>3. QED
    BY <2>1, <2>2, RegisterLimited
<1>6. ASSUME NEW t \in Trades, HangUp(t) \/ Resolve(t) \/ Revive(t)
      PROVE  Limited'
  BY <1>6, PricesStay, MandatesAlone DEF HangUp, Resolve, Revive
<1>7. CASE UNCHANGED vars
  BY <1>7, PricesStay, MandatesAlone DEF vars
<1>8. QED
  BY <1>2, <1>3, <1>4, <1>5, <1>6, <1>7 DEF Next

(***************************************************************************)
(* A mandate publishes the trades it counts and no more than it was granted*)
(* if it is limited in trades, though register and RegisterMandate, which  *)
(* lists first and applies later, both use it.                             *)
(***************************************************************************)
THEOREM MandatesAlwaysLimited == Spec => []MandateLimit
<1>1. Init => Limited
  BY LimitedInitially
<1>2. Inv /\ Limited /\ [Next]_vars => Limited'
  BY LimitedKept
<1>3. Limited => MandateLimit
  BY DEF Limited
<1>4. QED
  BY <1>1, <1>2, <1>3, Invariance, PTL DEF Spec

-----------------------------------------------------------------------------
(***************************************************************************)
(* Files.  What a trade has of its own at each point of its way (OwnFiles),*)
(* and how a matched trade that was not interrupted has left the steps of a*)
(* local trade: with the other side done, or with nothing to hand over     *)
(* (LetGo).  Without the two, FilesHeld does not survive the step in which *)
(* the other side takes the file.                                          *)
(***************************************************************************)
Early == {"new", "pricing", "uploading", "clearance"}
Serving == Early \cup LocalSteps

OwnFiles(t) ==
  /\ pc[t] \in Serving => trade[t].alive
  /\ trade[t].awaiting => pc[t] \in Early \/ t \in hung \/ t \in uploadFailed
  /\ t \in uploadFailed => trade[t].work = "none" /\ pc[t] \in {"disposing", "gone"}
  /\ t \in activities => pc[t] # "gone"

BuyFiles(t) ==
  /\ pc[t] \in {"new", "pricing", "uploading"} => trade[t].work = "none"
  /\ pc[t] \in Early \cup {"local"} => trade[t].result = "none"
  /\ trade[t].match = NoTrade => trade[t].result = "none"
  /\ pc[t] # "gone" => trade[t].work # "gone"

SellFiles(t) ==
  /\ pc[t] \in Early \cup {"local"} => trade[t].work = "none"
  /\ pc[t] \in Early \cup {"local", "working"} => trade[t].result = "none"
  /\ trade[t].match = NoTrade => trade[t].work = "none"
  /\ pc[t] # "gone" => trade[t].result # "gone"

LetGo(t) ==
  trade[t].match # NoTrade /\ t \notin hung /\ pc[t] \notin Serving =>
    LET other == trade[trade[t].match] IN
    IF t \in Buys THEN t \in uploadFailed \/ SellDone(other)
                  ELSE trade[t].result = "none" \/ BuyDone(other)

Held(t) ==
  LET u == trade[t].match IN
  (u # NoTrade /\ u \notin hung /\ pc[t] # "gone")
    => trade[t].work # "gone" /\ trade[t].result # "gone"

FilesOf(t) ==
  /\ OwnFiles(t)
  /\ t \in Buys => BuyFiles(t)
  /\ t \in Sells => SellFiles(t)
  /\ LetGo(t) /\ Held(t)

Files == \A t \in Trades : FilesOf(t)

LEMMA SideOf == \A t \in Trades : (t \in Buys \/ t \in Sells) /\ ~(t \in Buys /\ t \in Sells)
  BY ActivitiesAssumption DEF Trades

LEMMA FilesInitially == Init => Files
<1> SUFFICES ASSUME Init, NEW t \in Trades PROVE FilesOf(t)
  BY DEF Files
<1>1. pc[t] = "new" /\ trade[t] = NewTrade /\ activities = {} /\ uploadFailed = {}
  BY DEF Init
<1>2. QED
  BY <1>1 DEF FilesOf, OwnFiles, BuyFiles, SellFiles, LetGo, Held, NewTrade,
     Serving, Early, LocalSteps

\* The other side of a matched trade is matched with it.
LEMMA Mutual ==
  ASSUME Inv, NEW t \in Trades, trade[t].match # NoTrade
  PROVE  LET u == trade[t].match IN
         /\ u \in Trades /\ u # t /\ trade[u].match = t
         /\ t \in Buys <=> u \in Sells
<1>1. trade[t].match \in Trades
  BY DEF Inv, TypeOK, TradeRecord
<1>2. trade[trade[t].match].match = t /\ Type(trade[t].match) # Type(t)
  BY <1>1 DEF Inv, ClearedOnce
<1>3. QED
  BY <1>1, <1>2, SideOf DEF Type

\* What the other side waits for stays so.
Faithful(t) ==
  /\ ~trade[t].alive => ~trade'[t].alive
  /\ trade[t].result # "none" => trade'[t].result # "none"

LEMMA LetGoStays ==
  ASSUME Inv, NEW u \in Trades, LetGo(u),
         trade'[u].match = trade[u].match,
         trade[u].result = "none" => trade'[u].result = "none",
         pc'[u] \in Serving <=> pc[u] \in Serving,
         hung \subseteq hung', uploadFailed \subseteq uploadFailed',
         trade[u].match # NoTrade => Faithful(trade[u].match)
  PROVE  LetGo(u)'
<1>1. CASE trade[u].match # NoTrade
  <2> DEFINE v == trade[u].match
  <2>1. SellDone(trade[v]) => SellDone(trade'[v])
    BY <1>1 DEF SellDone, Faithful
  <2>2. BuyDone(trade[v]) => BuyDone(trade'[v])
    BY <1>1 DEF BuyDone, Faithful
  <2>3. QED
    BY <1>1, <2>1, <2>2 DEF LetGo
<1>2. CASE trade[u].match = NoTrade
  BY <1>2 DEF LetGo
<1>3. QED
  BY <1>1, <1>2

\* A step of trade t after which only t has to be looked at.
LEMMA FilesStep ==
  ASSUME Inv, Files, NEW t \in Trades, Uncleared(t), Faithful(t),
         hung' = hung, uploadFailed' \ {t} = uploadFailed \ {t},
         uploadFailed \subseteq uploadFailed', activities' \subseteq activities,
         FilesOf(t)'
  PROVE  Files'
<1>1. ASSUME NEW u \in Trades \ {t}
      PROVE  FilesOf(u)'
  <2>1. trade'[u] = trade[u] /\ pc'[u] = pc[u] /\ (u \in uploadFailed' <=> u \in uploadFailed)
    BY DEF Uncleared, SameClearance, Moved
  <2>2. FilesOf(u)
    BY DEF Files
  <2>3. OwnFiles(u)' /\ (u \in Buys => BuyFiles(u)') /\ (u \in Sells => SellFiles(u)')
        /\ Held(u)'
    BY <2>1, <2>2 DEF FilesOf, OwnFiles, BuyFiles, SellFiles, Held
  <2>4. trade[u].match # NoTrade => Faithful(trade[u].match)
    <3>1. ASSUME trade[u].match # NoTrade, trade[u].match # t
          PROVE  Faithful(trade[u].match)
      BY <3>1, Mutual DEF Faithful, Uncleared, SameClearance
    <3>2. QED
      BY <3>1
  <2>5. LetGo(u)'
    BY <2>1, <2>2, <2>4, LetGoStays DEF FilesOf
  <2>6. QED
    BY <2>3, <2>5 DEF FilesOf
<1>2. QED
  BY <1>1 DEF Files

\* The other side does not change with t.
LEMMA OtherFaithful ==
  ASSUME Inv, NEW t \in Trades, SameClearance(t), trade[t].match # NoTrade
  PROVE  trade'[trade[t].match] = trade[trade[t].match] /\ Faithful(trade[t].match)
  BY Mutual DEF SameClearance, Faithful

\* One field of a trade.
SameFiles(t) ==
  /\ trade'[t].work = trade[t].work /\ trade'[t].result = trade[t].result
  /\ trade'[t].alive = trade[t].alive

LEMMA FieldSet ==
  ASSUME TypeOK, NEW t \in Trades, NEW f
  PROVE  /\ trade' = [trade EXCEPT ![t].work = f] =>
              /\ trade'[t].work = f
              /\ trade'[t].result = trade[t].result /\ trade'[t].alive = trade[t].alive
         /\ trade' = [trade EXCEPT ![t].result = f] =>
              /\ trade'[t].result = f
              /\ trade'[t].work = trade[t].work /\ trade'[t].alive = trade[t].alive
         /\ trade' = [trade EXCEPT ![t].alive = f] =>
              /\ trade'[t].alive = f
              /\ trade'[t].work = trade[t].work /\ trade'[t].result = trade[t].result
         /\ trade' = [trade EXCEPT ![t].transmitting = f] => SameFiles(t)
<1>1. trade[t] \in TradeRecord /\ trade \in [Trades -> TradeRecord]
  BY DEF TypeOK
<1> DEFINE w == [trade[t] EXCEPT !.work = f]
           x == [trade[t] EXCEPT !.result = f]
           a == [trade[t] EXCEPT !.alive = f]
           m == [trade[t] EXCEPT !.transmitting = f]
<1>2. /\ w.work = f /\ w.result = trade[t].result /\ w.alive = trade[t].alive
      /\ x.result = f /\ x.work = trade[t].work /\ x.alive = trade[t].alive
      /\ a.alive = f /\ a.work = trade[t].work /\ a.result = trade[t].result
      /\ m.work = trade[t].work /\ m.result = trade[t].result /\ m.alive = trade[t].alive
  BY <1>1 DEF TradeRecord
<1>3. /\ trade' = [trade EXCEPT ![t].work = f] => trade'[t] = w
      /\ trade' = [trade EXCEPT ![t].result = f] => trade'[t] = x
      /\ trade' = [trade EXCEPT ![t].alive = f] => trade'[t] = a
      /\ trade' = [trade EXCEPT ![t].transmitting = f] => trade'[t] = m
  BY <1>1
<1> HIDE DEF w, x, a, m
<1>4. QED
  BY <1>2, <1>3 DEF SameFiles

-----------------------------------------------------------------------------
(***************************************************************************)
(* Files: the steps of a trade on its own way.                             *)
(***************************************************************************)
\* Steps of a remote trade.
LEMMA RemoteFiles ==
  ASSUME Inv, Files, NEW t \in Trades,
         \/ t \in Buys /\ (TakeTransmissionToken(t) \/ Transmit(t))
         \/ TakeUnmatchedToken(t) \/ PlaceBid(t) \/ AwaitTransaction(t)
         \/ ReturnUnmatchedToken(t) \/ EndTransaction(t) \/ Close(t)
  PROVE  Files'
<1>1. Uncleared(t)
  BY LocalUncleared, RemoteUncleared
<1>2. UNCHANGED <<activities, hung, uploadFailed>>
  BY DEF TakeTransmissionToken, Transmit, TakeUnmatchedToken, PlaceBid,
     AwaitTransaction, ReturnUnmatchedToken, EndTransaction, Close, Alone,
     registry, netVars
<1>3. SameFiles(t)
  <2>1. UNCHANGED trade \/ \E f : trade' = [trade EXCEPT ![t].transmitting = f]
    BY DEF TakeTransmissionToken, Transmit, TakeUnmatchedToken, PlaceBid,
       AwaitTransaction, ReturnUnmatchedToken, EndTransaction, Close,
       ReturnTransmissionToken
  <2>2. QED
    BY <2>1, FieldSet DEF SameFiles, Inv
<1>4. pc[t] \in Steps \ (Serving \cup {"disposing", "gone"})
  BY DEF TakeTransmissionToken, Transmit, TakeUnmatchedToken, PlaceBid,
     AwaitTransaction, ReturnUnmatchedToken, EndTransaction, Close,
     Steps, Serving, Early, LocalSteps
<1>5. pc'[t] \in Steps \ (Serving \cup {"disposing", "gone"})
  <2>1. \E step \in Steps \ (Serving \cup {"disposing", "gone"}) : Goto(t, step)
    BY DEF TakeTransmissionToken, Transmit, TakeUnmatchedToken, PlaceBid,
       AwaitTransaction, ReturnUnmatchedToken, EndTransaction, Close,
       Steps, Serving, Early, LocalSteps
  <2>2. QED
    BY <2>1, GoesTo DEF Advances, Inv
<1>6. FilesOf(t)
  BY DEF Files
<1>7. LetGo(t)'
  BY <1>1, <1>2, <1>3, <1>4, <1>5, <1>6, OtherFaithful, LetGoStays
  DEF FilesOf, Uncleared, SameClearance, SameFiles
<1>8. /\ OwnFiles(t)' /\ (t \in Buys => BuyFiles(t)') /\ (t \in Sells => SellFiles(t)')
      /\ Held(t)'
  BY <1>1, <1>2, <1>3, <1>4, <1>5, <1>6
  DEF FilesOf, OwnFiles, BuyFiles, SellFiles, Held, Uncleared, SameClearance,
      SameFiles, Serving, Early, LocalSteps
<1>9. QED
  BY <1>1, <1>2, <1>3, <1>7, <1>8, FilesStep DEF FilesOf, Faithful, SameFiles

LEMMA UploadFiles ==
  ASSUME Inv, Files, NEW b \in Buys, Upload(b)
  PROVE  Files'
<1>1. b \in Trades /\ Uncleared(b) /\ pc[b] = "uploading"
  BY RemoteUncleared DEF Upload, Trades
<1>2. UNCHANGED <<activities, hung>>
  BY DEF Upload, registry
<1>3. FilesOf(b) /\ BuyFiles(b) /\ trade[b].work = "none" /\ trade[b].result = "none"
      /\ trade[b].alive
  BY <1>1 DEF Files, FilesOf, OwnFiles, BuyFiles, Serving, Early
<1>4. CASE /\ trade' = [trade EXCEPT ![b].work = "file"]
           /\ Goto(b, "clearance")
           /\ UNCHANGED uploadFailed
  <2>1. /\ trade'[b].work = "file" /\ trade'[b].result = "none" /\ trade'[b].alive
        /\ pc'[b] = "clearance"
    BY <1>1, <1>3, <1>4, FieldSet, GoesTo DEF Inv, Advances
  <2>2. FilesOf(b)'
    BY <1>1, <1>2, <1>3, <1>4, <2>1, SideOf
    DEF FilesOf, OwnFiles, BuyFiles, LetGo, Held, Uncleared, SameClearance,
        Serving, Early, LocalSteps
  <2>3. QED
    BY <1>1, <1>2, <1>3, <1>4, <2>1, <2>2, FilesStep DEF Faithful
<1>5. CASE /\ Goto(b, "disposing")
           /\ uploadFailed' = uploadFailed \cup {b}
           /\ UNCHANGED trade
  <2>1. pc'[b] = "disposing"
    BY <1>1, <1>5, GoesTo DEF Inv, Advances
  <2>2. FilesOf(b)'
    BY <1>1, <1>2, <1>3, <1>5, <2>1, SideOf
    DEF FilesOf, OwnFiles, BuyFiles, LetGo, Held, Uncleared, SameClearance,
        Serving, Early, LocalSteps
  <2>3. QED
    BY <1>1, <1>2, <1>3, <1>5, <2>1, <2>2, FilesStep DEF Faithful
<1>6. QED
  BY <1>4, <1>5 DEF Upload

LEMMA ClearanceFiles ==
  ASSUME Inv, Files, NEW t \in Trades, AwaitClearance(t)
  PROVE  Files'
<1>1. Uncleared(t) /\ pc[t] = "clearance"
  BY LocalUncleared DEF AwaitClearance
<1>2. UNCHANGED <<trade, activities, hung, uploadFailed>>
  BY DEF AwaitClearance, Alone, registry, netVars
<1>3. \/ pc'[t] = "local" /\ ~trade[t].awaiting
      \/ pc'[t] = "unmatched" /\ ~trade[t].awaiting /\ trade[t].match = NoTrade
      \/ pc'[t] = "ending" /\ t \in hung
  <2>1. \/ Goto(t, "local") /\ ~trade[t].awaiting
        \/ Goto(t, "unmatched") /\ ~trade[t].awaiting /\ trade[t].match = NoTrade
        \/ Goto(t, "ending") /\ t \in hung
    BY DEF AwaitClearance
  <2>2. QED
    BY <2>1, GoesTo DEF Advances, Inv
<1>4. FilesOf(t)
  BY DEF Files
<1>5. FilesOf(t)'
  BY <1>1, <1>2, <1>3, <1>4
  DEF FilesOf, OwnFiles, BuyFiles, SellFiles, LetGo, Held, Serving, Early, LocalSteps
<1>6. QED
  BY <1>1, <1>2, <1>5, FilesStep DEF Faithful

\* The buy takes the result of the sell, which was not disposed of: the sell
\* was still there, or it had let go of a result that the buy had taken.
LEMMA LocalBuyFiles ==
  ASSUME Inv, Files, NEW b \in Buys, LocalBuy(b)
  PROVE  Files'
<1>1. b \in Trades /\ Uncleared(b) /\ pc[b] = "local"
  BY LocalUncleared DEF LocalBuy, Trades
<1> DEFINE s == trade[b].match
<1>2. s # NoTrade /\ s \in Trades /\ s # b /\ trade[s].match = b /\ s \in Sells
  BY <1>1, Mutual DEF Inv, Fresh, LocalSteps
<1>3. UNCHANGED <<activities, hung, uploadFailed>>
  BY DEF LocalBuy, Alone, registry, netVars
<1>4. pc'[b] = "ending"
  BY <1>1, GoesTo DEF LocalBuy, Advances, Inv
<1>5. FilesOf(b) /\ trade[b].result = "none" /\ trade[b].alive /\ trade[b].work # "gone"
      /\ ~(trade[b].awaiting) /\ b \notin uploadFailed
  BY <1>1, <1>2 DEF Files, FilesOf, OwnFiles, BuyFiles, Serving, Early, LocalSteps,
     Inv, ClearedOnce
<1>6. trade'[s] = trade[s] /\ trade'[b].match = s /\ trade'[b].awaiting = trade[b].awaiting
  BY <1>1, <1>2 DEF Uncleared, SameClearance
<1> HIDE DEF s
<1>7. CASE SellDone(trade[s]) /\ trade' = [trade EXCEPT ![b].result = trade[s].result]
  <2>1. /\ trade'[b].result = trade[s].result
        /\ trade'[b].work = trade[b].work /\ trade'[b].alive = trade[b].alive
    BY <1>1, <1>7, FieldSet DEF Inv
  <2>2. s \notin hung => trade[s].result # "gone"
    <3>1. FilesOf(s) /\ SellFiles(s) /\ LetGo(s)
      BY <1>2 DEF Files, FilesOf
    <3>2. ~BuyDone(trade[b])
      BY <1>5 DEF BuyDone
    <3>3. QED
      BY <1>1, <1>2, <3>1, <3>2, SideOf, ActivitiesAssumption
      DEF SellFiles, LetGo, Serving, Early, LocalSteps
  <2>3. SellDone(trade'[s])
    BY <1>6, <1>7
  <2>4. LetGo(b)' /\ Held(b)' /\ OwnFiles(b)' /\ BuyFiles(b)'
    BY <1>2, <1>3, <1>4, <1>5, <1>6, <2>1, <2>2, <2>3
    DEF LetGo, Held, OwnFiles, BuyFiles, Serving, Early, LocalSteps
  <2>5. QED
    BY <1>1, <1>2, <1>3, <1>5, <2>1, <2>4, SideOf, FilesStep DEF FilesOf, Faithful
<1>8. CASE b \in hung /\ UNCHANGED trade
  <2>1. LetGo(b)' /\ Held(b)' /\ OwnFiles(b)' /\ BuyFiles(b)'
    BY <1>2, <1>3, <1>4, <1>5, <1>8
    DEF LetGo, Held, OwnFiles, BuyFiles, Serving, Early, LocalSteps
  <2>2. QED
    BY <1>1, <1>2, <1>3, <1>8, <2>1, SideOf, FilesStep DEF FilesOf, Faithful
<1>9. QED
  BY <1>7, <1>8 DEF LocalBuy, s

\* The sell takes the work of the buy, in the same way.
LEMMA TakeWorkFiles ==
  ASSUME Inv, Files, NEW s \in Sells, TakeWork(s)
  PROVE  Files'
<1>1. s \in Trades /\ Uncleared(s) /\ pc[s] = "local"
  BY LocalUncleared DEF TakeWork, Trades
<1> DEFINE b == trade[s].match
<1>2. b # NoTrade /\ b \in Trades /\ b # s /\ trade[b].match = s /\ b \in Buys
  BY <1>1, Mutual, SideOf DEF Inv, Fresh, LocalSteps
<1>3. UNCHANGED <<activities, hung, uploadFailed>>
  BY DEF TakeWork, Alone, registry, netVars
<1>4. /\ FilesOf(s) /\ trade[s].result = "none" /\ trade[s].work = "none" /\ trade[s].alive
      /\ ~(trade[s].awaiting) /\ s \notin uploadFailed
  BY <1>1, <1>2 DEF Files, FilesOf, OwnFiles, SellFiles, Serving, Early, LocalSteps,
     Inv, ClearedOnce
<1>5. trade'[b] = trade[b] /\ trade'[s].match = b /\ trade'[s].awaiting = trade[s].awaiting
  BY <1>1, <1>2 DEF Uncleared, SameClearance
<1> HIDE DEF b
<1>6. CASE /\ trade[b].work # "none"
           /\ trade' = [trade EXCEPT ![s].work = trade[b].work]
           /\ Goto(s, "working")
  <2>1. /\ trade'[s].work = trade[b].work
        /\ trade'[s].result = trade[s].result /\ trade'[s].alive = trade[s].alive
    BY <1>1, <1>6, FieldSet DEF Inv
  <2>2. b \notin hung => trade[b].work # "gone"
    <3>1. FilesOf(b) /\ BuyFiles(b) /\ LetGo(b) /\ OwnFiles(b)
      BY <1>2 DEF Files, FilesOf
    <3>2. ~SellDone(trade[s])
      BY <1>4 DEF SellDone
    <3>3. QED
      BY <1>1, <1>2, <1>6, <3>1, <3>2, ActivitiesAssumption
      DEF BuyFiles, OwnFiles, LetGo, Serving, Early, LocalSteps
  <2>3. pc'[s] = "working"
    BY <1>1, <1>6, GoesTo DEF Advances, Inv
  <2>4. LetGo(s)' /\ Held(s)' /\ OwnFiles(s)' /\ SellFiles(s)'
    BY <1>2, <1>3, <1>4, <1>5, <2>1, <2>2, <2>3
    DEF LetGo, Held, OwnFiles, SellFiles, Serving, Early, LocalSteps
  <2>5. QED
    BY <1>1, <1>2, <1>3, <1>4, <2>1, <2>4, SideOf, FilesStep DEF FilesOf, Faithful
<1>7. CASE Goto(s, "ending") /\ UNCHANGED trade
  <2>1. pc'[s] = "ending"
    BY <1>1, <1>7, GoesTo DEF Advances, Inv
  <2>2. LetGo(s)' /\ Held(s)' /\ OwnFiles(s)' /\ SellFiles(s)'
    BY <1>1, <1>2, <1>3, <1>4, <1>5, <1>7, <2>1, SideOf
    DEF LetGo, Held, OwnFiles, SellFiles, Serving, Early, LocalSteps
  <2>3. QED
    BY <1>1, <1>2, <1>3, <1>7, <2>2, SideOf, FilesStep DEF FilesOf, Faithful
<1>8. QED
  BY <1>6, <1>7 DEF TakeWork, b

LEMMA DoWorkFiles ==
  ASSUME Inv, Files, NEW s \in Sells, DoWork(s) \/ OfferResult(s)
  PROVE  Files'
<1>1. s \in Trades /\ Uncleared(s) /\ pc[s] \in {"working", "offering"}
  BY LocalUncleared DEF DoWork, OfferResult, Trades
<1>2. UNCHANGED <<activities, hung, uploadFailed>>
  BY DEF DoWork, OfferResult, Alone, registry, netVars
<1>3. trade[s].match # NoTrade
  BY <1>1 DEF Inv, Fresh, LocalSteps
<1>4. /\ FilesOf(s) /\ SellFiles(s) /\ OwnFiles(s) /\ trade[s].alive
      /\ ~(trade[s].awaiting) /\ s \notin uploadFailed
  BY <1>1, <1>3 DEF Files, FilesOf, OwnFiles, SellFiles, Serving, Early, LocalSteps,
     Inv, ClearedOnce
<1>5. trade'[s].match = trade[s].match /\ trade'[s].awaiting = trade[s].awaiting
      /\ trade'[trade[s].match] = trade[trade[s].match]
  BY <1>1, <1>3, OtherFaithful DEF Uncleared, SameClearance
<1>6. CASE /\ pc[s] = "working" /\ trade' = [trade EXCEPT ![s].result = "file"]
           /\ Goto(s, "offering")
  <2>1. /\ trade'[s].result = "file"
        /\ trade'[s].work = trade[s].work /\ trade'[s].alive = trade[s].alive
        /\ pc'[s] = "offering"
    BY <1>1, <1>6, FieldSet, GoesTo DEF Inv, Advances
  <2>2. LetGo(s)' /\ Held(s)' /\ OwnFiles(s)' /\ SellFiles(s)'
    BY <1>2, <1>3, <1>4, <1>5, <1>6, <2>1
    DEF FilesOf, LetGo, Held, OwnFiles, SellFiles, Serving, Early, LocalSteps
  <2>3. QED
    BY <1>1, <1>2, <1>4, <2>1, <2>2, SideOf, FilesStep DEF FilesOf, Faithful
<1>7. CASE /\ Goto(s, "ending") /\ UNCHANGED trade
           /\ \/ pc[s] = "working" \/ s \in hung \/ BuyDone(trade[trade[s].match])
  <2>1. pc'[s] = "ending"
    BY <1>1, <1>7, GoesTo DEF Advances, Inv
  <2>2. LetGo(s)' /\ Held(s)' /\ OwnFiles(s)' /\ SellFiles(s)'
    BY <1>1, <1>2, <1>3, <1>4, <1>5, <1>7, <2>1, SideOf
    DEF FilesOf, LetGo, Held, OwnFiles, SellFiles, Serving, Early, LocalSteps
  <2>3. QED
    BY <1>1, <1>2, <1>7, <2>2, SideOf, FilesStep DEF FilesOf, Faithful
<1>8. QED
  BY <1>6, <1>7 DEF DoWork, OfferResult

\* A trade dies, then disposes of its files.
LEMMA EndFiles ==
  ASSUME Inv, Files, NEW t \in Trades, End(t)
  PROVE  Files'
<1>1. Uncleared(t) /\ pc[t] = "ending" /\ FilesOf(t)
  BY LocalUncleared DEF End, Files
<1>2. UNCHANGED <<activities, hung, uploadFailed>>
  BY DEF End, Alone, registry, netVars
<1>3. /\ ~trade'[t].alive /\ pc'[t] = "disposing"
      /\ trade'[t].work = trade[t].work /\ trade'[t].result = trade[t].result
  BY FieldSet, GoesTo DEF End, Inv, Advances
<1>4. LetGo(t)'
  BY <1>1, <1>2, <1>3, OtherFaithful, LetGoStays
  DEF FilesOf, Uncleared, SameClearance, Serving, Early, LocalSteps
<1>5. /\ OwnFiles(t)' /\ (t \in Buys => BuyFiles(t)') /\ (t \in Sells => SellFiles(t)')
      /\ Held(t)'
  BY <1>1, <1>2, <1>3
  DEF FilesOf, OwnFiles, BuyFiles, SellFiles, Held, Uncleared, SameClearance,
      Serving, Early, LocalSteps
<1>6. QED
  BY <1>1, <1>2, <1>3, <1>4, <1>5, FilesStep DEF FilesOf, Faithful

LEMMA DisposeFiles ==
  ASSUME Inv, Files, NEW t \in Trades, Dispose(t)
  PROVE  Files'
<1>1. /\ SameClearance(t)
      /\ trade'[t].work = Disposed(trade[t].work)
      /\ trade'[t].result = Disposed(trade[t].result)
      /\ trade'[t].alive = trade[t].alive
  BY DisposeUncleared
<1>2. pc[t] = "disposing" /\ Advances(t, "gone") /\ activities' = activities \ {t}
      /\ UNCHANGED <<hung, uploadFailed>>
  BY GoesTo DEF Dispose, Inv, netVars
<1>3. Uncleared(t)
  BY <1>1, <1>2 DEF Uncleared, Moved, Advances, LocalSteps, Dispose, Goto, Inv, TypeOK, Steps
<1>4. FilesOf(t)
  BY DEF Files
<1>5. pc'[t] = "gone"
  BY <1>2 DEF Advances
<1>6. LetGo(t)'
  BY <1>1, <1>2, <1>4, <1>5, OtherFaithful, LetGoStays
  DEF FilesOf, SameClearance, Serving, Early, LocalSteps, Disposed
<1>7. /\ OwnFiles(t)' /\ (t \in Buys => BuyFiles(t)') /\ (t \in Sells => SellFiles(t)')
      /\ Held(t)'
  BY <1>1, <1>2, <1>4, <1>5
  DEF FilesOf, OwnFiles, BuyFiles, SellFiles, Held, SameClearance,
      Serving, Early, LocalSteps, Disposed
<1>8. Faithful(t)
  BY <1>1 DEF Faithful, Disposed
<1>9. QED
  BY <1>2, <1>3, <1>6, <1>7, <1>8, FilesStep DEF FilesOf

-----------------------------------------------------------------------------
(***************************************************************************)
(* Files: clearance, by which a trade that waits for it gets its other     *)
(* side while neither has any file that it has from the other.             *)
(***************************************************************************)
OnlyCleared(u) ==
  /\ SameFiles(u)
  /\ trade'[u].awaiting => trade[u].awaiting
  /\ trade'[u].match = trade[u].match \/ trade[u].awaiting

GoesOn(u) ==
  \/ pc'[u] = pc[u]
  \/ pc[u] \in {"new", "pricing"} /\ pc'[u] \in {"pricing", "uploading", "clearance"}

LEMMA ClearedFiles ==
  ASSUME Inv, Files, UNCHANGED <<hung, uploadFailed>>,
         \A u \in Trades : OnlyCleared(u) /\ GoesOn(u),
         \A u \in activities' : u \in activities \/ pc'[u] # "gone"
  PROVE  Files'
<1>1. ASSUME NEW u \in Trades
      PROVE  FilesOf(u)'
  <2>1. FilesOf(u) /\ OnlyCleared(u) /\ GoesOn(u)
    BY DEF Files
  <2>2. trade[u].awaiting => trade[u].match = NoTrade
    BY AwaitingIsOpen
  <2>3. OwnFiles(u)'
    BY <2>1 DEF FilesOf, OnlyCleared, SameFiles, GoesOn, OwnFiles, BuyFiles, SellFiles,
       Serving, Early, LocalSteps
  <2>4. /\ u \in Buys => BuyFiles(u)'
        /\ u \in Sells => SellFiles(u)'
    BY <2>1, <2>2
    DEF FilesOf, OnlyCleared, SameFiles, GoesOn, BuyFiles, SellFiles, Early
  <2>5. CASE trade'[u].match = trade[u].match
    <3>1. trade[u].match # NoTrade => Faithful(trade[u].match)
      BY Mutual DEF OnlyCleared, SameFiles, Faithful
    <3>2. pc'[u] \in Serving <=> pc[u] \in Serving
      BY <2>1 DEF GoesOn, Serving, Early
    <3>3. LetGo(u)'
      BY <2>1, <2>5, <3>1, <3>2, LetGoStays DEF FilesOf, OnlyCleared, SameFiles
    <3>4. Held(u)'
      BY <2>1, <2>5 DEF FilesOf, OnlyCleared, SameFiles, GoesOn, Held
    <3>5. QED
      BY <2>1, <2>3, <2>4, <3>3, <3>4 DEF FilesOf
  <2>6. CASE trade[u].awaiting
    <3>1. LetGo(u)'
      <4>1. pc[u] \in Early \/ u \in hung \/ u \in uploadFailed
        BY <2>1, <2>6 DEF FilesOf, OwnFiles
      <4>2. pc[u] \in Early => pc'[u] \in Early
        BY <2>1 DEF GoesOn, Early
      <4>3. u \in uploadFailed => u \in Buys
        BY DEF Inv, TypeOK
      <4>4. QED
        BY <4>1, <4>2, <4>3 DEF LetGo, Serving
    <3>2. Held(u)'
      BY <2>1, <2>2, <2>4, <2>6, SideOf
      DEF FilesOf, OnlyCleared, SameFiles, GoesOn, Held, BuyFiles, SellFiles
    <3>3. QED
      BY <2>1, <2>3, <2>4, <3>1, <3>2 DEF FilesOf
  <2>7. QED
    BY <2>1, <2>5, <2>6 DEF OnlyCleared
<1>2. QED
  BY <1>1 DEF Files

\* What register does to a trade: the record it enters is that of a new trade,
\* but for its clearance.
LEMMA RegisterClears ==
  ASSUME Inv, NEW t \in Trades, pc[t] = "new",
         NEW r \in TradeRecord, r.match = NoTrade, r.work = "none", r.result = "none",
         r.alive, NEW skipMandates, Register(t, r, skipMandates)
  PROVE  \A u \in Trades : OnlyCleared(u)
<1>1. /\ trade[t].match = NoTrade /\ trade[t].work = "none" /\ trade[t].result = "none"
      /\ trade[t].alive /\ trade[t].awaiting
  BY DEF Inv, Fresh, NewTrade
<1>2. ASSUME NEW q \in TradeRecord, trade' = [trade EXCEPT ![t] = q],
             q.match = NoTrade, q.work = "none", q.result = "none", q.alive
      PROVE  \A u \in Trades : OnlyCleared(u)
  <2>1. trade'[t] = q /\ \A u \in Trades \ {t} : trade'[u] = trade[u]
    BY <1>2 DEF Inv, TypeOK
  <2>2. trade[t].alive = q.alive
    BY <1>1, <1>2 DEF TradeRecord, Inv, TypeOK
  <2>3. QED
    BY <1>1, <1>2, <2>1, <2>2 DEF OnlyCleared, SameFiles
<1>3. ASSUME NEW u \in Candidates(t), trade' = MatchedWith(t, r, u)
      PROVE  \A v \in Trades : OnlyCleared(v)
  <2> DEFINE rt == [r EXCEPT !.match = u, !.awaiting = FALSE]
             ru == [trade[u] EXCEPT !.match = t, !.awaiting = FALSE]
  <2>1. u \in Trades \ {t} /\ trade[u].awaiting
    BY DEF Candidates, Inv, TypeOK
  <2>2. /\ rt.work = "none" /\ rt.result = "none" /\ rt.alive = r.alive
        /\ ru.work = trade[u].work /\ ru.result = trade[u].result
        /\ ru.alive = trade[u].alive
    BY <2>1 DEF TradeRecord, Inv, TypeOK
  <2>3. trade' = [[trade EXCEPT ![t] = rt] EXCEPT ![u] = ru]
    BY <1>3, <2>1 DEF MatchedWith, Inv, TypeOK
  <2> HIDE DEF rt, ru
  <2>4. /\ trade'[t] = rt /\ trade'[u] = ru
        /\ \A v \in Trades \ {t, u} : trade'[v] = trade[v]
    BY <2>1, <2>3 DEF Inv, TypeOK
  <2>5. trade[t].alive = r.alive
    BY <1>1 DEF TradeRecord, Inv, TypeOK
  <2>6. QED
    BY <1>1, <2>1, <2>2, <2>4, <2>5 DEF OnlyCleared, SameFiles
<1>4. ASSUME NEW over, TryMandates(t, r, over)
      PROVE  \A u \in Trades : OnlyCleared(u)
  <2>1. \/ trade' = [trade EXCEPT ![t] = r]
        \/ \E m \in Mandates :
             trade' = [trade EXCEPT ![t] = [r EXCEPT !.price = m, !.awaiting = FALSE]]
    BY <1>4, TriedMandates DEF Inv
  <2>2. ASSUME NEW m \in Mandates,
               trade' = [trade EXCEPT ![t] = [r EXCEPT !.price = m, !.awaiting = FALSE]]
        PROVE  \A u \in Trades : OnlyCleared(u)
    <3> DEFINE q == [r EXCEPT !.price = m, !.awaiting = FALSE]
    <3>1. /\ q \in TradeRecord /\ q.match = NoTrade
          /\ q.work = "none" /\ q.result = "none" /\ q.alive
      BY DEF TradeRecord
    <3>2. trade' = [trade EXCEPT ![t] = q]
      BY <2>2
    <3> HIDE DEF q
    <3>3. QED
      BY <1>2, <3>1, <3>2
  <2>3. QED
    BY <1>2, <2>1, <2>2
<1>5. QED
  BY <1>2, <1>3, <1>4 DEF Register

LEMMA RegisterFiles ==
  ASSUME Inv, Files, NEW t \in Trades, pc[t] = "new",
         NEW r \in TradeRecord, r.match = NoTrade, r.work = "none", r.result = "none",
         r.alive, NEW skipMandates, Register(t, r, skipMandates),
         NEW step \in {"pricing", "uploading", "clearance"}, Goto(t, step)
  PROVE  Files'
<1>1. \A u \in Trades : OnlyCleared(u)
  BY RegisterClears
<1>2. Advances(t, step)
  BY GoesTo DEF Inv
<1>3. \A u \in Trades : GoesOn(u)
  BY <1>2 DEF Advances, GoesOn
<1>4. activities' = activities \cup {t} /\ UNCHANGED <<hung, uploadFailed>>
  BY DEF Register, netVars
<1>5. pc'[t] # "gone"
  BY <1>2 DEF Advances
<1>6. QED
  BY <1>1, <1>3, <1>4, <1>5, ClearedFiles

LEMMA PriceFiles ==
  ASSUME Inv, NEW t \in Trades, NEW p \in Mandates \cup {Requested},
         UNCHANGED trade \/ trade' = [trade EXCEPT ![t] = WithPrice(t, p)]
  PROVE  \A u \in Trades : OnlyCleared(u)
<1>1. CASE UNCHANGED trade
  BY <1>1 DEF OnlyCleared, SameFiles
<1>2. CASE trade' = [trade EXCEPT ![t] = WithPrice(t, p)]
  <2>1. LET w == WithPrice(t, p) IN
        /\ w.work = trade[t].work /\ w.result = trade[t].result
        /\ w.alive = trade[t].alive /\ w.match = trade[t].match /\ ~w.awaiting
    BY DEF WithPrice, Inv, TypeOK, TradeRecord
  <2>2. trade'[t] = WithPrice(t, p) /\ \A u \in Trades \ {t} : trade'[u] = trade[u]
    BY <1>2 DEF Inv, TypeOK
  <2>3. QED
    BY <2>1, <2>2 DEF OnlyCleared, SameFiles
<1>3. QED
  BY <1>1, <1>2

LEMMA PublishFiles ==
  ASSUME Inv, Files, NEW b \in Buys, Publish(b)
  PROVE  Files'
<1>1. b \in Trades /\ UNCHANGED <<activities, hung, uploadFailed>>
  BY DEF Publish, Trades, registry, netVars
<1>2. \A u \in Trades : OnlyCleared(u)
  BY <1>1, PriceFiles DEF Publish
<1>3. pc[b] = "pricing" /\ Advances(b, "uploading")
  BY <1>1, GoesTo DEF Publish, Inv
<1>4. \A u \in Trades : GoesOn(u)
  BY <1>3 DEF Advances, GoesOn
<1>5. QED
  BY <1>1, <1>2, <1>4, ClearedFiles

LEMMA MandateFiles ==
  ASSUME Inv, Files, NEW m \in Mandates, MandateStep(m)
  PROVE  Files'
<1>1. UNCHANGED <<pc, activities, hung, uploadFailed>>
  BY DEF MandateStep, Grant, List, Revoke, Look, Apply, registry, netVars
<1>2. UNCHANGED trade \/ \E t \in Trades : trade' = [trade EXCEPT ![t] = WithPrice(t, m)]
  BY DEF MandateStep, Grant, List, Revoke, Look, Apply
<1>3. \A u \in Trades : OnlyCleared(u)
  <2>1. CASE UNCHANGED trade
    BY <2>1 DEF OnlyCleared, SameFiles
  <2>2. QED
    BY <1>2, <2>1, PriceFiles
<1>4. QED
  BY <1>1, <1>3, ClearedFiles DEF GoesOn

\* Contexts and the server.
LEMMA OthersFiles ==
  ASSUME Inv, Files, UNCHANGED <<trade, pc, activities, uploadFailed>>, hung \subseteq hung'
  PROVE  Files'
<1>1. ASSUME NEW u \in Trades
      PROVE  FilesOf(u)'
  <2>1. FilesOf(u)
    BY DEF Files
  <2>2. OwnFiles(u)' /\ (u \in Buys => BuyFiles(u)') /\ (u \in Sells => SellFiles(u)')
        /\ Held(u)'
    BY <2>1 DEF FilesOf, OwnFiles, BuyFiles, SellFiles, Held
  <2>3. LetGo(u)'
    BY <2>1, LetGoStays DEF FilesOf, Faithful
  <2>4. QED
    BY <2>2, <2>3 DEF FilesOf
<1>2. QED
  BY <1>1 DEF Files

LEMMA FilesKept ==
  ASSUME Inv, Files, [Next]_vars
  PROVE  Files'
<1>1. ASSUME NEW t \in Trades, Step(t)
      PROVE  Files'
  <2>1. CASE t \in Buys /\ (Publish(t) \/ Upload(t) \/ LocalBuy(t))
    BY <2>1, PublishFiles, UploadFiles, LocalBuyFiles
  <2>2. CASE t \in Sells /\ (TakeWork(t) \/ DoWork(t) \/ OfferResult(t))
    BY <2>2, TakeWorkFiles, DoWorkFiles
  <2>3. CASE \/ t \in Buys /\ (TakeTransmissionToken(t) \/ Transmit(t))
             \/ TakeUnmatchedToken(t) \/ PlaceBid(t) \/ AwaitTransaction(t)
             \/ ReturnUnmatchedToken(t) \/ EndTransaction(t) \/ Close(t)
    BY <2>3, RemoteFiles
  <2>4. CASE AwaitClearance(t) \/ End(t) \/ Dispose(t)
    BY <2>4, ClearanceFiles, EndFiles, DisposeFiles
  <2>5. QED
    BY <1>1, <2>1, <2>2, <2>3, <2>4 DEF Step
<1>2. ASSUME NEW b \in Buys, NEW priced \in BOOLEAN, NewBuy(b, priced)
      PROVE  Files'
  <2>1. /\ NewTrade.match = NoTrade /\ NewTrade.work = "none"
        /\ NewTrade.result = "none" /\ NewTrade.alive
    BY DEF NewTrade
  <2>2. \E step \in {"pricing", "uploading", "clearance"} : Goto(b, step)
    BY <1>2 DEF NewBuy
  <2>3. QED
    BY <1>2, <2>1, <2>2, NewTradeTyped, RegisterFiles DEF NewBuy, Trades
<1>3. ASSUME NEW s \in Sells, NEW localOnly \in BOOLEAN, NewSell(s, localOnly)
      PROVE  Files'
  <2> DEFINE r == [NewTrade EXCEPT !.localOnly = localOnly]
  <2>1. /\ r \in TradeRecord /\ r.match = NoTrade /\ r.work = "none"
        /\ r.result = "none" /\ r.alive
    BY NewTradeTyped DEF NewTrade, TradeRecord
  <2>2. Register(s, r, FALSE) /\ pc[s] = "new" /\ s \in Trades /\ Goto(s, "clearance")
    BY <1>3 DEF NewSell, Trades
  <2> HIDE DEF r
  <2>3. QED
    BY <2>1, <2>2, RegisterFiles
<1>4. ASSUME NEW t \in Trades, HangUp(t) \/ Resolve(t) \/ Revive(t)
      PROVE  Files'
  <2>1. UNCHANGED <<trade, pc, activities, uploadFailed>> /\ hung \subseteq hung'
    BY <1>4 DEF HangUp, Resolve, Revive, registry
  <2>2. QED
    BY <2>1, OthersFiles
<1>5. ASSUME NEW m \in Mandates, MandateStep(m)
      PROVE  Files'
  BY <1>5, MandateFiles
<1>6. CASE UNCHANGED vars
  BY <1>6, OthersFiles DEF vars, registry, netVars
<1>7. QED
  BY <1>1, <1>2, <1>3, <1>4, <1>5, <1>6 DEF Next

(***************************************************************************)
(* A local trade hands over no file whose owner has disposed of it, in any *)
(* interleaving of buy and sell, unless the owner was interrupted.         *)
(***************************************************************************)
THEOREM FilesAlwaysHeld == Spec => []FilesHeld
<1>1. Init => Files
  BY FilesInitially
<1>2. Inv /\ Files /\ [Next]_vars => Files'
  BY FilesKept
<1>3. Files => FilesHeld
  BY DEF Files, FilesOf, Held, FilesHeld
<1>4. QED
  BY <1>1, <1>2, <1>3, Invariance, PTL DEF Spec
=============================================================================
