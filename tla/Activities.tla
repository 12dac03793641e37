----------------------------- MODULE Activities -----------------------------
(***************************************************************************)
(* The trades of one client (client/activity.go, client/trade.go): a buy   *)
(* made by a request to the client, a sell made by a worker that is idle.  *)
(* A trade is cleared once, by a local match with a trade of the other     *)
(* side, by a mandate of the user or by the price its request names; then  *)
(* buy and sell hand each other their files (doLocalBuy, doLocalSell), or  *)
(* the trade goes to the server, within the limits of two kinds of token.  *)
(*                                                                         *)
(* All trades are of one article.  ActivityManager.mutex guards what       *)
(* register and unregister do, the lock of a trade what execSync, Publish  *)
(* and the predicates it waits on do: each is one step here.  The rest of a*)
(* remote trade, its transaction, is in Transactions.                      *)
(***************************************************************************)
EXTENDS Integers, FiniteSets, Sequences, Functions

CONSTANTS
  Buys, Sells,
  Mandates,
  Requested,            (* the price a request to buy names                 *)
  NoTrade, NoPrice,
  NumUnmatchedBids,
  NumTransmittingBids,
  HistoryLength,        (* trades remembered; 100 in the code               *)
  Limits,               (* how a user may limit a mandate: sets of "trades" *)
                        (* and "time"                                       *)
  MaxTradesLeft,        (* bound: trades a mandate is given                 *)
  MaxEvents             (* bound: mandates granted, contexts cancelled, open*)
                        (* bids lost sight of, views gone back, together    *)

Trades == Buys \cup Sells

ASSUME ActivitiesAssumption ==
  /\ IsFiniteSet(Trades) /\ Buys \cap Sells = {}
  /\ NoTrade \notin Trades
  /\ IsFiniteSet(Mandates) /\ Requested \notin Mandates
  /\ NoPrice \notin Mandates \cup {Requested}
  /\ NumUnmatchedBids \in Nat \ {0} /\ NumTransmittingBids \in Nat \ {0}
  /\ HistoryLength \in Nat \ {0}
  /\ MaxTradesLeft \in Nat \ {0} /\ MaxEvents \in Nat
  /\ Limits \subseteq SUBSET {"trades", "time"}

VARIABLES
  trade,         \* trade -> its fields
  pc,            \* trade -> where its goroutine is
  activities,    \* ActivityManager.activities
  history,       \* ActivityManager.history
  mandate,       \* mandate -> its fields
  mandates,      \* ActivityManager.mandates
  entering,      \* mandates inserted, the activities not yet listed for them
  todo,          \* mandate -> activities applyMandate has yet to look at
  looking,       \* mandate -> the one it has found not accepted, or NoTrade
  unmatched,     \* bid type -> tokens left
  transmission,  \* transmission tokens left
  open,          \* at the server: trades whose bid is not matched or expired
  hung,          \* trades whose context is done
  uploadFailed,  \* history: buys whose work did not arrive
  holders,       \* history: buys that took a transmission token
  unserved,      \* history: buys interrupted while they waited for one
  lost,          \* history: open bids the client lost sight of
  revived        \* trades whose view of their transaction went back for good

registry == <<activities, history>>
mandateVars == <<mandate, mandates, entering, todo, looking>>
tokenVars == <<unmatched, transmission, holders, unserved>>
netVars == <<open, hung, uploadFailed, lost, revived>>
vars == <<trade, pc, registry, mandateVars, tokenVars, netVars>>

BidTypes == {"BUY", "SELL"}
Type(t) == IF t \in Buys THEN "BUY" ELSE "SELL"

\* "gone" is the file of a trade that was disposed.
File == {"none", "file", "gone"}

Steps == {"new", "pricing", "uploading", "clearance", "local", "working",
          "offering", "unmatched", "transmission", "bidding", "open", "matched",
          "failed", "transmitting", "verifying", "selling", "closing", "ending",
          "disposing", "gone"}

TradeRecord ==
  [alive : BOOLEAN, awaiting : BOOLEAN, localOnly : BOOLEAN, transmitting : BOOLEAN,
   price : Mandates \cup {Requested, NoPrice}, match : Trades \cup {NoTrade},
   work : File, result : File]

MandateRecord ==
  [type : BidTypes, useLeft : BOOLEAN, left : Int, useUntil : BOOLEAN,
   expired : BOOLEAN, granted : Nat]

TypeOK ==
  /\ trade \in [Trades -> TradeRecord]
  /\ pc \in [Trades -> Steps]
  /\ activities \subseteq Trades /\ history \in Seq(Trades)
  /\ mandate \in [Mandates -> MandateRecord] /\ mandates \subseteq Mandates
  /\ entering \subseteq Mandates
  /\ todo \in [Mandates -> SUBSET Trades]
  /\ looking \in [Mandates -> Trades \cup {NoTrade}]
  /\ unmatched \in [BidTypes -> Nat] /\ transmission \in Nat
  /\ open \subseteq Trades /\ hung \subseteq Trades /\ uploadFailed \subseteq Buys
  /\ holders \subseteq Buys /\ unserved \subseteq Buys /\ lost \in Nat
  /\ revived \subseteq Trades

NoMandate == [type |-> "BUY", useLeft |-> FALSE, left |-> 0, useUntil |-> FALSE,
              expired |-> FALSE, granted |-> 0]

NewTrade == [alive |-> TRUE, awaiting |-> TRUE, localOnly |-> FALSE,
             transmitting |-> FALSE, price |-> NoPrice, match |-> NoTrade,
             work |-> "none", result |-> "none"]

Init ==
  /\ trade = [t \in Trades |-> NewTrade]
  /\ pc = [t \in Trades |-> "new"]
  /\ activities = {} /\ history = <<>>
  /\ mandate = [m \in Mandates |-> NoMandate] /\ mandates = {}
  /\ entering = {}
  /\ todo = [m \in Mandates |-> {}] /\ looking = [m \in Mandates |-> NoTrade]
  /\ unmatched = [y \in BidTypes |-> NumUnmatchedBids]
  /\ transmission = NumTransmittingBids
  /\ open = {} /\ hung = {} /\ uploadFailed = {}
  /\ holders = {} /\ unserved = {} /\ lost = 0 /\ revived = {}

Granted == {m \in Mandates : mandate[m].granted > 0}
MayHappen == Cardinality(Granted) + Cardinality(hung) + lost + Cardinality(revived) < MaxEvents

LoseSight == MayHappen /\ lost' = lost + 1

Goto(t, step) == pc' = [pc EXCEPT ![t] = step]

-----------------------------------------------------------------------------
(***************************************************************************)
(* Mandates.                                                               *)
(***************************************************************************)
Published(t) == trade[t].price # NoPrice
Accepted(t) == trade[t].localOnly \/ ~trade[t].awaiting

\* Mutant: Publish looks at localOnly alone.
PublishesAnyway(t) == ~trade[t].localOnly

\* Trade.Publish succeeds on t.
MayPublish(t) == trade[t].awaiting /\ ~trade[t].localOnly
WithPrice(t, price) == [trade[t] EXCEPT !.price = price, !.awaiting = FALSE]

\* The mandate is for trades like t, and not found to be used up; is used up.
AppliesTo(m, t) == ~mandate[m].expired /\ mandate[m].type = Type(t)
\* (The first is a mutant: it lets a counter of zero count.)
UsedUpBelowZero(m, over) ==
  \/ mandate[m].useLeft /\ mandate[m].left < 0
  \/ mandate[m].useUntil /\ over
UsedUp(m, over) ==
  \/ mandate[m].useLeft /\ mandate[m].left <= 0
  \/ mandate[m].useUntil /\ over

Expire(ms) ==
  mandate' = [m \in Mandates |->
    IF m \in ms THEN [mandate[m] EXCEPT !.expired = TRUE] ELSE mandate[m]]

\* Mandate m publishes a trade, the mandates used are found to be used up.
Spend(m, used) ==
  mandate' = [k \in Mandates |->
    [mandate[k] EXCEPT !.left = IF k = m THEN @ - 1 ELSE @,
                       !.expired = @ \/ k \in used]]

\* handleGrantMandate: the user limits the trades or the time, or allows one
\* trade.  RegisterMandate enters the mandate, then lists the activities.
Grant(m) ==
  /\ mandate[m].granted = 0 /\ MayHappen
  /\ \E y \in BidTypes, n \in 1 .. MaxTradesLeft, limits \in Limits :
       LET left == IF limits = {} THEN 1 ELSE n
       IN mandate' = [mandate EXCEPT ![m] =
            [type |-> y, useLeft |-> limits # {"time"}, left |-> left,
             useUntil |-> "time" \in limits, expired |-> FALSE, granted |-> left]]
  /\ mandates' = mandates \cup {m}
  /\ entering' = entering \cup {m}
  /\ UNCHANGED <<trade, pc, registry, todo, looking, tokenVars, netVars>>

List(m) ==
  /\ m \in entering
  /\ entering' = entering \ {m}
  /\ todo' = [todo EXCEPT ![m] = activities \cup Range(history)]
  /\ UNCHANGED <<trade, pc, registry, mandate, mandates, looking, tokenVars, netVars>>

\* applyMandate reads the state of an activity and drops the lock.
Look(m, t) ==
  /\ looking[m] = NoTrade /\ t \in todo[m]
  /\ todo' = [todo EXCEPT ![m] = @ \ {t}]
  /\ looking' = [looking EXCEPT ![m] = IF Accepted(t) THEN NoTrade ELSE t]
  /\ UNCHANGED <<trade, pc, registry, mandate, mandates, entering, tokenVars, netVars>>

\* Mandate.Apply, with the time at which applyMandate began, when the mandate
\* was new, and UnregisterMandate if the mandate has expired.
Apply(m, t) ==
  /\ looking[m] = t /\ t # NoTrade
  /\ looking' = [looking EXCEPT ![m] = NoTrade]
  /\ LET used == {m} \cap {k \in Mandates : AppliesTo(k, t) /\ UsedUp(k, FALSE)}
         publishes == AppliesTo(m, t) /\ used = {} /\ MayPublish(t)
     IN /\ trade' = IF publishes THEN [trade EXCEPT ![t] = WithPrice(t, m)] ELSE trade
        /\ IF publishes THEN Spend(m, {}) ELSE Expire(used)
        /\ mandates' = IF mandate'[m].expired THEN mandates \ {m} ELSE mandates
  /\ UNCHANGED <<pc, registry, entering, todo, tokenVars, netVars>>

\* handleRevokeMandate
Revoke(m) ==
  /\ m \in mandates
  /\ mandates' = mandates \ {m}
  /\ UNCHANGED <<trade, pc, registry, mandate, entering, todo, looking, tokenVars, netVars>>

-----------------------------------------------------------------------------
(***************************************************************************)
(* A new trade: register matches it with a trade that waits for clearance, *)
(* or else tries the mandates in the order of a map until one publishes it.*)
(***************************************************************************)
Candidates(t) ==
  {u \in activities : Type(u) # Type(t) /\ trade[u].alive /\ trade[u].awaiting}

MatchedWith(t, new, u) ==
  [trade EXCEPT ![t] = [new EXCEPT !.match = u, !.awaiting = FALSE],
                ![u].match = t, ![u].awaiting = FALSE]

\* The mandates tried are some, the last of which publishes, or all.  Which are
\* out of time is open: one that was found to be is expired from then on.
TryMandates(t, new, over) ==
  LET used(ms) == {m \in ms : AppliesTo(m, t) /\ UsedUp(m, m \in over)}
      publishers == {m \in mandates : AppliesTo(m, t) /\ m \notin used(mandates)
                                      /\ ~new.localOnly}
  IN \/ /\ publishers = {}
        /\ trade' = [trade EXCEPT ![t] = new]
        /\ Expire(used(mandates))
        /\ mandates' = {m \in mandates : ~mandate'[m].expired}
     \/ \E m \in publishers, tried \in SUBSET (mandates \ publishers) :
          /\ trade' = [trade EXCEPT ![t] = [new EXCEPT !.price = m, !.awaiting = FALSE]]
          /\ Spend(m, used(tried))
          /\ mandates' = {k \in mandates : k \in tried => ~mandate'[k].expired}

Register(t, new, skipMandates) ==
  /\ activities' = activities \cup {t}
  /\ \/ \E u \in Candidates(t) :
          /\ trade' = MatchedWith(t, new, u)
          /\ UNCHANGED <<mandate, mandates>>
     \/ /\ Candidates(t) = {} /\ skipMandates
        /\ trade' = [trade EXCEPT ![t] = new]
        /\ UNCHANGED <<mandate, mandates>>
     \/ /\ Candidates(t) = {} /\ ~skipMandates
        /\ \E over \in SUBSET mandates : TryMandates(t, new, over)
  /\ UNCHANGED <<history, entering, todo, looking, tokenVars, netVars>>

NewBuy(b, priced) ==
  /\ pc[b] = "new"
  /\ Register(b, NewTrade, priced)
  /\ Goto(b, IF priced THEN "pricing" ELSE "uploading")

NewSell(s, localOnly) ==
  /\ pc[s] = "new"
  /\ Register(s, [NewTrade EXCEPT !.localOnly = localOnly], FALSE)
  /\ Goto(s, "clearance")

\* NewBuy, with the price of the request: Trade.Publish.
Publish(b) ==
  /\ pc[b] = "pricing"
  /\ trade' = IF MayPublish(b) THEN [trade EXCEPT ![b] = WithPrice(b, Requested)]
                               ELSE trade
  /\ Goto(b, "uploading")
  /\ UNCHANGED <<registry, mandateVars, tokenVars, netVars>>

\* handleBuy: the work is complete and PerformBuy begins, or reading it fails.
Upload(b) ==
  /\ pc[b] = "uploading"
  /\ \/ /\ trade' = [trade EXCEPT ![b].work = "file"]
        /\ Goto(b, "clearance")
        /\ UNCHANGED uploadFailed
     \/ /\ Goto(b, "disposing")
        /\ uploadFailed' = uploadFailed \cup {b}
        /\ UNCHANGED trade
  /\ UNCHANGED <<registry, mandateVars, tokenVars, open, hung, lost, revived>>

\* The context of a request or of a worker is cancelled.
HangUp(t) ==
  /\ pc[t] \notin {"new", "gone"} /\ MayHappen
  /\ hung' = hung \cup {t}
  /\ UNCHANGED <<trade, pc, registry, mandateVars, tokenVars, open, uploadFailed, lost, revived>>

\* Only the trade and where it is change.
Alone == UNCHANGED <<registry, mandateVars, tokenVars, netVars>>

AwaitClearance(t) ==
  /\ pc[t] = "clearance"
  /\ \/ /\ ~trade[t].awaiting
        /\ Goto(t, IF trade[t].match # NoTrade THEN "local" ELSE "unmatched")
     \/ t \in hung /\ Goto(t, "ending")
  /\ UNCHANGED trade /\ Alone

-----------------------------------------------------------------------------
(***************************************************************************)
(* A local trade.                                                          *)
(***************************************************************************)
\* Mutant: the buy does not notice that the sell died.
HasResult(sell) == sell.result # "none"

\* doLocalBuy: waits until the sell has a result or died.
SellDone(sell) == sell.result # "none" \/ ~sell.alive

LocalBuy(b) ==
  /\ b \in Buys /\ pc[b] = "local"
  /\ LET sell == trade[trade[b].match] IN
       \/ /\ SellDone(sell)
          /\ trade' = [trade EXCEPT ![b].result = sell.result]
       \/ b \in hung /\ UNCHANGED trade
  /\ Goto(b, "ending") /\ Alone

\* doLocalSell: waits until the buy has its work or died.
TakeWork(s) ==
  /\ s \in Sells /\ pc[s] = "local"
  /\ LET buy == trade[trade[s].match] IN
       \/ /\ buy.work # "none"
          /\ trade' = [trade EXCEPT ![s].work = buy.work]
          /\ Goto(s, "working")
       \/ /\ (buy.work = "none" /\ ~buy.alive) \/ s \in hung
          /\ Goto(s, "ending") /\ UNCHANGED trade
  /\ Alone

DoWork(s) ==
  /\ pc[s] = "working"
  /\ \/ /\ trade' = [trade EXCEPT ![s].result = "file"]
        /\ Goto(s, "offering")
     \/ Goto(s, "ending") /\ UNCHANGED trade
  /\ Alone

\* Mutant: the sell does not wait for the buy to accept the result.
Offered(buy) == TRUE

\* The sell keeps its result until the buy has taken it or died.
BuyDone(buy) == ~buy.alive \/ buy.result # "none"
OfferResult(s) ==
  /\ pc[s] = "offering"
  /\ BuyDone(trade[trade[s].match]) \/ s \in hung
  /\ Goto(s, "ending")
  /\ UNCHANGED trade /\ Alone

-----------------------------------------------------------------------------
(***************************************************************************)
(* A remote trade: beginRemoteTrade and the transmission token of buys.    *)
(***************************************************************************)
\* Mutant: a token is taken from an empty channel.
TokenOrNone(y) == unmatched[y] >= 0

\* checkoutToken goes on.
HasToken(y) == unmatched[y] > 0
HasTransmissionToken == transmission > 0

\* awaitTransmissionToken sets transmitting before it waits for the token.
TakeUnmatchedToken(t) ==
  /\ pc[t] = "unmatched"
  /\ \/ /\ HasToken(Type(t))
        /\ unmatched' = [unmatched EXCEPT ![Type(t)] = @ - 1]
        /\ trade' = [trade EXCEPT ![t].transmitting = t \in Buys]
        /\ Goto(t, IF t \in Buys THEN "transmission" ELSE "bidding")
     \/ /\ t \in hung
        /\ Goto(t, "closing") /\ UNCHANGED <<trade, unmatched>>
  /\ UNCHANGED <<registry, mandateVars, transmission, holders, unserved, netVars>>

TakeTransmissionToken(b) ==
  /\ pc[b] = "transmission"
  /\ \/ /\ HasTransmissionToken
        /\ transmission' = transmission - 1
        /\ holders' = holders \cup {b}
        /\ Goto(b, "bidding") /\ UNCHANGED unserved
     \/ /\ b \in hung
        /\ unserved' = unserved \cup {b}
        /\ Goto(b, "failed") /\ UNCHANGED <<transmission, holders>>
  /\ UNCHANGED <<trade, registry, mandateVars, unmatched, netVars>>

\* awaitBid: the bid is placed, or refused, or placed but the answer is lost.
PlaceBid(t) ==
  /\ pc[t] = "bidding"
  /\ \/ Goto(t, "open") /\ open' = open \cup {t} /\ UNCHANGED lost
     \/ Goto(t, "failed") /\ UNCHANGED <<open, lost>>
     \/ Goto(t, "failed") /\ open' = open \cup {t} /\ LoseSight
  /\ UNCHANGED <<trade, registry, mandateVars, tokenVars, hung, uploadFailed, revived>>

\* The server matches the bid or lets it expire.
Resolve(t) ==
  /\ t \in open
  /\ open' = open \ {t}
  /\ UNCHANGED <<trade, pc, registry, mandateVars, tokenVars, hung, uploadFailed, lost, revived>>

\* Mutant: waiting for a transaction gives up after some time.
GivesUp(t) == TRUE

\* The bid is found matched or expired.
BidOver(t) == t \notin open

\* awaitTransaction: the bid was matched or has expired, or asking for it fails.
AwaitTransaction(t) ==
  /\ pc[t] = "open"
  /\ \/ /\ BidOver(t)
        /\ Goto(t, "matched") \/ Goto(t, "failed")
        /\ UNCHANGED lost
     \/ t \in open /\ Goto(t, "failed") /\ LoseSight
  /\ UNCHANGED <<trade, registry, mandateVars, tokenVars, open, hung, uploadFailed, revived>>

\* Deferred in beginRemoteTrade.
ReturnUnmatchedToken(t) ==
  /\ pc[t] \in {"matched", "failed"} /\ unmatched[Type(t)] < NumUnmatchedBids
  /\ unmatched' = [unmatched EXCEPT ![Type(t)] = @ + 1]
  /\ Goto(t, IF pc[t] = "failed" THEN "closing"
             ELSE IF t \in Buys THEN "transmitting" ELSE "selling")
  /\ UNCHANGED <<trade, registry, mandateVars, transmission, holders, unserved, netVars>>

\* Trade.returnTransmissionToken: a token goes back, whoever took it, once the
\* channel has room for it.
ReturnTransmissionToken(t) ==
  IF trade[t].transmitting
  THEN /\ transmission < NumTransmittingBids
       /\ transmission' = transmission + 1
       /\ trade' = [trade EXCEPT ![t].transmitting = FALSE]
       /\ holders' = holders \ {t}
  ELSE UNCHANGED <<trade, transmission, holders>>

\* An active state of the transaction is written over a retired one after the
\* poller has ended: nobody will correct the view (see TradeView).
Revive(t) ==
  /\ pc[t] \in {"transmitting", "verifying", "selling"} /\ MayHappen
  /\ revived' = revived \cup {t}
  /\ UNCHANGED <<trade, pc, registry, mandateVars, tokenVars, open, hung, uploadFailed, lost>>

\* waitForTransactionPhase, or the wait of doRemoteSell, comes to an end.
ViewGoesOn(t) == t \notin revived

\* The buyer has sent its work, or the transaction came to an end before.
Transmit(b) ==
  /\ pc[b] = "transmitting" /\ ViewGoesOn(b)
  /\ \/ ReturnTransmissionToken(b) /\ Goto(b, "verifying")
     \/ Goto(b, "closing") /\ UNCHANGED <<trade, transmission, holders>>
  /\ UNCHANGED <<registry, mandateVars, unmatched, unserved, netVars>>

\* The rest of doRemoteBuy, of doRemoteSell.
EndTransaction(t) ==
  /\ pc[t] \in {"verifying", "selling"} /\ ViewGoesOn(t)
  /\ Goto(t, "closing")
  /\ UNCHANGED trade /\ Alone

\* Deferred in doRemoteBuy; a sell never holds a transmission token.
Close(t) ==
  /\ pc[t] = "closing"
  /\ ReturnTransmissionToken(t)
  /\ Goto(t, "ending")
  /\ UNCHANGED <<registry, mandateVars, unmatched, unserved, netVars>>

-----------------------------------------------------------------------------
\* PerformBuy and PerformSell, when they return.
End(t) ==
  /\ pc[t] = "ending"
  /\ trade' = [trade EXCEPT ![t].alive = FALSE]
  /\ Goto(t, "disposing") /\ Alone

Disposed(file) == IF file = "file" THEN "gone" ELSE file

\* Trade.Dispose, with unregister.
Dispose(t) ==
  /\ pc[t] = "disposing"
  /\ activities' = activities \ {t}
  /\ history' = Append(IF Len(history) = HistoryLength THEN Tail(history) ELSE history, t)
  /\ trade' = [trade EXCEPT ![t].work = Disposed(@), ![t].result = Disposed(@)]
  /\ Goto(t, "gone")
  /\ UNCHANGED <<mandateVars, tokenVars, netVars>>

\* What a trade does once it is there.
Step(t) ==
  \/ t \in Buys /\ (Publish(t) \/ Upload(t) \/ LocalBuy(t) \/ Transmit(t))
  \/ t \in Buys /\ TakeTransmissionToken(t)
  \/ t \in Sells /\ (TakeWork(t) \/ DoWork(t) \/ OfferResult(t))
  \/ AwaitClearance(t) \/ TakeUnmatchedToken(t) \/ PlaceBid(t)
  \/ AwaitTransaction(t) \/ ReturnUnmatchedToken(t) \/ EndTransaction(t)
  \/ Close(t) \/ End(t) \/ Dispose(t)

MandateStep(m) ==
  \/ Grant(m) \/ List(m) \/ Revoke(m)
  \/ \E t \in Trades : Look(m, t) \/ Apply(m, t)

Next ==
  \/ \E b \in Buys, priced \in BOOLEAN : NewBuy(b, priced)
  \/ \E s \in Sells, localOnly \in BOOLEAN : NewSell(s, localOnly)
  \/ \E t \in Trades : Step(t) \/ HangUp(t) \/ Resolve(t) \/ Revive(t)
  \/ \E m \in Mandates : MandateStep(m)

Spec == Init /\ [][Next]_vars

(***************************************************************************)
(* As long as some goroutine can run, one does; an upload and a worker come*)
(* to an end, the server resolves every bid.  No more is needed, as a trade*)
(* takes a bounded number of steps.                                        *)
(***************************************************************************)
FairSpec == Spec /\ WF_vars(\E t \in Trades : Step(t) \/ Resolve(t))

-----------------------------------------------------------------------------
(***************************************************************************)
(* Properties.                                                             *)
(***************************************************************************)
(***************************************************************************)
(* A trade is cleared at most once, by a price or by a local match, and    *)
(* local matches are mutual and of a buy with a sell, whichever of         *)
(* register, Publish and a mandate gets to a trade first.                  *)
(***************************************************************************)
ClearedOnce ==
  \A t \in Trades :
    LET u == trade[t].match IN
    /\ u # NoTrade => /\ trade[u].match = t /\ Type(u) # Type(t)
                      /\ ~Published(t) /\ ~trade[t].awaiting
    /\ Published(t) => ~trade[t].awaiting /\ ~trade[t].localOnly

(***************************************************************************)
(* A mandate publishes each trade it counts, and when limited in trades no *)
(* more than the user granted, though register and RegisterMandate apply it*)
(* at the same time.                                                       *)
(***************************************************************************)
MandateLimit ==
  \A m \in Mandates :
    /\ Cardinality({t \in Trades : trade[t].price = m}) + mandate[m].left
         = mandate[m].granted
    /\ mandate[m].useLeft => mandate[m].left >= 0

(***************************************************************************)
(* A local trade hands over no file whose owner has disposed of it, unless *)
(* the owner was interrupted: the buy keeps its work until the sell is     *)
(* done or dead, the sell its result until the buy has taken it.           *)
(***************************************************************************)
FilesHeld ==
  \A t \in Trades :
    LET u == trade[t].match IN
    (u # NoTrade /\ u \notin hung /\ pc[t] # "gone")
      => trade[t].work # "gone" /\ trade[t].result # "gone"

(***************************************************************************)
(* The server holds no more unmatched bids of a type than NumUnmatchedBids,*)
(* but for those the client has lost sight of when asking for them failed. *)
(***************************************************************************)
UnmatchedBidsLimited ==
  \A y \in BidTypes :
    Cardinality({t \in open : Type(t) = y}) <= NumUnmatchedBids + lost

(***************************************************************************)
(* No more buys hold a transmission token than NumTransmittingBids, as     *)
(* client/trade.go:80 has it.  It does not hold: a buy that is interrupted *)
(* while it waits for a token returns one that it never had.               *)
(***************************************************************************)
TransmittingBidsLimited == Cardinality(holders) <= NumTransmittingBids

(***************************************************************************)
(* Every trade that is cleared comes to its end and is disposed, though it *)
(* waits for the other side or for tokens, unless the work of a buy did not*)
(* arrive, a buy was interrupted while it waited for a token, or a view    *)
(* went back: that trade keeps its tokens and waits for ever.              *)
(***************************************************************************)
Unfinished(t) == ~trade[t].awaiting /\ pc[t] # "gone"
ClearedTradesEnd ==
  [](uploadFailed = {} /\ unserved = {} /\ revived = {}) => <>[](\A t \in Trades : ~Unfinished(t))
=============================================================================
