---------------------------- MODULE RemoteTrade ----------------------------
(***************************************************************************)
(* A remote trade between two clients (client/buy.go, client/sell.go), from*)
(* the fetch of its transaction on: both establish themselves with the     *)
(* server, the buyer sends the work to the seller's receiver, receives the *)
(* encrypted result, signs a receipt for it, waits until the transaction   *)
(* shows the key and decrypts the result.  A second goroutine accepts it.  *)
(***************************************************************************)
EXTENDS Receiver

VARIABLES
  buyer,   (* doRemoteBuy                                                  *)
  finish,  (* finishBuy                                                    *)
  seller   (* doRemoteSell                                                 *)

vars == <<viewVars, recvVars, buyer, finish, seller>>

TypeOK ==
  /\ ViewTypeOK /\ ReceiverTypeOK
  /\ buyer \in [pc : {"begin", "establish", "await transmitting", "probe", "list",
                      "listed", "work", "working", "receipt", "signed",
                      "await unverified", "key", "leave", "left", "crashed"},
                watched : BOOLEAN, sellerErr : BOOLEAN, result : BOOLEAN,
                decrypted : BOOLEAN, unanswered : BOOLEAN]
  /\ finish \in {"none", "begin", "wait", "leave", "left"}
  /\ seller \in {"begin", "establish", "wait", "left"}

Init ==
  /\ ViewInit /\ ReceiverInit
  /\ buyer = [pc |-> "begin", watched |-> FALSE, sellerErr |-> FALSE,
              result |-> FALSE, decrypted |-> FALSE, unanswered |-> FALSE]
  /\ finish = "none"
  /\ seller = "begin"

At(pc) == buyer.pc = pc
BuyerTo(pc) == buyer' = [buyer EXCEPT !.pc = pc]
SellerSide == <<recvVars, seller>>
Knowledge == <<view, fetched, regressed, revived>>

(* What a view of the transaction has come to know.                        *)
HasURL(t) == t.phase \notin {"ESTABLISHING", "BUYER_ESTABLISHED"}
HasKey(t) == t.phase \in {"UNVERIFIED", "FINISHED"}
-----------------------------------------------------------------------------
(* The buyer, up to the phase TRANSMITTING.                                *)
BuyerBegins ==
  /\ At("begin")
  /\ \/ BeginView("buyer") /\ BuyerTo("establish")
     \/ /\ Fault /\ BuyerTo("left")
        /\ UNCHANGED <<tx, view, poller, fetched, attempts, regressed, revived>>
  /\ UNCHANGED <<finish, SellerSide>>

EstablishBuyer ==
  /\ At("establish")
  /\ \/ /\ Sent("workhash") /\ BuyerTo("await transmitting")
        /\ attempts' = UpdateAttempts
     \/ SendFails("workhash") /\ BuyerTo("leave") /\ UNCHANGED attempts
  /\ UNCHANGED <<Knowledge, poller, finish, SellerSide>>

(* waitForTransactionPhase: first the view is updated; the last attempt's  *)
(* error is returned, whatever the others yielded.                         *)
Fetched == fetched["update"] # NothingFetched

UpdateTransaction ==
  /\ buyer.pc \in {"await transmitting", "await unverified"}
  /\ \/ ~Fetched /\ UpdateFetch /\ UNCHANGED buyer
     \/ Fetched /\ UpdateWrite /\ UNCHANGED buyer
     \/ /\ ~Fetched /\ UpdateFetchFails
        /\ IF attempts = 1 THEN BuyerTo("leave") ELSE UNCHANGED buyer
  /\ UNCHANGED <<finish, SellerSide>>

(* It ends with the phase waited for, or with an error in a retired        *)
(* transaction and in a phase that is not on the way there.                *)
WaitEnds(phase, via) == 
  LET t == view["buyer"] IN
  /\ ~Fetched /\ attempts = 0
  /\ ~t.active \/ t.phase \notin via

Reached(phase) == view["buyer"].active /\ view["buyer"].phase = phase

(* Mutant: a retired transaction ends the wait without an error.           *)
AwaitTransmittingOrRetired ==
  /\ At("await transmitting")
  /\ WaitEnds("TRANSMITTING", {"ESTABLISHING", "SELLER_ESTABLISHED", "BUYER_ESTABLISHED"})
  /\ buyer' = [buyer EXCEPT !.pc = "probe", !.watched = TRUE]
  /\ UNCHANGED <<viewVars, finish, SellerSide>>

AwaitTransmitting ==
  /\ At("await transmitting")
  /\ WaitEnds("TRANSMITTING", {"ESTABLISHING", "SELLER_ESTABLISHED", "BUYER_ESTABLISHED"})
  /\ buyer' = [buyer EXCEPT !.pc = IF Reached("TRANSMITTING") THEN "probe" ELSE "leave",
                            !.watched = Reached("TRANSMITTING")]
  /\ UNCHANGED <<viewVars, finish, SellerSide>>
-----------------------------------------------------------------------------
(* interactWithSeller.  On return the connections are closed.              *)
InteractionEnds(err) ==
  /\ buyer' = [buyer EXCEPT !.pc = "await unverified", !.sellerErr = err,
                            !.watched = FALSE,
                            !.unanswered = At("signed") /\ req["receipt"] # "error" /\ err]
  /\ cut' = TRUE
  /\ attempts' = UpdateAttempts
  /\ UNCHANGED <<tx, Knowledge, poller, recv, req, sending, finish, seller>>

(* OPTIONS: work in chunks is announced if the seller answers; otherwise,  *)
(* also after a failure, it is sent as it is.                              *)
Probe ==
  /\ At("probe") /\ HasURL(view["buyer"])
  /\ BuyerTo("work") \/ (Reachable /\ BuyerTo("list"))
  /\ UNCHANGED <<viewVars, finish, SellerSide>>

(* postToSeller: without an endpoint the answer is 404.                    *)
Post(r, from, to) ==
  /\ At(from) /\ HasURL(view["buyer"])
  /\ \/ /\ Reachable
        /\ req' = [req EXCEPT ![r] = "queued"] /\ BuyerTo(to)
        /\ UNCHANGED <<viewVars, recv, sending, cut, finish, seller>>
     \/ ~Reachable /\ InteractionEnds(TRUE) /\ UNCHANGED faults
     \/ Fault /\ InteractionEnds(TRUE)

(* A nil pointer is dereferenced when the view is from before the URL.     *)
PostCrashes ==
  /\ buyer.pc \in {"probe", "list", "work", "receipt"} /\ ~HasURL(view["buyer"])
  /\ BuyerTo("crashed")
  /\ UNCHANGED <<viewVars, finish, SellerSide>>

(* The answer begins when the seller lists the chunks it misses; meanwhile *)
(* the buyer sends them.                                                   *)
Listed ==
  /\ At("listed") /\ req["sync"] \in {"list", "done"}
  /\ BuyerTo("work")
  /\ UNCHANGED <<viewVars, finish, SellerSide>>

(* Mutant: the receipt is signed when the result begins to arrive.         *)
ReceivedEarly ==
  /\ At("working") /\ req["work"] = "send"
  /\ BuyerTo("receipt")
  /\ UNCHANGED <<viewVars, finish, SellerSide>>

Received ==
  /\ At("working") /\ req["work"] = "done"
  /\ buyer' = [buyer EXCEPT !.pc = "receipt", !.result = TRUE]
  /\ UNCHANGED <<viewVars, finish, SellerSide>>

Answered ==
  \/ At("signed") /\ req["receipt"] = "done" /\ InteractionEnds(FALSE) /\ UNCHANGED faults
  \/ /\ \/ At("listed") /\ req["sync"] = "error"
        \/ At("working") /\ req["work"] = "error"
        \/ At("signed") /\ req["receipt"] = "error"
     /\ InteractionEnds(TRUE) /\ UNCHANGED faults

Interacting == {"probe", "list", "listed", "work", "working", "receipt", "signed"}
Requesting == {"listed", "working", "signed"}

(* The connections are closed once; later ones are not watched and end     *)
(* with the client's timeout.                                              *)
StillWatched(t) ==
  t.active /\ t.phase \in {"SELLER_ESTABLISHED", "TRANSMITTING", "WORKING"}

Watchdog ==
  /\ buyer.pc \in Interacting /\ buyer.watched /\ ~StillWatched(view["buyer"])
  /\ IF buyer.pc \in Requesting
     THEN InteractionEnds(TRUE) /\ UNCHANGED faults
     ELSE /\ buyer' = [buyer EXCEPT !.watched = FALSE]
          /\ UNCHANGED <<viewVars, finish, SellerSide>>

ConnectionLost ==
  /\ buyer.pc \in Requesting
  /\ Fault \/ (~buyer.watched /\ UNCHANGED faults)
  /\ InteractionEnds(TRUE)

Interact ==
  \/ Probe \/ Post("sync", "list", "listed") \/ Listed
  \/ Post("work", "work", "working") \/ Received
  \/ Post("receipt", "receipt", "signed")
  \/ Answered \/ Watchdog \/ ConnectionLost \/ PostCrashes
-----------------------------------------------------------------------------
(* The buyer, after the interaction.                                       *)
AwaitUnverified ==
  /\ At("await unverified")
  /\ WaitEnds("UNVERIFIED", {"TRANSMITTING", "WORKING"})
  /\ BuyerTo(IF Reached("UNVERIFIED") /\ ~buyer.sellerErr THEN "key" ELSE "leave")
  /\ UNCHANGED <<viewVars, finish, SellerSide>>

(* The key is taken from the view as it is now, and may be nil.            *)
Decrypt ==
  /\ At("key")
  /\ IF HasKey(view["buyer"])
     THEN /\ buyer' = [buyer EXCEPT !.pc = "leave", !.decrypted = TRUE]
          /\ finish' = "begin"
     ELSE BuyerTo("crashed") /\ UNCHANGED finish
  /\ UNCHANGED <<viewVars, SellerSide>>

(* The poller is at hand for the abort before it fetches and at its end.   *)
BuyerLeaves ==
  /\ At("leave") /\ Abort("buyer") /\ BuyerTo("left")
  /\ UNCHANGED <<tx, Knowledge, attempts, faults, finish, SellerSide>>

FinishBegins ==
  /\ finish = "begin"
  /\ poller' = [poller EXCEPT !["finish"] = "top"]
  /\ \/ Sent("acceptresult") /\ finish' = "wait"
     \/ SendFails("acceptresult") /\ finish' = "leave"
  /\ UNCHANGED <<Knowledge, attempts, buyer, SellerSide>>

FinishWaits ==
  /\ finish = "wait" /\ ~view["buyer"].active
  /\ finish' = "leave"
  /\ UNCHANGED <<viewVars, buyer, SellerSide>>

FinishLeaves ==
  /\ finish = "leave" /\ Abort("finish") /\ finish' = "left"
  /\ UNCHANGED <<tx, Knowledge, attempts, faults, buyer, SellerSide>>
-----------------------------------------------------------------------------
(* The seller.                                                             *)
BuyerSide == <<buyer, finish>>

SellerBegins ==
  /\ seller = "begin"
  /\ \/ /\ BeginView("seller") /\ seller' = "establish"
        /\ recv' = [recv EXCEPT !.state = "live"]
     \/ /\ Fault /\ seller' = "left" /\ UNCHANGED recv
        /\ UNCHANGED <<tx, view, poller, fetched, attempts, regressed, revived>>
  /\ UNCHANGED <<BuyerSide, req, sending, cut>>

EstablishSeller ==
  /\ seller = "establish"
  /\ \/ Sent("workerurl") /\ seller' = "wait"
     \/ SendFails("workerurl") /\ seller' = "left"
  /\ UNCHANGED <<Knowledge, poller, attempts, BuyerSide, recvVars>>

SellerLeaves ==
  /\ seller = "wait"
  /\ ~view["seller"].active \/ view["seller"].phase = "UNVERIFIED"
  /\ seller' = "left"
  /\ UNCHANGED <<viewVars, BuyerSide, recvVars>>

(* The poller ends when its channel is closed and disposes of the receiver.*)
(* Mutant: it does not dispose of the receiver.                            *)
PollingEndsOnly ==
  /\ seller = "left" /\ Abort("seller")
  /\ UNCHANGED <<tx, Knowledge, attempts, faults, BuyerSide, seller, recvVars>>

PollingEnds ==
  /\ seller = "left" /\ Abort("seller")
  /\ recv' = Marked(FALSE)
  /\ UNCHANGED <<tx, Knowledge, attempts, faults, BuyerSide, seller, req, sending, cut>>
-----------------------------------------------------------------------------
Aborting(q) ==
  CASE q = "buyer" -> At("leave")
    [] q = "finish" -> finish = "leave"
    [] q = "seller" -> seller = "left"

\* The seller's view has one writer, which leaves it as it is unless it fetches
\* another revision.
Polling(q) ==
  /\ q = "seller" /\ poller[q] = "top" => tx.rev # view["seller"].rev
  /\ (~Aborting(q) /\ Poll(q)) \/ PollWrite(q)
  /\ UNCHANGED <<BuyerSide, SellerSide>>

Act ==
  \/ BuyerBegins \/ EstablishBuyer \/ UpdateTransaction \/ AwaitTransmitting
  \/ Interact \/ AwaitUnverified \/ Decrypt \/ BuyerLeaves
  \/ FinishBegins \/ FinishWaits \/ FinishLeaves
  \/ SellerBegins \/ EstablishSeller \/ SellerLeaves \/ PollingEnds
  \/ (Handle \/ Clean) /\ UNCHANGED <<BuyerSide, seller>>
  \/ (Timeout \/ Retire) /\ UNCHANGED <<BuyerSide, SellerSide>>

Next == Act \/ \E q \in Pollers : Polling(q)

Spec == Init /\ [][Next]_vars

(* All but polling ends after finitely many steps: that some step is taken *)
(* as long as there is one takes them all.                                 *)
FairSpec == Spec /\ WF_vars(Act) /\ \A q \in Pollers : WF_vars(Polling(q))

(* What must hold.                                                         *)

PaidOrPaying == tx.phase \in {"UNVERIFIED", "FINISHED"}

(* The exchange is fair at every moment: the seller publishes the buyer's  *)
(* secret, which starts the time to work, only once it has the whole work; *)
(* the phases in which the seller is paid are reached only when the buyer  *)
(* has the whole encrypted result; and the buyer has the decrypted result  *)
(* only in a phase that pays the seller.                                   *)
FairExchange ==
  /\ tx.phase = "WORKING" => req["work"] \notin {"none", "queued", "rebuild", "handle"}
  /\ PaidOrPaying => buyer.result
  /\ buyer.decrypted => PaidOrPaying

(* A buy that pays for a result also decrypts it.  It does not when the    *)
(* answer to the receipt is missed: the watchdog takes UNVERIFIED, which   *)
(* the receipt itself brings about, for the end of the interaction and     *)
(* closes the connection.  Nor when a request is lost, when the transaction*)
(* is retired first, or when an older state overwrote the view.            *)
PaidResultDecrypted ==
  At("left") /\ PaidOrPaying /\ ~buyer.decrypted
    => buyer.unanswered \/ faults > 0 \/ ~view["buyer"].active \/ regressed

(* What buyer dereferences, the seller's URL and the key of the result, is *)
(* there once the phase waited for was seen, unless the poller or          *)
(* updateTransaction then overwrites the view with what it fetched before. *)
NoStaleRead == At("crashed") => regressed

Over ==
  /\ At("left") /\ finish \in {"none", "left"} /\ seller = "left"
  /\ recv.state \in {"none", "cleaned"}
  /\ faults > 0 \/ \A r \in Requests : req[r] \in {"none", "done", "error"}

(* Both sides of a trade end, and the receiver is disposed of, whatever is *)
(* lost, refused or closed in between: nobody waits for a phase, an answer,*)
(* a poller or the mutex for ever.  Requests end too if nothing was lost.  *)
(* It can fail when updateTransaction or another poller brings a retired   *)
(* view back to an active one: a poller that saw it retired has ended, and *)
(* nobody updates the view again.                                          *)
TradesEnd == <>(Over \/ At("crashed") \/ revived)
=============================================================================
