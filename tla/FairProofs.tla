----------------------------- MODULE FairProofs -----------------------------
(***************************************************************************)
(* The exchange of RemoteTrade is fair, what it reads is there, and what is*)
(* paid is decrypted, for any number of attempts, faults and times.        *)
(***************************************************************************)
EXTENDS RemoteTrade, TLAPS

Fetchers == Pollers \cup {"update"}

(***************************************************************************)
(* What the proof needs of the types: what is a record or a function, and  *)
(* with which fields.                                                      *)
(***************************************************************************)
IsTx(t) == t = [rev |-> t.rev, phase |-> t.phase, active |-> t.active, open |-> t.open]
IsBuyer(b) ==
  b = [pc |-> b.pc, watched |-> b.watched, sellerErr |-> b.sellerErr,
       result |-> b.result, decrypted |-> b.decrypted, unanswered |-> b.unanswered]

Shape ==
  /\ IsTx(tx) /\ tx.phase \in Phases
  /\ IsBuyer(buyer)
  /\ view = [p \in Sides |-> view[p]]
  /\ fetched = [q \in Fetchers |-> fetched[q]]
  /\ req = [r \in Requests |-> req[r]]

LEMMA AdvanceShape ==
  ASSUME Shape, NEW m, Advance(m)
  PROVE  IsTx(tx') /\ tx'.phase \in After(m) /\ tx'.phase \in Phases
  BY DEF Advance, Shape, IsTx, After

LEMMA MessageShape ==
  ASSUME Shape, NEW m, Sent(m) \/ SendFails(m)
  PROVE  /\ IsTx(tx') /\ tx'.phase \in Phases
         /\ tx' = tx \/ tx'.phase \in After(m)
  BY AdvanceShape DEF Shape, Sent, SendFails

LEMMA EndsShape ==
  ASSUME Shape, NEW err, InteractionEnds(err)
  PROVE  /\ Shape' /\ UNCHANGED <<tx, view, fetched, req, finish>>
         /\ buyer'.pc = "await unverified"
         /\ buyer'.result = buyer.result /\ buyer'.decrypted = buyer.decrypted
<1>1. /\ IsBuyer(buyer')
      /\ buyer'.pc = "await unverified"
      /\ buyer'.result = buyer.result /\ buyer'.decrypted = buyer.decrypted
  BY DEF InteractionEnds, Shape, IsBuyer
<1>2. UNCHANGED <<tx, view, fetched, req, finish>>
  BY DEF InteractionEnds, Knowledge
<1>3. QED
  BY <1>1, <1>2 DEF Shape

-----------------------------------------------------------------------------
(***************************************************************************)
(* The inductive invariant: FairExchange; work that was not announced by   *)
(* the buyer is not requested; a receipt is for a result; what is accepted *)
(* was decrypted; and whoever has seen a key has seen a transaction that   *)
(* pays, which no message takes back.                                      *)
(***************************************************************************)
BeforeWork ==
  {"begin", "establish", "await transmitting", "probe", "list", "listed", "work"}

WorkFollows == buyer.pc \in BeforeWork => req["work"] = "none"
ReceiptForResult ==
  req["receipt"] # "none" \/ buyer.pc \in {"receipt", "signed"} => buyer.result
AcceptsDecrypted == finish # "none" => buyer.decrypted
KeysArePaid ==
  /\ \A p \in Sides : HasKey(view[p]) => PaidOrPaying
  /\ \A q \in Fetchers : HasKey(fetched[q]) => PaidOrPaying

FairInv ==
  /\ Shape /\ FairExchange
  /\ WorkFollows /\ ReceiptForResult /\ AcceptsDecrypted /\ KeysArePaid

LEMMA InitFair == Init => FairInv
  BY DEF Init, ViewInit, ReceiverInit, FairInv, Shape, IsTx, IsBuyer, Phases,
         FairExchange, PaidOrPaying, WorkFollows, BeforeWork, ReceiptForResult,
         AcceptsDecrypted, KeysArePaid, HasKey, NothingFetched, Fetchers, Requests, Sides

(***************************************************************************)
(* Messages: none but buyersecret leads to WORKING, none but encresult and *)
(* acceptresult to a phase that pays, and none of those sent leads away.   *)
(***************************************************************************)
LEMMA MessageMoves ==
  ASSUME Shape, NEW m, Sent(m) \/ SendFails(m), m # "rejectresult"
  PROVE  /\ tx'.phase = "WORKING" => tx.phase = "WORKING" \/ m = "buyersecret"
         /\ PaidOrPaying => PaidOrPaying'
         /\ PaidOrPaying' => \/ PaidOrPaying
                             \/ m = "encresult" \/ m = "acceptresult"
  BY MessageShape DEF After, PhaseTransitionRules, PaidOrPaying

(***************************************************************************)
(* A step that changes neither requests nor what the buyer has.            *)
(***************************************************************************)
LEMMA QuietStep ==
  ASSUME FairInv, Shape', PaidOrPaying' = PaidOrPaying, UNCHANGED req,
         tx'.phase = "WORKING" => tx.phase = "WORKING",
         buyer'.result = buyer.result, buyer'.decrypted = buyer.decrypted,
         buyer'.pc \in BeforeWork => buyer.pc \in BeforeWork,
         buyer'.pc \in {"receipt", "signed"} => buyer.pc \in {"receipt", "signed"},
         finish' # "none" => finish # "none",
         KeysArePaid'
  PROVE  FairInv'
  BY DEF FairInv, FairExchange, WorkFollows, ReceiptForResult, AcceptsDecrypted

LEMMA SameKeys ==
  ASSUME FairInv, PaidOrPaying => PaidOrPaying', UNCHANGED <<view, fetched>>
  PROVE  KeysArePaid'
  BY DEF FairInv, KeysArePaid, HasKey

(***************************************************************************)
(* What an action on the trade's side leaves alone, by the part it changes.*)
(***************************************************************************)
LEMMA OnlyBuyerMoves ==
  ASSUME FairInv, NEW pc, BuyerTo(pc)
  PROVE  /\ IsBuyer(buyer') /\ buyer'.pc = pc
         /\ buyer'.result = buyer.result /\ buyer'.decrypted = buyer.decrypted
  BY DEF FairInv, Shape, IsBuyer, BuyerTo

LEMMA FetchKeepsKeys ==
  ASSUME FairInv, UNCHANGED <<tx, view>>, NEW q \in Fetchers,
         fetched' = [fetched EXCEPT ![q] = Fetch] \/ fetched' = [fetched EXCEPT ![q] = NothingFetched]
  PROVE  KeysArePaid' /\ fetched' = [p \in Fetchers |-> fetched'[p]]
  BY DEF FairInv, Shape, KeysArePaid, HasKey, Fetch, NothingFetched, PaidOrPaying, Phases

LEMMA ViewKeepsKeys ==
  ASSUME FairInv, UNCHANGED tx, NEW p \in Sides, NEW t, view' = [view EXCEPT ![p] = t],
         HasKey(t) => PaidOrPaying,
         UNCHANGED fetched \/ \E q \in Fetchers : fetched' = [fetched EXCEPT ![q] = NothingFetched]
  PROVE  /\ KeysArePaid' /\ view' = [r \in Sides |-> view'[r]]
         /\ fetched' = [q \in Fetchers |-> fetched'[q]]
  BY DEF FairInv, Shape, KeysArePaid, HasKey, NothingFetched, PaidOrPaying, Phases

LEMMA WriteKeepsKeys ==
  ASSUME FairInv, UNCHANGED tx, NEW p \in Sides, NEW q \in Fetchers,
         SetView(p, fetched[q]) \/ UNCHANGED view,
         fetched' = [fetched EXCEPT ![q] = NothingFetched]
  PROVE  /\ KeysArePaid' /\ view' = [r \in Sides |-> view'[r]]
         /\ fetched' = [r \in Fetchers |-> fetched'[r]]
<1>1. HasKey(fetched[q]) => PaidOrPaying
  BY DEF FairInv, KeysArePaid
<1>2. CASE SetView(p, fetched[q])
  BY <1>1, <1>2, ViewKeepsKeys DEF SetView
<1>3. CASE UNCHANGED view
  BY <1>3, FetchKeepsKeys DEF FairInv, Shape
<1>4. QED
  BY <1>2, <1>3

-----------------------------------------------------------------------------
LEMMA BuyerBeginsFair == ASSUME FairInv, BuyerBegins PROVE FairInv'
<1>1. UNCHANGED <<tx, fetched, req, finish>>
  BY DEF BuyerBegins, BeginView, SellerSide, recvVars
<1>2. /\ IsBuyer(buyer') /\ buyer'.pc \in {"establish", "left"}
      /\ buyer'.result = buyer.result /\ buyer'.decrypted = buyer.decrypted
  BY OnlyBuyerMoves DEF BuyerBegins
<1>3. HasKey(Fetch) => PaidOrPaying
  BY DEF HasKey, Fetch, PaidOrPaying
<1>4. KeysArePaid' /\ view' = [r \in Sides |-> view'[r]]
  <2>1. CASE BeginView("buyer")
    BY <2>1, <1>1, <1>3, ViewKeepsKeys DEF BeginView, Sides
  <2>2. CASE UNCHANGED view
    BY <2>2, <1>1, SameKeys DEF FairInv, Shape, PaidOrPaying
  <2>3. QED
    BY <2>1, <2>2 DEF BuyerBegins
<1>5. QED
  BY <1>1, <1>2, <1>4, QuietStep DEF FairInv, Shape, PaidOrPaying, BeforeWork, BuyerBegins, At

LEMMA EstablishBuyerFair == ASSUME FairInv, EstablishBuyer PROVE FairInv'
<1>1. UNCHANGED <<view, fetched, req, finish>>
  BY DEF EstablishBuyer, Knowledge, SellerSide, recvVars
<1>2. Sent("workhash") \/ SendFails("workhash")
  BY DEF EstablishBuyer
<1>3. /\ IsTx(tx') /\ tx'.phase \in Phases /\ PaidOrPaying' = PaidOrPaying
      /\ tx'.phase = "WORKING" => tx.phase = "WORKING"
  BY <1>2, MessageShape, MessageMoves DEF FairInv, PaidOrPaying
<1>4. /\ IsBuyer(buyer') /\ buyer'.pc \in {"await transmitting", "leave"}
      /\ buyer'.result = buyer.result /\ buyer'.decrypted = buyer.decrypted
  BY OnlyBuyerMoves DEF EstablishBuyer
<1>5. KeysArePaid'
  BY <1>1, <1>3, SameKeys
<1>6. QED
  BY <1>1, <1>3, <1>4, <1>5, QuietStep DEF FairInv, Shape, BeforeWork, EstablishBuyer, At

LEMMA UpdateTransactionFair == ASSUME FairInv, UpdateTransaction PROVE FairInv'
<1>1. UNCHANGED <<tx, req, finish>>
  BY DEF UpdateTransaction, UpdateFetch, UpdateWrite, UpdateFetchFails, SellerSide, recvVars
<1>2. /\ IsBuyer(buyer')
      /\ buyer'.pc \in BeforeWork => buyer.pc \in BeforeWork
      /\ buyer'.pc \in {"receipt", "signed"} => buyer.pc \in {"receipt", "signed"}
      /\ buyer'.result = buyer.result /\ buyer'.decrypted = buyer.decrypted
  <2>1. UNCHANGED buyer \/ BuyerTo("leave")
    BY DEF UpdateTransaction
  <2>2. CASE UNCHANGED buyer
    BY <2>2 DEF FairInv, Shape, IsBuyer
  <2>3. CASE BuyerTo("leave")
    <3>1. /\ IsBuyer(buyer') /\ buyer'.pc = "leave"
          /\ buyer'.result = buyer.result /\ buyer'.decrypted = buyer.decrypted
      BY <2>3, OnlyBuyerMoves
    <3>2. QED
      BY <3>1 DEF BeforeWork
  <2>4. QED
    BY <2>1, <2>2, <2>3
<1>3. /\ KeysArePaid' /\ view' = [r \in Sides |-> view'[r]]
      /\ fetched' = [q \in Fetchers |-> fetched'[q]]
  <2>1. CASE UpdateFetch
    BY <2>1, <1>1, FetchKeepsKeys DEF UpdateFetch, Fetchers, FairInv, Shape
  <2>2. CASE UpdateWrite
    BY <2>2, <1>1, WriteKeepsKeys DEF UpdateWrite, Fetchers, Sides
  <2>3. CASE UpdateFetchFails
    BY <2>3, <1>1, SameKeys DEF UpdateFetchFails, FairInv, Shape, PaidOrPaying
  <2>4. QED
    BY <2>1, <2>2, <2>3 DEF UpdateTransaction
<1>4. QED
  BY <1>1, <1>2, <1>3, QuietStep DEF FairInv, Shape, PaidOrPaying

(***************************************************************************)
(* The interaction.  Whatever ends it leaves what the buyer has.           *)
(***************************************************************************)
LEMMA EndFair == ASSUME FairInv, NEW err, InteractionEnds(err) PROVE FairInv'
<1>1. /\ Shape' /\ UNCHANGED <<tx, view, fetched, req, finish>>
      /\ buyer'.pc = "await unverified"
      /\ buyer'.result = buyer.result /\ buyer'.decrypted = buyer.decrypted
  BY EndsShape DEF FairInv
<1>2. KeysArePaid' /\ PaidOrPaying' = PaidOrPaying
  BY <1>1, SameKeys DEF PaidOrPaying
<1>3. QED
  BY <1>1, <1>2, QuietStep DEF BeforeWork

(***************************************************************************)
(* Steps of the buyer alone.                                               *)
(***************************************************************************)
LEMMA BuyerStepFair ==
  ASSUME FairInv, UNCHANGED <<tx, view, fetched, req, finish>>, IsBuyer(buyer'),
         buyer'.result = buyer.result, buyer'.decrypted = buyer.decrypted,
         buyer'.pc \in BeforeWork => buyer.pc \in BeforeWork,
         buyer'.pc \in {"receipt", "signed"} => buyer.pc \in {"receipt", "signed"}
  PROVE  FairInv'
<1>1. KeysArePaid' /\ PaidOrPaying' = PaidOrPaying
  BY SameKeys DEF PaidOrPaying
<1>2. Shape'
  BY DEF FairInv, Shape
<1>3. QED
  BY <1>1, <1>2, QuietStep

LEMMA PostFair ==
  ASSUME FairInv, NEW r \in Requests, NEW from, NEW to, Post(r, from, to),
         <<r, from, to>> \in {<<"sync", "list", "listed">>, <<"work", "work", "working">>,
                              <<"receipt", "receipt", "signed">>}
  PROVE  FairInv'
<1>1. CASE InteractionEnds(TRUE)
  BY <1>1, EndFair
<1>2. CASE /\ req' = [req EXCEPT ![r] = "queued"] /\ BuyerTo(to)
           /\ UNCHANGED <<viewVars, recv, sending, cut, finish, seller>>
  <2>1. UNCHANGED <<tx, view, fetched, finish>>
    BY <1>2 DEF viewVars
  <2>2. /\ IsBuyer(buyer') /\ buyer'.pc = to /\ buyer.pc = from
        /\ buyer'.result = buyer.result /\ buyer'.decrypted = buyer.decrypted
    BY <1>2, OnlyBuyerMoves DEF Post, At
  <2>3. req' = [q \in Requests |-> req'[q]] /\ req'[r] = "queued"
        /\ \A q \in Requests \ {r} : req'[q] = req[q]
    BY <1>2 DEF FairInv, Shape
  <2>4. KeysArePaid' /\ PaidOrPaying' = PaidOrPaying
    BY <2>1, SameKeys DEF PaidOrPaying
  <2>5. Shape'
    BY <2>1, <2>2, <2>3 DEF FairInv, Shape
  <2>6. AcceptsDecrypted'
    BY <2>1, <2>2 DEF FairInv, AcceptsDecrypted
  <2>7. CASE r = "sync" /\ from = "list" /\ to = "listed"
    BY <2>1, <2>2, <2>3, <2>4, <2>5, <2>6, <2>7
       DEF FairInv, FairExchange, WorkFollows, BeforeWork, ReceiptForResult, Requests
  <2>8. CASE r = "work" /\ from = "work" /\ to = "working"
    BY <2>1, <2>2, <2>3, <2>4, <2>5, <2>6, <2>8
       DEF FairInv, FairExchange, WorkFollows, BeforeWork, ReceiptForResult, Requests
  <2>9. CASE r = "receipt" /\ from = "receipt" /\ to = "signed"
    BY <2>1, <2>2, <2>3, <2>4, <2>5, <2>6, <2>9
       DEF FairInv, FairExchange, WorkFollows, BeforeWork, ReceiptForResult, Requests
  <2>10. QED
    BY <2>7, <2>8, <2>9
<1>3. QED
  BY <1>1, <1>2 DEF Post

LEMMA ReceivedFair == ASSUME FairInv, Received PROVE FairInv'
<1>1. UNCHANGED <<tx, view, fetched, req, finish>>
  BY DEF Received, viewVars, SellerSide, recvVars
<1>2. /\ IsBuyer(buyer') /\ buyer'.pc = "receipt" /\ buyer'.result = TRUE
      /\ buyer'.decrypted = buyer.decrypted
  BY DEF Received, FairInv, Shape, IsBuyer
<1>3. KeysArePaid' /\ PaidOrPaying' = PaidOrPaying
  BY <1>1, SameKeys DEF PaidOrPaying
<1>4. Shape'
  BY <1>1, <1>2 DEF FairInv, Shape
<1>5. QED
  BY <1>1, <1>2, <1>3, <1>4
     DEF FairInv, FairExchange, WorkFollows, BeforeWork, ReceiptForResult, AcceptsDecrypted

LEMMA InteractFair == ASSUME FairInv, Interact PROVE FairInv'
<1>1. CASE Probe \/ Listed \/ PostCrashes
  <2>1. UNCHANGED <<tx, view, fetched, req, finish>>
    BY <1>1 DEF Probe, Listed, PostCrashes, viewVars, SellerSide, recvVars
  <2>2. PICK pc \in {"work", "list", "crashed"} : BuyerTo(pc)
    BY <1>1 DEF Probe, Listed, PostCrashes
  <2>3. /\ IsBuyer(buyer') /\ buyer'.pc = pc
        /\ buyer'.result = buyer.result /\ buyer'.decrypted = buyer.decrypted
    BY <2>2, OnlyBuyerMoves
  <2>4. buyer.pc \in BeforeWork \/ pc = "crashed"
    BY <1>1, <2>2, <2>3, OnlyBuyerMoves DEF Probe, Listed, PostCrashes, At, BeforeWork
  <2>5. QED
    BY <2>1, <2>2, <2>3, <2>4, BuyerStepFair DEF BeforeWork
<1>2. CASE Post("sync", "list", "listed") \/ Post("work", "work", "working")
             \/ Post("receipt", "receipt", "signed")
  BY <1>2, PostFair DEF Requests
<1>3. CASE Received
  BY <1>3, ReceivedFair
<1>4. CASE Answered \/ ConnectionLost
  BY <1>4, EndFair DEF Answered, ConnectionLost
<1>5. CASE Watchdog
  <2>1. CASE InteractionEnds(TRUE)
    BY <2>1, EndFair
  <2>2. CASE /\ buyer' = [buyer EXCEPT !.watched = FALSE]
             /\ UNCHANGED <<viewVars, finish, SellerSide>>
    <3>1. /\ IsBuyer(buyer') /\ buyer'.pc = buyer.pc
          /\ buyer'.result = buyer.result /\ buyer'.decrypted = buyer.decrypted
      BY <2>2 DEF FairInv, Shape, IsBuyer
    <3>2. UNCHANGED <<tx, view, fetched, req, finish>>
      BY <2>2 DEF viewVars, SellerSide, recvVars
    <3>3. QED
      BY <3>1, <3>2, BuyerStepFair
  <2>3. QED
    BY <1>5, <2>1, <2>2 DEF Watchdog
<1>6. QED
  BY <1>1, <1>2, <1>3, <1>4, <1>5 DEF Interact

-----------------------------------------------------------------------------
(***************************************************************************)
(* The rest of the buyer.                                                  *)
(***************************************************************************)
LEMMA AwaitsFair ==
  ASSUME FairInv, AwaitTransmitting \/ AwaitUnverified \/ BuyerLeaves
  PROVE  FairInv'
<1>1. UNCHANGED <<tx, view, fetched, req, finish>>
  BY DEF AwaitTransmitting, AwaitUnverified, BuyerLeaves, viewVars, SellerSide, recvVars,
         Knowledge
<1>2. /\ IsBuyer(buyer')
      /\ buyer'.result = buyer.result /\ buyer'.decrypted = buyer.decrypted
      /\ \/ buyer.pc = "await transmitting" /\ buyer'.pc \in {"probe", "leave"}
         \/ buyer'.pc \in {"key", "leave", "left"}
  <2>1. CASE AwaitTransmitting
    BY <2>1 DEF AwaitTransmitting, At, FairInv, Shape, IsBuyer
  <2>2. CASE AwaitUnverified
    <3>1. PICK pc \in {"key", "leave"} : BuyerTo(pc)
      BY <2>2 DEF AwaitUnverified
    <3>2. QED
      BY <3>1, OnlyBuyerMoves
  <2>3. CASE BuyerLeaves
    BY <2>3, OnlyBuyerMoves DEF BuyerLeaves
  <2>4. QED
    BY <2>1, <2>2, <2>3
<1>3. QED
  BY <1>1, <1>2, BuyerStepFair DEF BeforeWork

LEMMA DecryptFair == ASSUME FairInv, Decrypt PROVE FairInv'
<1>1. UNCHANGED <<tx, view, fetched, req>>
  BY DEF Decrypt, viewVars, SellerSide, recvVars
<1>2. CASE HasKey(view["buyer"])
  <2>1. /\ IsBuyer(buyer') /\ buyer'.pc = "leave" /\ buyer'.decrypted = TRUE
        /\ buyer'.result = buyer.result
    BY <1>2 DEF Decrypt, FairInv, Shape, IsBuyer
  <2>2. PaidOrPaying /\ PaidOrPaying' = PaidOrPaying
    BY <1>1, <1>2 DEF FairInv, KeysArePaid, Sides, PaidOrPaying
  <2>3. KeysArePaid'
    BY <1>1, <2>2, SameKeys
  <2>4. Shape'
    BY <1>1, <2>1 DEF FairInv, Shape
  <2>5. FairExchange'
    BY <1>1, <2>1, <2>2 DEF FairInv, FairExchange
  <2>6. QED
    BY <1>1, <2>1, <2>3, <2>4, <2>5
       DEF FairInv, WorkFollows, BeforeWork, ReceiptForResult, AcceptsDecrypted
<1>3. CASE ~HasKey(view["buyer"])
  <2>1. /\ IsBuyer(buyer') /\ buyer'.pc = "crashed"
        /\ buyer'.result = buyer.result /\ buyer'.decrypted = buyer.decrypted
    BY <1>3, OnlyBuyerMoves DEF Decrypt
  <2>2. UNCHANGED finish
    BY <1>3 DEF Decrypt
  <2>3. QED
    BY <1>1, <2>1, <2>2, BuyerStepFair DEF BeforeWork
<1>4. QED
  BY <1>2, <1>3

(***************************************************************************)
(* Steps that send a message, buyersecret and encresult excepted.          *)
(***************************************************************************)
LEMMA MessageFair ==
  ASSUME FairInv, NEW m \in {"workerurl", "acceptresult"}, Sent(m) \/ SendFails(m),
         m = "acceptresult" => finish # "none",
         UNCHANGED <<view, fetched, req, buyer>>, finish' # "none" => finish # "none"
  PROVE  FairInv'
<1>1. /\ IsTx(tx') /\ tx'.phase \in Phases
      /\ tx'.phase = "WORKING" => tx.phase = "WORKING"
      /\ PaidOrPaying => PaidOrPaying'
  BY MessageShape, MessageMoves DEF FairInv
<1>2. PaidOrPaying' = PaidOrPaying
  <2>1. m = "acceptresult" => PaidOrPaying
    BY DEF FairInv, AcceptsDecrypted, FairExchange
  <2>2. PaidOrPaying' => PaidOrPaying
    BY <2>1, MessageMoves DEF FairInv
  <2>3. QED
    BY <1>1, <2>2 DEF PaidOrPaying
<1>3. KeysArePaid'
  BY <1>1, SameKeys
<1>4. Shape'
  BY <1>1 DEF FairInv, Shape
<1>5. QED
  BY <1>1, <1>2, <1>3, <1>4, QuietStep

(***************************************************************************)
(* Steps of others that change nothing the invariant speaks of.            *)
(***************************************************************************)
LEMMA StutterFair ==
  ASSUME FairInv, UNCHANGED <<tx, view, fetched, req, buyer>>,
         finish' # "none" => finish # "none"
  PROVE  FairInv'
<1>1. KeysArePaid' /\ PaidOrPaying' = PaidOrPaying
  BY SameKeys DEF PaidOrPaying
<1>2. Shape'
  BY DEF FairInv, Shape
<1>3. QED
  BY <1>1, <1>2, QuietStep

LEMMA FinishFair ==
  ASSUME FairInv, FinishBegins \/ FinishWaits \/ FinishLeaves
  PROVE  FairInv'
<1>1. CASE FinishBegins
  <2>1. UNCHANGED <<view, fetched, req, buyer>>
    BY <1>1 DEF FinishBegins, Knowledge, SellerSide, recvVars
  <2>2. QED
    BY <1>1, <2>1, MessageFair DEF FinishBegins
<1>2. CASE FinishWaits
  BY <1>2, StutterFair DEF FinishWaits, viewVars, SellerSide, recvVars
<1>3. CASE FinishLeaves
  BY <1>3, StutterFair DEF FinishLeaves, Knowledge, SellerSide, recvVars
<1>4. QED
  BY <1>1, <1>2, <1>3

-----------------------------------------------------------------------------
(***************************************************************************)
(* The seller, the server and the pollers.                                 *)
(***************************************************************************)
LEMMA SellerFair ==
  ASSUME FairInv, SellerBegins \/ EstablishSeller \/ SellerLeaves \/ PollingEnds
  PROVE  FairInv'
<1>1. CASE SellerBegins
  <2>1. UNCHANGED <<tx, fetched, req, buyer, finish>>
    BY <1>1 DEF SellerBegins, BeginView, BuyerSide
  <2>2. HasKey(Fetch) => PaidOrPaying
    BY DEF HasKey, Fetch, PaidOrPaying
  <2>3. CASE BeginView("seller")
    <3>1. KeysArePaid' /\ view' = [r \in Sides |-> view'[r]]
      BY <2>1, <2>2, <2>3, ViewKeepsKeys DEF BeginView, Sides
    <3>2. Shape' /\ PaidOrPaying' = PaidOrPaying
      BY <2>1, <3>1 DEF FairInv, Shape, PaidOrPaying
    <3>3. QED
      BY <2>1, <3>1, <3>2, QuietStep
  <2>4. CASE UNCHANGED view
    BY <2>1, <2>4, StutterFair
  <2>5. QED
    BY <1>1, <2>3, <2>4 DEF SellerBegins
<1>2. CASE EstablishSeller
  <2>1. UNCHANGED <<view, fetched, req, buyer, finish>>
    BY <1>2 DEF EstablishSeller, Knowledge, BuyerSide, recvVars
  <2>2. QED
    BY <1>2, <2>1, MessageFair DEF EstablishSeller
<1>3. CASE SellerLeaves
  BY <1>3, StutterFair DEF SellerLeaves, viewVars, BuyerSide, recvVars
<1>4. CASE PollingEnds
  BY <1>4, StutterFair DEF PollingEnds, Knowledge, BuyerSide
<1>5. QED
  BY <1>1, <1>2, <1>3, <1>4

LEMMA ServerFair == ASSUME FairInv, Timeout \/ Retire, UNCHANGED <<BuyerSide, SellerSide>> PROVE FairInv'
<1>1. UNCHANGED <<view, fetched, req, buyer, finish>>
  BY DEF Timeout, Retire, BuyerSide, SellerSide, recvVars
<1>2. IsTx(tx') /\ tx'.phase = tx.phase
  BY DEF Timeout, Retire, FairInv, Shape, IsTx
<1>3. KeysArePaid' /\ PaidOrPaying' = PaidOrPaying
  BY <1>1, <1>2, SameKeys DEF PaidOrPaying
<1>4. Shape'
  BY <1>1, <1>2 DEF FairInv, Shape
<1>5. QED
  BY <1>1, <1>2, <1>3, <1>4, QuietStep

LEMMA PollingFair == ASSUME FairInv, NEW q \in Pollers, Polling(q) PROVE FairInv'
<1>1. UNCHANGED <<tx, req, buyer, finish>>
  BY DEF Polling, Poll, PollWrite, BuyerSide, SellerSide, recvVars
<1>2. q \in Fetchers /\ SideOf(q) \in Sides
  BY DEF Fetchers, SideOf, Sides
<1>3. /\ KeysArePaid' /\ view' = [r \in Sides |-> view'[r]]
      /\ fetched' = [r \in Fetchers |-> fetched'[r]]
  <2>1. CASE Poll(q)
    BY <2>1, <1>1, <1>2, FetchKeepsKeys DEF Poll, FairInv, Shape
  <2>2. CASE PollWrite(q)
    BY <2>2, <1>1, <1>2, WriteKeepsKeys DEF PollWrite
  <2>3. QED
    BY <2>1, <2>2 DEF Polling
<1>4. Shape' /\ PaidOrPaying' = PaidOrPaying
  BY <1>1, <1>3 DEF FairInv, Shape, PaidOrPaying
<1>5. QED
  BY <1>1, <1>3, <1>4, QuietStep

-----------------------------------------------------------------------------
(***************************************************************************)
(* The requests.  None is taken back, and none returns to a step before    *)
(* the secret is published.                                                *)
(***************************************************************************)
BeforeSecret == {"none", "queued", "rebuild", "handle"}

LEMMA GotoShape ==
  ASSUME FairInv, NEW r \in Requests, NEW from, NEW to, Goto(r, from, to),
         from # "none", to # "none", to \in BeforeSecret => from \in BeforeSecret
  PROVE  /\ req' = [q \in Requests |-> req'[q]]
         /\ req[r] = from /\ req'[r] = to
         /\ \A q \in Requests \ {r} : req'[q] = req[q]
         /\ \A q \in Requests : req'[q] = "none" <=> req[q] = "none"
         /\ req'["work"] \in BeforeSecret => req["work"] \in BeforeSecret
<1>1. /\ req' = [q \in Requests |-> req'[q]]
      /\ req[r] = from /\ req'[r] = to
      /\ \A q \in Requests \ {r} : req'[q] = req[q]
  BY DEF FairInv, Shape, Goto
<1>2. QED
  BY <1>1 DEF Requests

LEMMA RequestFair ==
  ASSUME FairInv, NEW r \in Requests, NEW from, NEW to, Goto(r, from, to),
         from # "none", to # "none", to \in BeforeSecret => from \in BeforeSecret,
         UNCHANGED <<view, fetched, buyer, finish>>,
         IsTx(tx'), tx'.phase \in Phases, PaidOrPaying' = PaidOrPaying,
         tx'.phase = "WORKING" => tx.phase = "WORKING"
  PROVE  FairInv'
<1>1. /\ req' = [q \in Requests |-> req'[q]]
      /\ req'["work"] = "none" <=> req["work"] = "none"
      /\ req'["receipt"] = "none" <=> req["receipt"] = "none"
      /\ req'["work"] \in BeforeSecret => req["work"] \in BeforeSecret
  BY GotoShape DEF Requests
<1>2. KeysArePaid'
  BY SameKeys
<1>3. Shape'
  BY <1>1 DEF FairInv, Shape
<1>4. FairExchange'
  BY <1>1 DEF FairInv, FairExchange, BeforeSecret
<1>5. QED
  BY <1>1, <1>2, <1>3, <1>4
     DEF FairInv, WorkFollows, ReceiptForResult, AcceptsDecrypted

(***************************************************************************)
(* A request that sends no message moves on.                               *)
(***************************************************************************)
LEMMA QuietRequestFair ==
  ASSUME FairInv, NEW r \in Requests, NEW from, NEW to, Goto(r, from, to),
         from # "none", to # "none", to \in BeforeSecret => from \in BeforeSecret,
         UNCHANGED <<viewVars, buyer, finish>>
  PROVE  FairInv'
<1>1. UNCHANGED <<tx, view, fetched>>
  BY DEF viewVars
<1>2. IsTx(tx') /\ tx'.phase \in Phases /\ PaidOrPaying' = PaidOrPaying
  BY <1>1 DEF FairInv, Shape, PaidOrPaying
<1>3. QED
  BY <1>1, <1>2, RequestFair

(***************************************************************************)
(* How a request goes on in one of the receiver's steps without a message. *)
(***************************************************************************)
GoesFrom(r, from, to) ==
  /\ Goto(r, from, to)
  /\ from \notin {"none", "done", "error"} /\ to # "none"
  /\ to \in BeforeSecret => from \in BeforeSecret
SomeRequestGoesOn == \E r \in Requests : \E from, to : GoesFrom(r, from, to)

LEMMA QuietHandle ==
  ASSUME \/ SyncQueued \/ SyncDecoded \/ WishListWritten
         \/ WorkQueued \/ WorkRebuilt \/ HandleWork
         \/ WorkDone \/ ResultEncrypted \/ ResultSent \/ ReceiptQueued
         \/ \E r \in Requests : Dropped(r)
  PROVE  UNCHANGED viewVars /\ SomeRequestGoesOn
<1>1. UNCHANGED viewVars
  BY DEF SyncQueued, SyncDecoded, WishListWritten, WorkQueued, WorkRebuilt, HandleWork,
         WorkDone, ResultEncrypted, ResultSent, ReceiptQueued, Dropped
<1>2. CASE SyncQueued
  <2>1. Goto("sync", "queued", "decode") \/ Goto("sync", "queued", "error")
    BY <1>2 DEF SyncQueued, Fails
  <2>2. QED
    BY <1>1, <2>1 DEF SomeRequestGoesOn, GoesFrom, Requests, BeforeSecret
<1>3. CASE SyncDecoded
  <2>1. Goto("sync", "decode", "list") \/ Goto("sync", "decode", "error")
    BY <1>3 DEF SyncDecoded, Fails
  <2>2. QED
    BY <1>1, <2>1 DEF SomeRequestGoesOn, GoesFrom, Requests, BeforeSecret
<1>4. CASE WishListWritten
  <2>1. Goto("sync", "list", "done") \/ Goto("sync", "list", "error")
    BY <1>4 DEF WishListWritten, Fails
  <2>2. QED
    BY <1>1, <2>1 DEF SomeRequestGoesOn, GoesFrom, Requests, BeforeSecret
<1>5. CASE WorkQueued
  <2>1. \/ Goto("work", "queued", "rebuild") \/ Goto("work", "queued", "handle")
        \/ Goto("work", "queued", "error")
    BY <1>5 DEF WorkQueued, Fails
  <2>2. QED
    BY <1>1, <2>1 DEF SomeRequestGoesOn, GoesFrom, Requests, BeforeSecret
<1>6. CASE WorkRebuilt
  <2>1. Goto("work", "rebuild", "handle") \/ Goto("work", "rebuild", "error")
    BY <1>6 DEF WorkRebuilt, Fails
  <2>2. QED
    BY <1>1, <2>1 DEF SomeRequestGoesOn, GoesFrom, Requests, BeforeSecret
<1>7. CASE HandleWork
  <2>1. Goto("work", "handle", "publish") \/ Goto("work", "handle", "error")
    BY <1>7 DEF HandleWork, Fails
  <2>2. QED
    BY <1>1, <2>1 DEF SomeRequestGoesOn, GoesFrom, Requests, BeforeSecret
<1>8. CASE WorkDone
  <2>1. Goto("work", "work", "result") \/ Goto("work", "work", "reject")
    BY <1>8 DEF WorkDone
  <2>2. QED
    BY <1>1, <2>1 DEF SomeRequestGoesOn, GoesFrom, Requests, BeforeSecret
<1>9. CASE ResultEncrypted \/ ResultSent
  <2>1. \/ Goto("work", "result", "send")
        \/ Goto("work", "send", "done") \/ Goto("work", "send", "error")
    BY <1>9 DEF ResultEncrypted, ResultSent, Fails
  <2>2. QED
    BY <1>1, <2>1 DEF SomeRequestGoesOn, GoesFrom, Requests, BeforeSecret
<1>10. CASE ReceiptQueued
  <2>1. Goto("receipt", "queued", "report") \/ Goto("receipt", "queued", "error")
    BY <1>10 DEF ReceiptQueued, Fails
  <2>2. QED
    BY <1>1, <2>1 DEF SomeRequestGoesOn, GoesFrom, Requests, BeforeSecret
<1>11. CASE \E r \in Requests : Dropped(r)
  <2>1. PICK r \in Requests : Goto(r, "queued", "error")
    BY <1>11 DEF Dropped, Fails
  <2>2. QED
    BY <1>1, <2>1 DEF SomeRequestGoesOn, GoesFrom, BeforeSecret
<1>12. QED
  BY <1>1, <1>2, <1>3, <1>4, <1>5, <1>6, <1>7, <1>8, <1>9, <1>10, <1>11

LEMMA QuietHandleFair ==
  ASSUME FairInv, UNCHANGED BuyerSide,
         \/ SyncQueued \/ SyncDecoded \/ WishListWritten
         \/ WorkQueued \/ WorkRebuilt \/ HandleWork
         \/ WorkDone \/ ResultEncrypted \/ ResultSent \/ ReceiptQueued
         \/ \E r \in Requests : Dropped(r)
  PROVE  FairInv'
<1>1. UNCHANGED <<viewVars, buyer, finish>> /\ SomeRequestGoesOn
  BY QuietHandle DEF BuyerSide
<1>2. PICK r \in Requests : \E from, to : GoesFrom(r, from, to)
  BY <1>1 DEF SomeRequestGoesOn
<1>3. PICK from, to : GoesFrom(r, from, to)
  BY <1>2
<1>4. QED
  BY <1>1, <1>3, QuietRequestFair DEF GoesFrom

(***************************************************************************)
(* A request sends a message and moves on.  WORKING finds the work past    *)
(* the secret, UNVERIFIED a receipt and thus a result.                     *)
(***************************************************************************)
LEMMA MessageRequestFair ==
  ASSUME FairInv, NEW r \in Requests, NEW from, NEW to, Goto(r, from, to),
         from # "none", to # "none", to \in BeforeSecret => from \in BeforeSecret,
         NEW m \in {"buyersecret", "rejectwork", "encresult"}, Sent(m) \/ SendFails(m),
         m = "buyersecret" => r = "work" /\ to \notin BeforeSecret,
         m = "encresult" => r = "receipt",
         UNCHANGED <<view, fetched, buyer, finish>>
  PROVE  FairInv'
<1>1. /\ req' = [q \in Requests |-> req'[q]]
      /\ req[r] = from /\ req'[r] = to
      /\ req'["work"] = "none" <=> req["work"] = "none"
      /\ req'["receipt"] = "none" <=> req["receipt"] = "none"
      /\ req'["work"] \in BeforeSecret => req["work"] \in BeforeSecret
  BY GotoShape DEF Requests
<1>2. /\ IsTx(tx') /\ tx'.phase \in Phases
      /\ tx'.phase = "WORKING" => tx.phase = "WORKING" \/ m = "buyersecret"
      /\ PaidOrPaying => PaidOrPaying'
      /\ PaidOrPaying' => PaidOrPaying \/ m = "encresult"
  BY MessageShape, MessageMoves DEF FairInv
<1>3. KeysArePaid'
  BY <1>2, SameKeys
<1>4. Shape'
  BY <1>1, <1>2 DEF FairInv, Shape
<1>5. tx'.phase = "WORKING" => req'["work"] \notin BeforeSecret
  BY <1>1, <1>2 DEF FairInv, FairExchange, BeforeSecret
<1>6. PaidOrPaying' => buyer.result
  BY <1>1, <1>2 DEF FairInv, FairExchange, ReceiptForResult
<1>7. buyer.decrypted => PaidOrPaying'
  BY <1>2 DEF FairInv, FairExchange
<1>8. FairExchange'
  BY <1>5, <1>6, <1>7 DEF FairExchange, BeforeSecret
<1>9. QED
  BY <1>1, <1>3, <1>4, <1>8 DEF FairInv, WorkFollows, ReceiptForResult, AcceptsDecrypted

LEMMA HandleFair == ASSUME FairInv, Handle, UNCHANGED BuyerSide PROVE FairInv'
<1>1. UNCHANGED <<buyer, finish>>
  BY DEF BuyerSide
<1>2. CASE PublishSecret
  <2>1. \/ Sent("buyersecret") /\ Goto("work", "publish", "work")
        \/ SendFails("buyersecret") /\ Goto("work", "publish", "error")
    BY <1>2 DEF PublishSecret, Fails
  <2>2. UNCHANGED <<view, fetched>>
    BY <1>2 DEF PublishSecret
  <2>3. QED
    BY <1>1, <2>1, <2>2, MessageRequestFair DEF Requests, BeforeSecret
<1>3. CASE RejectWork
  <2>1. /\ Sent("rejectwork") \/ SendFails("rejectwork")
        /\ Goto("work", "reject", "error")
    BY <1>3 DEF RejectWork, Fails
  <2>2. UNCHANGED <<view, fetched>>
    BY <1>3 DEF RejectWork
  <2>3. QED
    BY <1>1, <2>1, <2>2, MessageRequestFair DEF Requests, BeforeSecret
<1>4. CASE HandleReceipt
  <2>1. \/ Sent("encresult") /\ Goto("receipt", "report", "done")
        \/ SendFails("encresult") /\ Goto("receipt", "report", "error")
    BY <1>4 DEF HandleReceipt, Fails
  <2>2. UNCHANGED <<view, fetched>>
    BY <1>4 DEF HandleReceipt
  <2>3. QED
    BY <1>1, <2>1, <2>2, MessageRequestFair DEF Requests, BeforeSecret
<1>5. QED
  BY <1>2, <1>3, <1>4, QuietHandleFair DEF Handle

-----------------------------------------------------------------------------
LEMMA NextFair == ASSUME FairInv, [Next]_vars PROVE FairInv'
<1>1. CASE BuyerBegins
  BY <1>1, BuyerBeginsFair
<1>2. CASE EstablishBuyer
  BY <1>2, EstablishBuyerFair
<1>3. CASE UpdateTransaction
  BY <1>3, UpdateTransactionFair
<1>4. CASE AwaitTransmitting \/ AwaitUnverified \/ BuyerLeaves
  BY <1>4, AwaitsFair
<1>5. CASE Interact
  BY <1>5, InteractFair
<1>6. CASE Decrypt
  BY <1>6, DecryptFair
<1>7. CASE FinishBegins \/ FinishWaits \/ FinishLeaves
  BY <1>7, FinishFair
<1>8. CASE SellerBegins \/ EstablishSeller \/ SellerLeaves \/ PollingEnds
  BY <1>8, SellerFair
<1>9. CASE Handle /\ UNCHANGED <<BuyerSide, seller>>
  BY <1>9, HandleFair
<1>10. CASE Clean /\ UNCHANGED <<BuyerSide, seller>>
  BY <1>10, StutterFair DEF Clean, viewVars, BuyerSide
<1>11. CASE (Timeout \/ Retire) /\ UNCHANGED <<BuyerSide, SellerSide>>
  BY <1>11, ServerFair
<1>12. CASE \E q \in Pollers : Polling(q)
  BY <1>12, PollingFair
<1>13. CASE UNCHANGED vars
  BY <1>13, StutterFair DEF vars, viewVars, recvVars
<1>14. QED
  BY <1>1, <1>2, <1>3, <1>4, <1>5, <1>6, <1>7, <1>8, <1>9, <1>10, <1>11, <1>12, <1>13
     DEF Next, Act

(***************************************************************************)
(* Whatever is lost, refused, closed or seen too late: the time to work    *)
(* starts only when the seller has all of the work, the seller is paid     *)
(* only when the buyer has the encrypted result, and the buyer has the     *)
(* result itself only when the seller is paid.                             *)
(***************************************************************************)
THEOREM ExchangeIsFair == Spec => []FairExchange
<1>1. Init => FairInv
  BY InitFair
<1>2. FairInv /\ [Next]_vars => FairInv'
  BY NextFair
<1>3. FairInv => FairExchange
  BY DEF FairInv
<1>4. QED
  BY <1>1, <1>2, <1>3, PTL DEF Spec

-----------------------------------------------------------------------------
(***************************************************************************)
(* What is seen of the transaction: by a view, by somebody who fetched, and*)
(* the state itself.  Once the phase is in one of Lasting it stays there,  *)
(* so what is seen at a higher revision has gone on.                       *)
(***************************************************************************)
Transmitted ==
  {"TRANSMITTING", "WORKING", "UNVERIFIED", "FINISHED", "WORK_DISPUTED", "RESULT_DISPUTED"}
Disputed == {"WORK_DISPUTED", "RESULT_DISPUTED"}
Lasting == {Transmitted, {"UNVERIFIED", "FINISHED"}, {"FINISHED"}, Disputed}

GoesOn(t, u) ==
  /\ \A S \in Lasting : t.phase \in S => u.phase \in S
  /\ ~t.active => ~u.active
Ordered(t, u) == t.rev <= u.rev => GoesOn(t, u)

Snapshots ==
  {NothingFetched, Fetch} \cup {view[p] : p \in Sides} \cup {fetched[q] : q \in Fetchers}

History ==
  /\ tx.rev \in Nat
  /\ \A t \in Snapshots : t.rev \in Nat /\ t.rev <= tx.rev
  /\ \A t, u \in Snapshots : Ordered(t, u)

(***************************************************************************)
(* The buyer's way.  From probe on the view shows what was waited for,     *)
(* unless it went back (WaitedFor).  A receipt is sent once, and the seller*)
(* is paid for the one that was reported (ReceiptOnce, PaidByReceipt); only*)
(* finishBuy accepts (FinishedByBuyer).  When the buy goes wrong, either   *)
(* the receipt was not sent or not reported, or the answer was missed, or a*)
(* request was lost (Excuse), or the transaction was over (Withdrawn).     *)
(***************************************************************************)
BeforeResult == BeforeWork \cup {"working"}
Interacted == Interacting \cup {"await unverified"}

WaitedFor ==
  /\ buyer.pc \in Interacted => regressed \/ view["buyer"].phase \in Transmitted
  /\ At("key") => regressed \/ HasKey(view["buyer"])

ResultOnce == buyer.pc \in BeforeResult => ~buyer.result
ReceiptOnce == buyer.pc \in BeforeResult \cup {"receipt"} => req["receipt"] = "none"
PaidByReceipt == PaidOrPaying => req["receipt"] = "done" \/ faults > 0
FinishedByBuyer == tx.phase = "FINISHED" => finish # "none"

Excuse ==
  \/ ~buyer.result
  \/ req["receipt"] \in {"none", "error"}
  \/ buyer.unanswered
  \/ faults > 0
Withdrawn == regressed \/ ~view["buyer"].active \/ tx.phase \in Disputed

Excused ==
  /\ At("await unverified") /\ buyer.sellerErr => Excuse
  /\ buyer.pc \in {"leave", "left"} /\ ~buyer.decrypted => Excuse \/ Withdrawn

Way ==
  /\ faults \in Nat
  /\ WaitedFor /\ NoStaleRead
  /\ ResultOnce /\ ReceiptOnce /\ PaidByReceipt /\ FinishedByBuyer
  /\ Excused

ReadInv == FairInv /\ History /\ Way

-----------------------------------------------------------------------------
(***************************************************************************)
(* Snapshots are taken and passed on by the clients' steps; the server's   *)
(* add one that all others go on to.                                       *)
(***************************************************************************)
LEMMA GoesOnFrom ==
  ASSUME NEW t, NEW u, NEW v, GoesOn(t, u), GoesOn(u, v)
  PROVE  GoesOn(t, v)
  BY DEF GoesOn

LEMMA PassedOn ==
  ASSUME History, UNCHANGED tx, Snapshots' \subseteq Snapshots
  PROVE  History'
  BY DEF History

LEMMA Added ==
  ASSUME History, UNCHANGED <<view, fetched>>, tx'.rev = tx.rev + 1, GoesOn(Fetch, Fetch')
  PROVE  History'
<1>1. Snapshots' \subseteq Snapshots \cup {Fetch'}
  BY DEF Snapshots
<1>2. Fetch \in Snapshots /\ Fetch.rev = tx.rev /\ (Fetch').rev = tx.rev + 1
  BY DEF Snapshots, Fetch
<1>3. ASSUME NEW t \in Snapshots
      PROVE  Ordered(t, Fetch') /\ Ordered(Fetch', t) /\ t.rev \in Nat /\ t.rev <= tx.rev + 1
  <2>1. t.rev \in Nat /\ tx.rev \in Nat /\ t.rev <= tx.rev /\ Ordered(t, Fetch)
    BY <1>2 DEF History
  <2>2. GoesOn(t, Fetch)
    BY <2>1, <1>2 DEF Ordered
  <2>3. GoesOn(t, Fetch')
    BY <2>2, GoesOnFrom
  <2>4. QED
    BY <2>1, <2>3, <1>2 DEF Ordered
<1>4. Ordered(Fetch', Fetch')
  BY DEF Ordered, GoesOn
<1>5. tx'.rev \in Nat /\ \A t \in Snapshots' : t.rev \in Nat /\ t.rev <= tx'.rev
  BY <1>1, <1>2, <1>3 DEF History
<1>6. \A t, u \in Snapshots' : Ordered(t, u)
  BY <1>1, <1>3, <1>4 DEF History
<1>7. QED
  BY <1>5, <1>6 DEF History

LEMMA MessageGoesOn ==
  ASSUME Shape, NEW m, Sent(m) \/ SendFails(m), m # "rejectresult"
  PROVE  /\ UNCHANGED tx \/ (tx'.rev = tx.rev + 1 /\ GoesOn(Fetch, Fetch'))
         /\ \A S \in Lasting : tx.phase \in S => tx'.phase \in S
         /\ tx'.phase = "FINISHED" => tx.phase = "FINISHED" \/ m = "acceptresult"
<1>1. UNCHANGED tx \/ (tx.active /\ Advance(m))
  BY DEF Sent, SendFails, Accepts
<1>2. CASE UNCHANGED tx
  BY <1>2
<1>3. CASE tx.active /\ Advance(m)
  <2>1. PICK post \in After(m) :
          tx' = [tx EXCEPT !.rev = @ + 1, !.phase = post,
                           !.open = post \notin {"FINISHED", "WORK_DISPUTED"}]
    BY <1>3 DEF Advance
  <2>2. tx'.rev = tx.rev + 1 /\ tx'.phase = post /\ tx'.active = tx.active
    BY <2>1 DEF Shape, IsTx
  <2>3. \A S \in Lasting : tx.phase \in S => post \in S
    BY DEF Lasting, Transmitted, Disputed, After, PhaseTransitionRules
  <2>4. post = "FINISHED" => tx.phase = "FINISHED" \/ m = "acceptresult"
    BY DEF After, PhaseTransitionRules
  <2>5. GoesOn(Fetch, Fetch')
    BY <2>2, <2>3 DEF GoesOn, Fetch
  <2>6. QED
    BY <2>2, <2>3, <2>4, <2>5
<1>4. QED
  BY <1>1, <1>2, <1>3

LEMMA MessageHistory ==
  ASSUME Shape, History, NEW m, Sent(m) \/ SendFails(m), m # "rejectresult",
         UNCHANGED <<view, fetched>>
  PROVE  History'
<1>1. CASE UNCHANGED tx
  BY <1>1, PassedOn DEF Snapshots, Fetch
<1>2. QED
  BY <1>1, MessageGoesOn, Added

(***************************************************************************)
(* What somebody fetches or writes to a view was seen before.              *)
(***************************************************************************)
LEMMA FetchPasses ==
  ASSUME Shape, UNCHANGED <<tx, view>>, NEW q \in Fetchers, NEW t \in Snapshots,
         fetched' = [fetched EXCEPT ![q] = t]
  PROVE  Snapshots' \subseteq Snapshots
<1>1. \A p \in Fetchers : fetched'[p] = IF p = q THEN t ELSE fetched[p]
  BY DEF Shape
<1>2. Fetch' = Fetch
  BY DEF Fetch
<1>3. QED
  BY <1>1, <1>2 DEF Snapshots

LEMMA ViewPasses ==
  ASSUME Shape, UNCHANGED tx, NEW p \in Sides, NEW t \in Snapshots,
         view' = [view EXCEPT ![p] = t],
         \/ UNCHANGED fetched
         \/ \E q \in Fetchers : fetched' = [fetched EXCEPT ![q] = NothingFetched]
  PROVE  Snapshots' \subseteq Snapshots
<1>1. \A r \in Sides : view'[r] \in Snapshots
  BY DEF Shape, Snapshots
<1>2. \A q \in Fetchers : fetched'[q] \in Snapshots
  BY DEF Shape, Snapshots
<1>3. Fetch' = Fetch
  BY DEF Fetch
<1>4. QED
  BY <1>1, <1>2, <1>3 DEF Snapshots

-----------------------------------------------------------------------------
(***************************************************************************)
(* What every step does as long as it is not the buyer who begins or sends *)
(* the receipt: the view and the transaction go on, the receipt's answer   *)
(* stays what it is, and who is paid is paid for a receipt.                *)
(***************************************************************************)
Around ==
  /\ regressed => regressed'
  /\ regressed' \/ GoesOn(view["buyer"], view'["buyer"])
  /\ \A S \in Lasting : tx.phase \in S => tx'.phase \in S
  /\ faults' \in Nat /\ faults <= faults'
  /\ req["receipt"] \in {"none", "done", "error"} => req'["receipt"] = req["receipt"]
  /\ PaidOrPaying' => PaidOrPaying \/ req'["receipt"] = "done" \/ faults' > 0
  /\ finish # "none" => finish' # "none"
  /\ tx'.phase = "FINISHED" => tx.phase = "FINISHED" \/ finish' # "none"

SameView == UNCHANGED <<view, regressed>>
Faultless == UNCHANGED faults \/ Fault

LEMMA FaultType == ASSUME faults \in Nat, Faultless PROVE faults' \in Nat /\ faults <= faults'
  BY DEF Faultless, Fault

LEMMA SameViewGoesOn == ASSUME SameView PROVE GoesOn(view["buyer"], view'["buyer"])
  BY DEF SameView, GoesOn

LEMMA QuietAround ==
  ASSUME ReadInv, UNCHANGED tx, Faultless,
         regressed => regressed', regressed' \/ GoesOn(view["buyer"], view'["buyer"]),
         req["receipt"] \in {"none", "done", "error"} => req'["receipt"] = req["receipt"],
         finish # "none" => finish' # "none"
  PROVE  Around
<1>1. faults' \in Nat /\ faults <= faults'
  BY FaultType DEF ReadInv, Way
<1>2. QED
  BY <1>1 DEF Around, PaidOrPaying

LEMMA MessageAround ==
  ASSUME ReadInv, NEW m \in {"workhash", "workerurl", "buyersecret", "rejectwork", "acceptresult"},
         Sent(m) \/ SendFails(m), SameView,
         req["receipt"] \in {"none", "done", "error"} => req'["receipt"] = req["receipt"],
         finish # "none" => finish' # "none",
         m = "acceptresult" => finish # "none"
  PROVE  Around
<1>1. /\ \A S \in Lasting : tx.phase \in S => tx'.phase \in S
      /\ tx'.phase = "FINISHED" => tx.phase = "FINISHED" \/ m = "acceptresult"
  BY MessageGoesOn DEF ReadInv, FairInv
<1>2. Faultless
  BY DEF Sent, SendFails, Faultless
<1>3. faults' \in Nat /\ faults <= faults'
  BY <1>2, FaultType DEF ReadInv, Way
<1>4. m = "acceptresult" => PaidOrPaying
  BY DEF ReadInv, FairInv, AcceptsDecrypted, FairExchange
<1>5. PaidOrPaying' => PaidOrPaying
  BY <1>4, MessageMoves DEF ReadInv, FairInv
<1>6. QED
  BY <1>1, <1>3, <1>5, SameViewGoesOn DEF Around, SameView

LEMMA ReceiptAround ==
  ASSUME ReadInv, HandleReceipt, UNCHANGED finish
  PROVE  Around
<1>1. Sent("encresult") \/ SendFails("encresult")
  BY DEF HandleReceipt
<1>2. /\ \A S \in Lasting : tx.phase \in S => tx'.phase \in S
      /\ tx'.phase = "FINISHED" => tx.phase = "FINISHED"
  BY <1>1, MessageGoesOn DEF ReadInv, FairInv
<1>3. faults \in Nat /\ faults' \in Nat /\ faults <= faults'
  <2>1. Faultless
    BY <1>1 DEF Sent, SendFails, Faultless
  <2>2. QED
    BY <2>1, FaultType DEF ReadInv, Way
<1>4. req["receipt"] = "report"
  BY DEF HandleReceipt, Goto, Fails
<1>5. PaidOrPaying' => PaidOrPaying \/ req'["receipt"] = "done" \/ faults' > 0
  <2>1. CASE Sent("encresult") /\ Goto("receipt", "report", "done")
    BY <2>1 DEF Goto, ReadInv, FairInv, Shape, Requests
  <2>2. CASE SendFails("encresult")
    BY <2>2, <1>3 DEF SendFails, Fault, PaidOrPaying
  <2>3. QED
    BY <2>1, <2>2 DEF HandleReceipt
<1>6. SameView
  BY DEF HandleReceipt, SameView
<1>7. QED
  BY <1>2, <1>3, <1>4, <1>5, <1>6, SameViewGoesOn DEF Around, SameView

(***************************************************************************)
(* A write to a view either goes on or goes back to an older revision.     *)
(***************************************************************************)
LEMMA WriteGoesOn ==
  ASSUME Shape, History, NEW p \in Sides, NEW t \in Snapshots, SetView(p, t)
  PROVE  /\ regressed => regressed'
         /\ regressed' \/ GoesOn(view["buyer"], view'["buyer"])
<1>1. view["buyer"] \in Snapshots /\ "buyer" \in Sides
  BY DEF Snapshots, Sides
<1>2. CASE p = "buyer"
  <2>1. view'["buyer"] = t
    BY <1>1, <1>2 DEF SetView, Shape
  <2>2. view["buyer"].rev \in Nat /\ t.rev \in Nat /\ Ordered(view["buyer"], t)
    BY <1>1 DEF History
  <2>3. ~regressed' => view["buyer"].rev <= t.rev
    <3>1. ~regressed' => ~(t.rev < view["buyer"].rev)
      BY <1>2, Zenon DEF SetView
    <3>2. QED
      BY <2>2, <3>1
  <2>4. regressed => regressed'
    BY Zenon DEF SetView
  <2>5. QED
    BY <2>1, <2>2, <2>3, <2>4 DEF Ordered
<1>3. CASE p # "buyer"
  <2>1. view'["buyer"] = view["buyer"]
    BY <1>1, <1>3 DEF SetView, Shape
  <2>2. regressed => regressed'
    BY Zenon DEF SetView
  <2>3. QED
    BY <2>1, <2>2 DEF GoesOn
<1>4. QED
  BY <1>2, <1>3

-----------------------------------------------------------------------------
(***************************************************************************)
(* The parts of Way that no step of the buyer can break, and all of them   *)
(* when others move.                                                       *)
(***************************************************************************)
LEMMA WayAround ==
  ASSUME ReadInv, Around, WaitedFor', NoStaleRead', ResultOnce', ReceiptOnce', Excused'
  PROVE  Way'
<1>1. PaidByReceipt'
  <2>1. faults \in Nat /\ faults' \in Nat /\ faults <= faults'
    BY DEF ReadInv, Way, Around
  <2>2. PaidOrPaying => req["receipt"] = "done" \/ faults > 0
    BY DEF ReadInv, Way, PaidByReceipt
  <2>3. QED
    BY <2>1, <2>2 DEF Around, PaidByReceipt
<1>2. FinishedByBuyer'
  BY DEF ReadInv, Way, FinishedByBuyer, Around
<1>3. QED
  BY <1>1, <1>2 DEF Way, Around

LEMMA WithdrawnStays == ASSUME Around, Withdrawn PROVE Withdrawn'
  BY DEF Around, Withdrawn, GoesOn, Lasting

LEMMA ExcuseStays ==
  ASSUME ReadInv, Around, Excuse, buyer'.result = buyer.result,
         buyer'.unanswered = buyer.unanswered
  PROVE  Excuse'
<1>1. faults \in Nat /\ faults' \in Nat /\ faults <= faults'
  BY DEF ReadInv, Way, Around
<1>2. QED
  BY <1>1 DEF Excuse, Around

LEMMA SeenStays ==
  ASSUME Around
  PROVE  /\ regressed \/ view["buyer"].phase \in Transmitted
              => regressed' \/ view'["buyer"].phase \in Transmitted
         /\ regressed \/ HasKey(view["buyer"]) => regressed' \/ HasKey(view'["buyer"])
  BY DEF Around, GoesOn, Lasting, HasKey

(***************************************************************************)
(* What a step of the buyer has to see to: that it goes on only with what  *)
(* it waited for, and leaves with the result or with an excuse.            *)
(***************************************************************************)
LEMMA BuyerMoves ==
  ASSUME ReadInv, Around,
         buyer'.result = buyer.result, buyer'.unanswered = buyer.unanswered,
         buyer'.sellerErr = buyer.sellerErr, buyer.decrypted => buyer'.decrypted,
         buyer'.pc \in Interacted => buyer.pc \in Interacted \/ view'["buyer"].phase \in Transmitted,
         buyer'.pc = "key" => buyer.pc = "key" \/ HasKey(view'["buyer"]),
         buyer'.pc = "crashed" => buyer.pc = "crashed" \/ regressed',
         buyer'.pc \in BeforeResult => buyer.pc \in BeforeResult,
         buyer'.pc = "receipt" => buyer.pc = "receipt",
         buyer'.pc = "await unverified" => buyer.pc = "await unverified",
         buyer'.pc \in {"leave", "left"} =>
           buyer.pc \in {"leave", "left"} \/ Excuse' \/ Withdrawn' \/ buyer'.decrypted
  PROVE  Way'
<1>1. WaitedFor'
  BY SeenStays DEF ReadInv, Way, WaitedFor, At
<1>2. NoStaleRead' /\ ResultOnce'
  BY DEF ReadInv, Way, NoStaleRead, ResultOnce, At, Around
<1>3. ReceiptOnce'
  BY DEF ReadInv, Way, ReceiptOnce, Around
<1>4. Excused'
  BY WithdrawnStays, ExcuseStays DEF ReadInv, Way, Excused, At
<1>5. QED
  BY <1>1, <1>2, <1>3, <1>4, WayAround

LEMMA OthersMove ==
  ASSUME ReadInv, Around, UNCHANGED buyer
  PROVE  Way'
  BY BuyerMoves

LEMMA BuyerGoes ==
  ASSUME Shape, NEW pc, BuyerTo(pc)
  PROVE  /\ buyer'.pc = pc /\ buyer'.result = buyer.result
         /\ buyer'.unanswered = buyer.unanswered
         /\ buyer'.sellerErr = buyer.sellerErr /\ buyer'.decrypted = buyer.decrypted
  BY DEF Shape, IsBuyer, BuyerTo

LEMMA BuyerGivesUp ==
  ASSUME ReadInv, Around, NEW pc \in {"leave", "left"}, BuyerTo(pc), Excuse'
  PROVE  Way'
<1>1. /\ buyer'.pc = pc /\ buyer'.result = buyer.result
      /\ buyer'.unanswered = buyer.unanswered
      /\ buyer'.sellerErr = buyer.sellerErr /\ buyer'.decrypted = buyer.decrypted
  BY BuyerGoes DEF ReadInv, FairInv
<1>2. buyer'.pc \notin Interacted \cup BeforeResult \cup {"key", "crashed", "receipt"}
  BY <1>1 DEF Interacted, Interacting, BeforeResult, BeforeWork
<1>3. QED
  BY <1>1, <1>2, BuyerMoves DEF Interacted

LEMMA SameSnapshots ==
  ASSUME History, UNCHANGED <<tx, view, fetched>>
  PROVE  History'
  BY PassedOn DEF Snapshots, Fetch

LEMMA SeenLasts ==
  ASSUME History, NEW t \in Snapshots, NEW S \in Lasting, t.phase \in S
  PROVE  tx.phase \in S
<1>1. Fetch \in Snapshots /\ Fetch.rev = tx.rev /\ Fetch.phase = tx.phase
  BY DEF Snapshots, Fetch
<1>2. Ordered(t, Fetch) /\ t.rev <= Fetch.rev
  BY <1>1 DEF History
<1>3. QED
  BY <1>1, <1>2 DEF Ordered, GoesOn

-----------------------------------------------------------------------------
(***************************************************************************)
(* The buyer's steps up to the interaction.                                *)
(***************************************************************************)
LEMMA BuyerBeginsRead == ASSUME ReadInv, BuyerBegins PROVE History' /\ Way'
<1>1. UNCHANGED <<tx, fetched, regressed, req, finish>> /\ At("begin")
  BY DEF BuyerBegins, BeginView, SellerSide, recvVars
<1>2. Shape /\ History /\ Way
  BY DEF ReadInv, FairInv
<1>3. CASE BeginView("buyer") /\ BuyerTo("establish")
  <2>1. History'
    <3>1. Fetch \in Snapshots /\ "buyer" \in Sides
      BY DEF Snapshots, Sides
    <3>2. view' = [view EXCEPT !["buyer"] = Fetch]
      BY <1>3 DEF BeginView
    <3>3. QED
      BY <1>1, <1>2, <3>1, <3>2, ViewPasses, PassedOn
  <2>2. buyer'.pc = "establish" /\ buyer'.result = buyer.result
    BY <1>2, <1>3, BuyerGoes
  <2>3. UNCHANGED faults
    BY <1>3 DEF BeginView
  <2>4. WaitedFor' /\ NoStaleRead' /\ Excused'
    BY <2>2 DEF WaitedFor, NoStaleRead, Excused, At, Interacted, Interacting
  <2>5. ResultOnce' /\ ReceiptOnce'
    BY <1>1, <1>2, <2>2 DEF Way, ResultOnce, ReceiptOnce, BeforeResult, BeforeWork, At
  <2>6. PaidByReceipt' /\ FinishedByBuyer' /\ faults' \in Nat
    BY <1>1, <1>2, <2>3 DEF Way, PaidByReceipt, FinishedByBuyer, PaidOrPaying
  <2>7. QED
    BY <2>1, <2>4, <2>5, <2>6 DEF Way
<1>4. CASE Fault /\ BuyerTo("left") /\ UNCHANGED view
  <2>1. Around
    BY <1>1, <1>4, QuietAround, SameViewGoesOn DEF SameView, Faultless
  <2>2. Excuse'
    BY <1>2, <1>4 DEF Excuse, Fault, Way
  <2>3. Way'
    BY <1>4, <2>1, <2>2, BuyerGivesUp
  <2>4. QED
    BY <1>1, <1>2, <1>4, <2>3, SameSnapshots
<1>5. QED
  BY <1>3, <1>4 DEF BuyerBegins

LEMMA EstablishBuyerRead == ASSUME ReadInv, EstablishBuyer PROVE History' /\ Way'
<1>1. /\ UNCHANGED <<view, fetched, regressed, req, finish>> /\ At("establish")
      /\ Sent("workhash") \/ SendFails("workhash")
  BY DEF EstablishBuyer, Knowledge, SellerSide, recvVars
<1>2. Shape /\ History /\ Way
  BY DEF ReadInv, FairInv
<1>3. History'
  BY <1>1, <1>2, MessageHistory
<1>4. Around
  BY <1>1, MessageAround DEF SameView
<1>5. PICK pc \in {"await transmitting", "leave"} : BuyerTo(pc)
  BY DEF EstablishBuyer
<1>6. ~buyer.result
  BY <1>1, <1>2 DEF Way, ResultOnce, BeforeResult, BeforeWork, At
<1>7. Excuse'
  BY <1>2, <1>5, <1>6, BuyerGoes DEF Excuse
<1>8. QED
  BY <1>1, <1>2, <1>3, <1>4, <1>5, <1>7, BuyerGoes, BuyerMoves
     DEF Interacted, Interacting, BeforeResult, BeforeWork, At

LEMMA UpdateTransactionRead == ASSUME ReadInv, UpdateTransaction PROVE History' /\ Way'
<1>1. UNCHANGED <<tx, req, finish>>
  BY DEF UpdateTransaction, UpdateFetch, UpdateWrite, UpdateFetchFails, SellerSide, recvVars
<1>2. Shape /\ History /\ Way
  BY DEF ReadInv, FairInv
<1>3. "update" \in Fetchers /\ "buyer" \in Sides
  BY DEF Fetchers, Sides
<1>4. CASE UpdateFetch /\ UNCHANGED buyer
  <2>1. UNCHANGED <<view, regressed, faults>> /\ fetched' = [fetched EXCEPT !["update"] = Fetch]
    BY <1>4 DEF UpdateFetch
  <2>2. Fetch \in Snapshots
    BY DEF Snapshots
  <2>3. History'
    BY <1>1, <1>2, <1>3, <2>1, <2>2, FetchPasses, PassedOn
  <2>4. Around
    BY <1>1, <2>1, QuietAround, SameViewGoesOn DEF SameView, Faultless
  <2>5. QED
    BY <1>4, <2>3, <2>4, OthersMove
<1>5. CASE UpdateWrite /\ UNCHANGED buyer
  <2>1. /\ UNCHANGED faults
        /\ fetched' = [fetched EXCEPT !["update"] = NothingFetched]
        /\ SetView("buyer", fetched["update"]) \/ SameView
    BY <1>5 DEF UpdateWrite, SameView
  <2>2. fetched["update"] \in Snapshots /\ NothingFetched \in Snapshots
    BY <1>3 DEF Snapshots
  <2>3. CASE SetView("buyer", fetched["update"])
    <3>1. History'
      BY <1>1, <1>2, <1>3, <2>1, <2>2, <2>3, ViewPasses, PassedOn DEF SetView
    <3>2. Around
      BY <1>1, <1>2, <1>3, <2>1, <2>2, <2>3, QuietAround, WriteGoesOn DEF Faultless
    <3>3. QED
      BY <1>5, <3>1, <3>2, OthersMove
  <2>4. CASE SameView
    <3>1. History'
      BY <1>1, <1>2, <1>3, <2>1, <2>2, <2>4, FetchPasses, PassedOn DEF SameView
    <3>2. Around
      BY <1>1, <2>1, <2>4, QuietAround, SameViewGoesOn DEF SameView, Faultless
    <3>3. QED
      BY <1>5, <3>1, <3>2, OthersMove
  <2>5. QED
    BY <2>1, <2>3, <2>4
<1>6. CASE UpdateFetchFails /\ (BuyerTo("leave") \/ UNCHANGED buyer)
  <2>1. UNCHANGED <<view, fetched, regressed>> /\ Fault
    BY <1>6 DEF UpdateFetchFails
  <2>2. Around
    BY <1>1, <2>1, QuietAround, SameViewGoesOn DEF SameView, Faultless
  <2>3. Excuse'
    BY <1>2, <2>1 DEF Excuse, Fault, Way
  <2>4. CASE BuyerTo("leave")
    BY <1>1, <1>2, <2>1, <2>2, <2>3, <2>4, BuyerGivesUp, SameSnapshots
  <2>5. QED
    BY <1>1, <1>2, <1>6, <2>1, <2>2, <2>4, OthersMove, SameSnapshots
<1>7. QED
  BY <1>4, <1>5, <1>6 DEF UpdateTransaction

(***************************************************************************)
(* A step that leaves all but the buyer alone.                             *)
(***************************************************************************)
LEMMA AloneAround ==
  ASSUME ReadInv, UNCHANGED <<viewVars, SellerSide>>, finish # "none" => finish' # "none"
  PROVE  Around /\ History'
<1>1. UNCHANGED <<tx, view, fetched, regressed, faults, req>>
  BY DEF viewVars, SellerSide, recvVars
<1>2. QED
  BY <1>1, QuietAround, SameViewGoesOn, SameSnapshots DEF SameView, Faultless, ReadInv

LEMMA AwaitTransmittingRead == ASSUME ReadInv, AwaitTransmitting PROVE History' /\ Way'
<1>1. UNCHANGED <<viewVars, finish, SellerSide>> /\ At("await transmitting")
  BY DEF AwaitTransmitting
<1>2. Shape /\ History /\ Way
  BY DEF ReadInv, FairInv
<1>3. Around /\ History'
  BY <1>1, AloneAround
<1>4. /\ buyer'.result = buyer.result /\ buyer'.unanswered = buyer.unanswered
      /\ buyer'.sellerErr = buyer.sellerErr /\ buyer'.decrypted = buyer.decrypted
      /\ buyer'.pc = IF Reached("TRANSMITTING") THEN "probe" ELSE "leave"
  BY <1>2 DEF AwaitTransmitting, Shape, IsBuyer
<1>5. view' = view /\ (Reached("TRANSMITTING") => view["buyer"].phase \in Transmitted)
  BY <1>1 DEF Reached, Transmitted, viewVars
<1>6. Excuse'
  BY <1>1, <1>2, <1>4 DEF Way, ResultOnce, BeforeResult, BeforeWork, At, Excuse
<1>7. QED
  BY <1>1, <1>3, <1>4, <1>5, <1>6, BuyerMoves
     DEF Interacted, Interacting, BeforeResult, BeforeWork, At

-----------------------------------------------------------------------------
(***************************************************************************)
(* The interaction.  If it ends with an error, either there is no result   *)
(* yet, or the receipt was not sent, or was refused, or its answer missed. *)
(***************************************************************************)
LEMMA EndRead ==
  ASSUME ReadInv, NEW err, InteractionEnds(err), buyer.pc \in Interacting, Faultless
  PROVE  History' /\ Way'
<1>1. Shape /\ History /\ Way
  BY DEF ReadInv, FairInv
<1>2. UNCHANGED <<tx, view, fetched, regressed, req, finish>>
  BY DEF InteractionEnds, Knowledge
<1>3. History'
  BY <1>1, <1>2, SameSnapshots
<1>4. Around
  BY <1>2, QuietAround, SameViewGoesOn DEF SameView
<1>5. /\ buyer'.pc = "await unverified" /\ buyer'.result = buyer.result
      /\ buyer'.sellerErr = err
      /\ buyer'.unanswered = (At("signed") /\ req["receipt"] # "error" /\ err)
  BY <1>1 DEF InteractionEnds, Shape, IsBuyer
<1>6. err => Excuse'
  <2>1. CASE buyer.pc \in BeforeResult
    BY <1>1, <1>5, <2>1 DEF Way, ResultOnce, Excuse
  <2>2. CASE buyer.pc = "receipt"
    BY <1>1, <1>2, <2>2 DEF Way, ReceiptOnce, Excuse
  <2>3. CASE buyer.pc = "signed" /\ req["receipt"] = "error"
    BY <1>2, <2>3 DEF Excuse
  <2>4. CASE buyer.pc = "signed" /\ req["receipt"] # "error"
    <3>1. err => buyer'.unanswered
      BY <1>5, <2>4 DEF At
    <3>2. QED
      BY <3>1 DEF Excuse
  <2>5. QED
    BY <2>1, <2>2, <2>3, <2>4 DEF Interacting, BeforeResult, BeforeWork
<1>7. WaitedFor'
  BY <1>1, <1>2, <1>5 DEF Way, WaitedFor, At, Interacted
<1>8. /\ NoStaleRead' /\ ResultOnce' /\ ReceiptOnce'
  BY <1>5 DEF NoStaleRead, ResultOnce, ReceiptOnce, BeforeResult, BeforeWork, At
<1>9. Excused'
  BY <1>5, <1>6 DEF Excused, At
<1>10. QED
  BY <1>3, <1>4, <1>7, <1>8, <1>9, WayAround

(***************************************************************************)
(* The receipt is sent.                                                    *)
(***************************************************************************)
LEMMA ReceiptSentRead ==
  ASSUME ReadInv, At("receipt"), BuyerTo("signed"),
         req' = [req EXCEPT !["receipt"] = "queued"], UNCHANGED <<viewVars, finish>>
  PROVE  History' /\ Way'
<1>1. Shape /\ History /\ Way
  BY DEF ReadInv, FairInv
<1>2. UNCHANGED <<tx, view, fetched, regressed, faults>>
  BY DEF viewVars
<1>3. buyer'.pc = "signed"
  BY <1>1, BuyerGoes
<1>4. WaitedFor'
  BY <1>1, <1>2, <1>3 DEF Way, WaitedFor, At, Interacted, Interacting
<1>5. NoStaleRead' /\ ResultOnce' /\ ReceiptOnce' /\ Excused'
  BY <1>3 DEF NoStaleRead, ResultOnce, ReceiptOnce, Excused, BeforeResult, BeforeWork, At
<1>6. PaidByReceipt'
  <2>1. req["receipt"] = "none"
    BY <1>1 DEF Way, ReceiptOnce, At
  <2>2. QED
    BY <1>1, <1>2, <2>1 DEF Way, PaidByReceipt, PaidOrPaying
<1>7. FinishedByBuyer' /\ faults' \in Nat
  BY <1>1, <1>2 DEF Way, FinishedByBuyer
<1>8. QED
  BY <1>1, <1>2, <1>4, <1>5, <1>6, <1>7, SameSnapshots DEF Way

LEMMA PostRead ==
  ASSUME ReadInv, NEW r \in Requests, NEW from, NEW to, Post(r, from, to),
         <<r, from, to>> \in {<<"sync", "list", "listed">>, <<"work", "work", "working">>,
                              <<"receipt", "receipt", "signed">>}
  PROVE  History' /\ Way'
<1>1. from \in Interacting /\ At(from)
  BY DEF Interacting, Post
<1>2. CASE InteractionEnds(TRUE) /\ Faultless
  BY <1>1, <1>2, EndRead DEF At
<1>3. CASE /\ req' = [req EXCEPT ![r] = "queued"] /\ BuyerTo(to)
           /\ UNCHANGED <<viewVars, recv, sending, cut, finish, seller>>
  <2>1. CASE r = "receipt"
    BY <1>1, <1>3, <2>1, ReceiptSentRead
  <2>2. CASE r # "receipt"
    <3>1. UNCHANGED <<tx, view, fetched, regressed, faults>>
      BY <1>3 DEF viewVars
    <3>2. req'["receipt"] = req["receipt"]
      BY <1>3, <2>2 DEF ReadInv, FairInv, Shape, Requests
    <3>3. Around
      BY <1>3, <3>1, <3>2, QuietAround, SameViewGoesOn DEF SameView, Faultless
    <3>4. /\ buyer'.pc = to /\ buyer'.result = buyer.result
          /\ buyer'.unanswered = buyer.unanswered
          /\ buyer'.sellerErr = buyer.sellerErr /\ buyer'.decrypted = buyer.decrypted
      BY <1>3, BuyerGoes DEF ReadInv, FairInv
    <3>5. buyer.pc \in BeforeResult /\ buyer.pc \in Interacted /\ to \in {"listed", "working"}
      BY <1>1, <2>2 DEF At, BeforeResult, BeforeWork, Interacted, Interacting
    <3>6. Way'
      BY <3>3, <3>4, <3>5, BuyerMoves
    <3>7. QED
      BY <3>1, <3>6, SameSnapshots DEF ReadInv
  <2>3. QED
    BY <2>1, <2>2
<1>4. QED
  BY <1>2, <1>3 DEF Post, Faultless

LEMMA ReceivedRead == ASSUME ReadInv, Received PROVE History' /\ Way'
<1>1. UNCHANGED <<viewVars, finish, SellerSide>> /\ At("working")
  BY DEF Received
<1>2. Shape /\ Way
  BY DEF ReadInv, FairInv
<1>3. Around /\ History'
  BY <1>1, AloneAround
<1>4. buyer'.pc = "receipt"
  BY <1>2 DEF Received, Shape, IsBuyer
<1>5. UNCHANGED <<view, regressed, req>>
  BY <1>1 DEF viewVars, SellerSide, recvVars
<1>6. WaitedFor'
  BY <1>1, <1>2, <1>4, <1>5 DEF Way, WaitedFor, At, Interacted, Interacting
<1>7. NoStaleRead' /\ ResultOnce' /\ Excused'
  BY <1>4 DEF NoStaleRead, ResultOnce, Excused, BeforeResult, BeforeWork, At
<1>8. ReceiptOnce'
  BY <1>1, <1>2, <1>5 DEF Way, ReceiptOnce, BeforeResult, At
<1>9. QED
  BY <1>3, <1>6, <1>7, <1>8, WayAround

LEMMA InteractRead == ASSUME ReadInv, Interact PROVE History' /\ Way'
<1>1. Shape /\ Way
  BY DEF ReadInv, FairInv
<1>2. CASE Probe \/ Listed
  <2>1. /\ UNCHANGED <<viewVars, finish, SellerSide>>
        /\ buyer.pc \in BeforeResult \cap Interacted
    BY <1>2 DEF Probe, Listed, At, BeforeResult, BeforeWork, Interacted, Interacting
  <2>2. PICK pc \in {"work", "list"} : BuyerTo(pc)
    BY <1>2 DEF Probe, Listed
  <2>3. /\ buyer'.pc = pc /\ buyer'.result = buyer.result
        /\ buyer'.unanswered = buyer.unanswered
        /\ buyer'.sellerErr = buyer.sellerErr /\ buyer'.decrypted = buyer.decrypted
    BY <1>1, <2>2, BuyerGoes
  <2>4. QED
    BY <2>1, <2>3, AloneAround, BuyerMoves
<1>3. CASE PostCrashes
  <2>1. /\ UNCHANGED <<viewVars, finish, SellerSide>> /\ UNCHANGED regressed
        /\ buyer.pc \in Interacted
    BY <1>3 DEF PostCrashes, viewVars, Interacted, Interacting
  <2>2. /\ buyer'.pc = "crashed" /\ buyer'.result = buyer.result
        /\ buyer'.unanswered = buyer.unanswered
        /\ buyer'.sellerErr = buyer.sellerErr /\ buyer'.decrypted = buyer.decrypted
    BY <1>1, <1>3, BuyerGoes DEF PostCrashes
  <2>3. regressed
    <3>1. view["buyer"].phase \notin Transmitted
      BY <1>3 DEF PostCrashes, HasURL, Transmitted
    <3>2. QED
      BY <1>1, <2>1, <3>1 DEF Way, WaitedFor
  <2>4. buyer'.pc \notin Interacted \cup BeforeResult
    BY <2>2 DEF Interacted, Interacting, BeforeResult, BeforeWork
  <2>5. QED
    BY <2>1, <2>2, <2>3, <2>4, AloneAround, BuyerMoves
<1>4. CASE Post("sync", "list", "listed") \/ Post("work", "work", "working")
             \/ Post("receipt", "receipt", "signed")
  BY <1>4, PostRead DEF Requests
<1>5. CASE Received
  BY <1>5, ReceivedRead
<1>6. CASE Answered \/ ConnectionLost
  BY <1>6, EndRead DEF Answered, ConnectionLost, Requesting, Interacting, At, Faultless
<1>7. CASE Watchdog
  <2>1. CASE InteractionEnds(TRUE) /\ UNCHANGED faults
    BY <1>7, <2>1, EndRead DEF Watchdog, Faultless
  <2>2. CASE /\ buyer' = [buyer EXCEPT !.watched = FALSE]
             /\ UNCHANGED <<viewVars, finish, SellerSide>>
    <3>1. /\ buyer'.pc = buyer.pc /\ buyer'.result = buyer.result
          /\ buyer'.unanswered = buyer.unanswered
          /\ buyer'.sellerErr = buyer.sellerErr /\ buyer'.decrypted = buyer.decrypted
      BY <1>1, <2>2 DEF Shape, IsBuyer
    <3>2. QED
      BY <2>2, <3>1, AloneAround, BuyerMoves
  <2>3. QED
    BY <1>7, <2>1, <2>2 DEF Watchdog
<1>8. QED
  BY <1>2, <1>3, <1>4, <1>5, <1>6, <1>7 DEF Interact

-----------------------------------------------------------------------------
(***************************************************************************)
(* The buyer after the interaction.  What it sees that is not what it waits*)
(* for is the end: disputed, or accepted by itself.                        *)
(***************************************************************************)
LEMMA AwaitUnverifiedRead == ASSUME ReadInv, AwaitUnverified PROVE History' /\ Way'
<1>1. UNCHANGED <<viewVars, finish, SellerSide>> /\ At("await unverified")
  BY DEF AwaitUnverified
<1>2. FairInv /\ Shape /\ History /\ Way
  BY DEF ReadInv, FairInv
<1>3. Around /\ History'
  BY <1>1, AloneAround
<1>4. UNCHANGED <<tx, view, regressed, faults, req>>
  BY <1>1 DEF viewVars, SellerSide, recvVars
<1>5. PICK pc \in {"key", "leave"} :
        BuyerTo(pc) /\ (pc = "key" <=> Reached("UNVERIFIED") /\ ~buyer.sellerErr)
  BY DEF AwaitUnverified
<1>6. /\ buyer'.pc = pc /\ buyer'.result = buyer.result
      /\ buyer'.unanswered = buyer.unanswered
      /\ buyer'.sellerErr = buyer.sellerErr /\ buyer'.decrypted = buyer.decrypted
  BY <1>2, <1>5, BuyerGoes
<1>7. pc = "key" => HasKey(view'["buyer"])
  BY <1>4, <1>5 DEF Reached, HasKey
<1>8. pc = "leave" => Excuse' \/ Withdrawn' \/ buyer'.decrypted
  <2> SUFFICES ASSUME pc = "leave" PROVE Excuse' \/ Withdrawn' \/ buyer'.decrypted
    OBVIOUS
  <2>1. CASE buyer.sellerErr
    BY <1>1, <1>2, <1>3, <1>6, <2>1, ExcuseStays DEF Way, Excused
  <2>2. CASE Withdrawn
    BY <1>3, <2>2, WithdrawnStays
  <2>3. CASE ~buyer.sellerErr /\ ~Withdrawn
    <3>1. view["buyer"] \in Snapshots
      BY DEF Snapshots, Sides
    <3>2. view["buyer"].phase \in Transmitted
      BY <1>1, <1>2, <2>3 DEF Way, WaitedFor, Withdrawn, Interacted, At
    <3>3. view["buyer"].phase \notin {"TRANSMITTING", "WORKING", "UNVERIFIED"}
      BY <1>5, <2>3 DEF AwaitUnverified, WaitEnds, Reached, Withdrawn
    <3>4. view["buyer"].phase \notin Disputed
      BY <1>2, <2>3, <3>1, SeenLasts DEF Lasting, Withdrawn
    <3>5. tx.phase \in {"FINISHED"}
      BY <1>2, <3>1, <3>2, <3>3, <3>4, SeenLasts DEF Transmitted, Disputed, Lasting
    <3>6. buyer.decrypted
      BY <1>2, <3>5 DEF Way, FinishedByBuyer, FairInv, AcceptsDecrypted
    <3>7. QED
      BY <1>6, <3>6
  <2>4. QED
    BY <2>1, <2>2, <2>3
<1>9. buyer'.pc \notin Interacted \cup BeforeResult
  BY <1>6 DEF Interacted, Interacting, BeforeResult, BeforeWork
<1>10. QED
  BY <1>3, <1>6, <1>7, <1>8, <1>9, BuyerMoves

LEMMA DecryptRead == ASSUME ReadInv, Decrypt PROVE History' /\ Way'
<1>1. UNCHANGED <<viewVars, SellerSide>> /\ At("key") /\ (finish # "none" => finish' # "none")
  BY DEF Decrypt
<1>2. Shape /\ Way
  BY DEF ReadInv, FairInv
<1>3. Around /\ History'
  BY <1>1, AloneAround
<1>4. CASE HasKey(view["buyer"])
  <2>1. /\ buyer'.pc = "leave" /\ buyer'.result = buyer.result
        /\ buyer'.unanswered = buyer.unanswered
        /\ buyer'.sellerErr = buyer.sellerErr /\ buyer'.decrypted = TRUE
    BY <1>2, <1>4 DEF Decrypt, Shape, IsBuyer
  <2>2. buyer'.pc \notin Interacted \cup BeforeResult
    BY <2>1 DEF Interacted, Interacting, BeforeResult, BeforeWork
  <2>3. QED
    BY <1>3, <2>1, <2>2, BuyerMoves
<1>5. CASE ~HasKey(view["buyer"])
  <2>1. /\ buyer'.pc = "crashed" /\ buyer'.result = buyer.result
        /\ buyer'.unanswered = buyer.unanswered
        /\ buyer'.sellerErr = buyer.sellerErr /\ buyer'.decrypted = buyer.decrypted
    BY <1>2, <1>5, BuyerGoes DEF Decrypt
  <2>2. buyer'.pc \notin Interacted \cup BeforeResult
    BY <2>1 DEF Interacted, Interacting, BeforeResult, BeforeWork
  <2>3. regressed'
    BY <1>1, <1>2, <1>5 DEF Way, WaitedFor, viewVars
  <2>4. QED
    BY <1>3, <2>1, <2>2, <2>3, BuyerMoves
<1>6. QED
  BY <1>4, <1>5

LEMMA BuyerLeavesRead == ASSUME ReadInv, BuyerLeaves PROVE History' /\ Way'
<1>1. UNCHANGED <<tx, view, fetched, regressed, faults, req, finish>>
  BY DEF BuyerLeaves, Knowledge, SellerSide, recvVars
<1>2. Around
  BY <1>1, QuietAround, SameViewGoesOn DEF SameView, Faultless
<1>3. /\ buyer.pc = "leave" /\ buyer'.pc = "left" /\ buyer'.result = buyer.result
      /\ buyer'.unanswered = buyer.unanswered
      /\ buyer'.sellerErr = buyer.sellerErr /\ buyer'.decrypted = buyer.decrypted
  BY BuyerGoes DEF BuyerLeaves, At, ReadInv, FairInv
<1>4. buyer'.pc \notin Interacted \cup BeforeResult
  BY <1>3 DEF Interacted, Interacting, BeforeResult, BeforeWork
<1>5. QED
  BY <1>1, <1>2, <1>3, <1>4, BuyerMoves, SameSnapshots DEF ReadInv

-----------------------------------------------------------------------------
(***************************************************************************)
(* The others: finishBuy, the seller, the server, pollers and requests.    *)
(***************************************************************************)
LEMMA OthersSend ==
  ASSUME ReadInv, NEW m \in {"workerurl", "buyersecret", "rejectwork", "acceptresult"},
         Sent(m) \/ SendFails(m), UNCHANGED <<view, fetched, regressed, buyer>>,
         req["receipt"] \in {"none", "done", "error"} => req'["receipt"] = req["receipt"],
         finish # "none" => finish' # "none",
         m = "acceptresult" => finish # "none"
  PROVE  History' /\ Way'
<1>1. History'
  BY MessageHistory DEF ReadInv, FairInv
<1>2. Around
  BY MessageAround DEF SameView
<1>3. QED
  BY <1>1, <1>2, OthersMove

LEMMA OthersQuiet ==
  ASSUME ReadInv, UNCHANGED <<tx, view, fetched, regressed, faults, buyer>>,
         req["receipt"] \in {"none", "done", "error"} => req'["receipt"] = req["receipt"],
         finish # "none" => finish' # "none"
  PROVE  History' /\ Way'
<1>1. Around
  BY QuietAround, SameViewGoesOn DEF SameView, Faultless
<1>2. QED
  BY <1>1, OthersMove, SameSnapshots DEF ReadInv

LEMMA FinishRead ==
  ASSUME ReadInv, FinishBegins \/ FinishWaits \/ FinishLeaves
  PROVE  History' /\ Way'
<1>1. CASE FinishBegins
  BY <1>1, OthersSend DEF FinishBegins, Knowledge, SellerSide, recvVars
<1>2. CASE FinishWaits
  BY <1>2, OthersQuiet DEF FinishWaits, viewVars, SellerSide, recvVars
<1>3. CASE FinishLeaves
  BY <1>3, OthersQuiet DEF FinishLeaves, Knowledge, SellerSide, recvVars
<1>4. QED
  BY <1>1, <1>2, <1>3

LEMMA SellerRead ==
  ASSUME ReadInv, SellerBegins \/ EstablishSeller \/ SellerLeaves \/ PollingEnds
  PROVE  History' /\ Way'
<1>1. CASE SellerBegins
  <2>1. UNCHANGED <<tx, fetched, regressed, req, buyer, finish>> /\ Faultless
    BY <1>1 DEF SellerBegins, BeginView, BuyerSide, Faultless
  <2>2. CASE view' = [view EXCEPT !["seller"] = Fetch]
    <3>1. Fetch \in Snapshots /\ "seller" \in Sides
      BY DEF Snapshots, Sides
    <3>2. History'
      BY <2>1, <2>2, <3>1, ViewPasses, PassedOn DEF ReadInv, FairInv
    <3>3. view'["buyer"] = view["buyer"]
      BY <2>2 DEF ReadInv, FairInv, Shape, Sides
    <3>4. Around
      BY <2>1, <3>3, QuietAround DEF GoesOn
    <3>5. QED
      BY <2>1, <3>2, <3>4, OthersMove
  <2>3. CASE UNCHANGED view
    <3>1. Around
      BY <2>1, <2>3, QuietAround, SameViewGoesOn DEF SameView
    <3>2. QED
      BY <2>1, <2>3, <3>1, OthersMove, SameSnapshots DEF ReadInv
  <2>4. QED
    BY <1>1, <2>2, <2>3 DEF SellerBegins, BeginView
<1>2. CASE EstablishSeller
  BY <1>2, OthersSend DEF EstablishSeller, Knowledge, BuyerSide, recvVars
<1>3. CASE SellerLeaves
  BY <1>3, OthersQuiet DEF SellerLeaves, viewVars, BuyerSide, recvVars
<1>4. CASE PollingEnds
  BY <1>4, OthersQuiet DEF PollingEnds, Knowledge, BuyerSide
<1>5. QED
  BY <1>1, <1>2, <1>3, <1>4

LEMMA ServerRead ==
  ASSUME ReadInv, Timeout \/ Retire, UNCHANGED <<BuyerSide, SellerSide>>
  PROVE  History' /\ Way'
<1>1. UNCHANGED <<view, fetched, regressed, faults, req, buyer, finish>>
  BY DEF Timeout, Retire, BuyerSide, SellerSide, recvVars
<1>2. Shape /\ History /\ faults \in Nat
  BY DEF ReadInv, FairInv, Way
<1>3. tx'.phase = tx.phase
  BY <1>2 DEF Timeout, Retire, Shape, IsTx
<1>4. History'
  <2>1. CASE Timeout
    <3>1. Fetch' = Fetch /\ tx'.rev = tx.rev
      BY <1>2, <2>1 DEF Timeout, Fetch, Shape, IsTx
    <3>2. QED
      BY <1>1, <1>2, <3>1 DEF History, Snapshots
  <2>2. CASE Retire
    <3>1. tx'.rev = tx.rev + 1 /\ tx'.active = FALSE
      BY <1>2, <2>2 DEF Retire, Shape, IsTx
    <3>2. GoesOn(Fetch, Fetch')
      BY <1>3, <3>1 DEF GoesOn, Fetch
    <3>3. QED
      BY <1>1, <1>2, <3>1, <3>2, Added
  <2>3. QED
    BY <2>1, <2>2
<1>5. Around
  BY <1>1, <1>2, <1>3, SameViewGoesOn DEF Around, SameView, PaidOrPaying
<1>6. QED
  BY <1>1, <1>4, <1>5, OthersMove

LEMMA PollingRead == ASSUME ReadInv, NEW q \in Pollers, Polling(q) PROVE History' /\ Way'
<1>1. UNCHANGED <<tx, faults, req, buyer, finish>>
  BY DEF Polling, Poll, PollWrite, BuyerSide, SellerSide, recvVars
<1>2. Shape /\ History
  BY DEF ReadInv, FairInv
<1>3. q \in Fetchers /\ SideOf(q) \in Sides
  BY DEF Fetchers, SideOf, Sides
<1>4. {Fetch, NothingFetched, fetched[q]} \subseteq Snapshots
  BY <1>3 DEF Snapshots
<1>5. CASE Poll(q)
  <2>1. SameView /\ fetched' = [fetched EXCEPT ![q] = Fetch]
    BY <1>5 DEF Poll, SameView
  <2>2. History'
    BY <1>1, <1>2, <1>3, <1>4, <2>1, FetchPasses, PassedOn DEF SameView
  <2>3. Around
    BY <1>1, <2>1, QuietAround, SameViewGoesOn DEF SameView, Faultless
  <2>4. QED
    BY <1>1, <2>2, <2>3, OthersMove
<1>6. CASE PollWrite(q) /\ SetView(SideOf(q), fetched[q])
  <2>1. fetched' = [fetched EXCEPT ![q] = NothingFetched]
    BY <1>6 DEF PollWrite
  <2>2. History'
    BY <1>1, <1>2, <1>3, <1>4, <1>6, <2>1, ViewPasses, PassedOn DEF SetView
  <2>3. Around
    BY <1>1, <1>2, <1>3, <1>4, <1>6, QuietAround, WriteGoesOn DEF Faultless
  <2>4. QED
    BY <1>1, <2>2, <2>3, OthersMove
<1>7. CASE PollWrite(q) /\ SameView
  <2>1. fetched' = [fetched EXCEPT ![q] = NothingFetched]
    BY <1>7 DEF PollWrite
  <2>2. History'
    BY <1>1, <1>2, <1>3, <1>4, <1>7, <2>1, FetchPasses, PassedOn DEF SameView
  <2>3. Around
    BY <1>1, <1>7, QuietAround, SameViewGoesOn DEF SameView, Faultless
  <2>4. QED
    BY <1>1, <2>2, <2>3, OthersMove
<1>8. PollWrite(q) => SetView(SideOf(q), fetched[q]) \/ SameView
  BY DEF PollWrite, SameView
<1>9. QED
  BY <1>5, <1>6, <1>7, <1>8 DEF Polling

LEMMA HandleRead ==
  ASSUME ReadInv, Handle, UNCHANGED BuyerSide
  PROVE  History' /\ Way'
<1>1. UNCHANGED <<buyer, finish>> /\ Shape
  BY DEF BuyerSide, ReadInv, FairInv
<1>2. CASE PublishSecret
  <2>1. req'["receipt"] = req["receipt"]
    BY <1>1, <1>2 DEF PublishSecret, Goto, Fails, Shape, Requests
  <2>2. QED
    BY <1>1, <1>2, <2>1, OthersSend DEF PublishSecret
<1>3. CASE RejectWork
  <2>1. req'["receipt"] = req["receipt"]
    BY <1>1, <1>3 DEF RejectWork, Goto, Fails, Shape, Requests
  <2>2. QED
    BY <1>1, <1>3, <2>1, OthersSend DEF RejectWork
<1>4. CASE HandleReceipt
  <2>1. Around
    BY <1>1, <1>4, ReceiptAround
  <2>2. History'
    BY <1>1, <1>4, MessageHistory DEF HandleReceipt, ReadInv
  <2>3. QED
    BY <1>1, <2>1, <2>2, OthersMove
<1>5. CASE UNCHANGED viewVars /\ SomeRequestGoesOn
  <2>1. PICK r \in Requests : \E from, to : GoesFrom(r, from, to)
    BY <1>5 DEF SomeRequestGoesOn
  <2>2. PICK from, to : GoesFrom(r, from, to)
    BY <2>1
  <2>3. req["receipt"] \in {"none", "done", "error"} => req'["receipt"] = req["receipt"]
    BY <1>1, <2>2 DEF GoesFrom, Goto, Shape, Requests
  <2>4. QED
    BY <1>1, <1>5, <2>3, OthersQuiet DEF viewVars
<1>6. QED
  BY <1>2, <1>3, <1>4, <1>5, QuietHandle DEF Handle

-----------------------------------------------------------------------------
LEMMA InitRead == Init => ReadInv
<1> SUFFICES ASSUME Init PROVE ReadInv
  OBVIOUS
<1>1. Fetch = NothingFetched
  BY DEF Init, ViewInit, Fetch, NothingFetched
<1>2. Snapshots = {NothingFetched} /\ tx.rev = 0
  BY <1>1 DEF Init, ViewInit, Snapshots, Fetchers
<1>3. History
  BY <1>2 DEF History, Ordered, GoesOn, NothingFetched
<1>4. Way
  BY DEF Init, ViewInit, ReceiverInit, Way, WaitedFor, NoStaleRead, ResultOnce, ReceiptOnce,
         PaidByReceipt, FinishedByBuyer, Excused, At, Interacted, Interacting, PaidOrPaying, Requests
<1>5. QED
  BY <1>3, <1>4, InitFair DEF ReadInv

LEMMA NextRead == ASSUME ReadInv, [Next]_vars PROVE ReadInv'
<1> SUFFICES History' /\ Way'
  BY NextFair DEF ReadInv
<1>1. CASE BuyerBegins
  BY <1>1, BuyerBeginsRead
<1>2. CASE EstablishBuyer
  BY <1>2, EstablishBuyerRead
<1>3. CASE UpdateTransaction
  BY <1>3, UpdateTransactionRead
<1>4. CASE AwaitTransmitting
  BY <1>4, AwaitTransmittingRead
<1>5. CASE Interact
  BY <1>5, InteractRead
<1>6. CASE AwaitUnverified
  BY <1>6, AwaitUnverifiedRead
<1>7. CASE Decrypt
  BY <1>7, DecryptRead
<1>8. CASE BuyerLeaves
  BY <1>8, BuyerLeavesRead
<1>9. CASE FinishBegins \/ FinishWaits \/ FinishLeaves
  BY <1>9, FinishRead
<1>10. CASE SellerBegins \/ EstablishSeller \/ SellerLeaves \/ PollingEnds
  BY <1>10, SellerRead
<1>11. CASE Handle /\ UNCHANGED <<BuyerSide, seller>>
  BY <1>11, HandleRead
<1>12. CASE Clean /\ UNCHANGED <<BuyerSide, seller>>
  BY <1>12, OthersQuiet DEF Clean, viewVars, BuyerSide
<1>13. CASE (Timeout \/ Retire) /\ UNCHANGED <<BuyerSide, SellerSide>>
  BY <1>13, ServerRead
<1>14. CASE \E q \in Pollers : Polling(q)
  BY <1>14, PollingRead
<1>15. CASE UNCHANGED vars
  BY <1>15, OthersQuiet DEF vars, viewVars, recvVars
<1>16. QED
  BY <1>1, <1>2, <1>3, <1>4, <1>5, <1>6, <1>7, <1>8, <1>9, <1>10, <1>11, <1>12, <1>13,
     <1>14, <1>15 DEF Next, Act

LEMMA WayDecrypts == ReadInv => PaidResultDecrypted
<1> SUFFICES ASSUME ReadInv, At("left"), PaidOrPaying, ~buyer.decrypted
             PROVE  buyer.unanswered \/ faults > 0 \/ ~view["buyer"].active \/ regressed
  BY DEF PaidResultDecrypted
<1>1. buyer.result
  BY DEF ReadInv, FairInv, FairExchange
<1>2. req["receipt"] = "done" \/ faults > 0
  BY DEF ReadInv, Way, PaidByReceipt
<1>3. tx.phase \notin Disputed
  BY DEF PaidOrPaying, Disputed
<1>4. Excuse \/ Withdrawn
  BY DEF ReadInv, Way, Excused, At
<1>5. QED
  BY <1>1, <1>2, <1>3, <1>4 DEF Excuse, Withdrawn

(***************************************************************************)
(* What the buyer dereferences is there, unless the view went back.        *)
(***************************************************************************)
THEOREM ReadsAreNotStale == Spec => []NoStaleRead
<1>1. Init => ReadInv
  BY InitRead
<1>2. ReadInv /\ [Next]_vars => ReadInv'
  BY NextRead
<1>3. ReadInv => NoStaleRead
  BY DEF ReadInv, Way
<1>4. QED
  BY <1>1, <1>2, <1>3, PTL DEF Spec

(***************************************************************************)
(* A buy that pays for a result decrypts it, unless the answer to the      *)
(* receipt was missed, a request lost, the transaction retired first or the*)
(* view overwritten by an older state.                                     *)
(***************************************************************************)
THEOREM PaidIsDecrypted == Spec => []PaidResultDecrypted
<1>1. Init => ReadInv
  BY InitRead
<1>2. ReadInv /\ [Next]_vars => ReadInv'
  BY NextRead
<1>3. ReadInv => PaidResultDecrypted
  BY WayDecrypts
<1>4. QED
  BY <1>1, <1>2, <1>3, PTL DEF Spec
=============================================================================
