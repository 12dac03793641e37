------------------------------ MODULE Receiver ------------------------------
(***************************************************************************)
(* The seller's endpointReceiver (client/client2client.go): it takes the   *)
(* buyer's requests, has the work done and hands out the encrypted result. *)
(* Requests are handled by goroutines of their own, which hold the mutex   *)
(* of the receiver except while they read the sync info, list the missing  *)
(* chunks, reconstruct the work from chunks, have the work done or pass on *)
(* the receipt.  Meanwhile the receiver may be disposed of: by the end of  *)
(* the sell, or by an error in any request.                                *)
(***************************************************************************)
EXTENDS TradeView

VARIABLES
  recv,     (* fields of endpointReceiver: whether they are set            *)
  req,      (* requests: information of the chunks, the work, the receipt  *)
  sending,  (* the mutex is held while the result is sent                  *)
  cut       (* the buyer has closed the connections of its requests        *)

recvVars == <<recv, req, sending, cut>>

Requests == {"sync", "work", "receipt"}

ReceiverTypeOK ==
  /\ recv \in [state : {"none", "live", "marked", "cleaned"}, error : BOOLEAN,
               builder : BOOLEAN, secret : BOOLEAN, work : BOOLEAN,
               result : BOOLEAN, sig : BOOLEAN]
  /\ req \in [Requests -> {"none", "queued", "decode", "list", "rebuild", "handle",
                           "publish", "work", "reject", "result", "send",
                           "report", "done", "error"}]
  /\ sending \in BOOLEAN /\ cut \in BOOLEAN

ReceiverInit ==
  /\ recv = [state |-> "none", error |-> FALSE, builder |-> FALSE, secret |-> FALSE,
             work |-> FALSE, result |-> FALSE, sig |-> FALSE]
  /\ req = [r \in Requests |-> "none"]
  /\ sending = FALSE
  /\ cut = FALSE

Reachable == recv.state \in {"live", "marked"}   (* the endpoint is registered *)
Free == ~sending
Goto(r, from, to) == req[r] = from /\ req' = [req EXCEPT ![r] = to]

(* doDispose's first section.                                              *)
Marked(error) ==
  IF recv.state = "live" THEN [recv EXCEPT !.state = "marked", !.error = error] ELSE recv

(* handleRequest returns an error: serveHTTP disposes of the receiver.     *)
Fails(r, from) == Goto(r, from, "error") /\ recv' = Marked(TRUE)

(* doDispose's second section.  What is set afterwards is never disposed.  *)
Clean ==
  /\ recv.state = "marked" /\ Free
  /\ recv' = [recv EXCEPT !.state = "cleaned", !.builder = FALSE, !.work = FALSE,
                          !.result = FALSE]
  /\ UNCHANGED <<viewVars, req, sending, cut>>

(* Connections that were closed before the request was read.               *)
Dropped(r) ==
  /\ cut /\ Free
  /\ \/ Fails(r, "queued")
     \/ Goto(r, "queued", "error") /\ UNCHANGED recv
  /\ UNCHANGED <<viewVars, sending, cut>>
-----------------------------------------------------------------------------
(* Part syncinfojson, and the buyer's secret in the same message.          *)
SyncQueued ==
  /\ Free
  /\ IF recv.builder \/ recv.work
     THEN Fails("sync", "queued")
     ELSE Goto("sync", "queued", "decode") /\ UNCHANGED recv
  /\ UNCHANGED <<viewVars, sending, cut>>

(* The tickets are put into URLs: a panic when the endpoint is nil.        *)
SyncDecoded ==
  /\ Free
  /\ \/ cut /\ Fails("sync", "decode")
     \/ /\ ~cut /\ Goto("sync", "decode", IF Reachable THEN "list" ELSE "error")
        /\ recv' = [recv EXCEPT !.builder = TRUE, !.secret = TRUE]
  /\ UNCHANGED <<viewVars, sending, cut>>

(* A panic when the builder is nil.                                        *)
WishListWritten ==
  /\ \/ ~cut /\ recv.builder /\ Goto("sync", "list", "done") /\ UNCHANGED recv
     \/ cut /\ Fails("sync", "list")
     \/ ~recv.builder /\ Goto("sync", "list", "error") /\ UNCHANGED recv
  /\ UNCHANGED <<viewVars, sending, cut>>

(* Part chunkdata, or part work with the buyer's secret when the work was  *)
(* not announced by a sync info.                                           *)
Chunked == req["sync"] # "none"

WorkQueued ==
  /\ Free
  /\ \/ /\ Chunked /\ recv.builder /\ ~recv.work
        /\ Goto("work", "queued", "rebuild") /\ UNCHANGED recv
     \/ /\ ~Chunked /\ ~cut /\ Goto("work", "queued", "handle")
        /\ recv' = [recv EXCEPT !.work = TRUE, !.secret = TRUE]
     \/ (Chunked /\ ~recv.builder) /\ Fails("work", "queued")
  /\ UNCHANGED <<viewVars, sending, cut>>

(* The chunks come as the buyer reads the list of missing ones; a builder  *)
(* that is disposed of meanwhile gives an error.                           *)
WorkRebuilt ==
  /\ Free
  /\ \/ /\ ~cut /\ req["sync"] = "done" /\ recv.builder
        /\ Goto("work", "rebuild", "handle")
        /\ recv' = [recv EXCEPT !.work = TRUE]
     \/ (cut \/ req["sync"] = "error" \/ ~recv.builder) /\ Fails("work", "rebuild")
  /\ UNCHANGED <<viewVars, sending, cut>>
-----------------------------------------------------------------------------
(* SellActivity.HandleWork, outside of the mutex: it waits for the view to *)
(* show TRANSMITTING, publishes the buyer's secret and has the worker work.*)
Established(t) == ~(t.active /\ t.phase # "TRANSMITTING")

HandleWork ==
  /\ Established(view["seller"])
  /\ IF view["seller"].active /\ recv.work
     THEN Goto("work", "handle", "publish") /\ UNCHANGED recv
     ELSE Fails("work", "handle")
  /\ UNCHANGED <<viewVars, sending, cut>>

PublishSecret ==
  /\ \/ Sent("buyersecret") /\ Goto("work", "publish", "work") /\ UNCHANGED recv
     \/ SendFails("buyersecret") /\ Fails("work", "publish")
  /\ UNCHANGED <<view, poller, fetched, attempts, regressed, revived, sending, cut>>

(* The worker may refuse the work, or the watchdog closes its connection.  *)
WorkDone ==
  /\ Goto("work", "work", "result") \/ Goto("work", "work", "reject")
  /\ UNCHANGED <<viewVars, recv, sending, cut>>

RejectWork ==
  /\ Sent("rejectwork") \/ SendFails("rejectwork")
  /\ Fails("work", "reject")
  /\ UNCHANGED <<view, poller, fetched, attempts, regressed, revived, sending, cut>>

(* Nothing looks whether the receiver has been disposed of.                *)
ResultEncrypted ==
  /\ Free
  /\ Goto("work", "result", "send")
  /\ recv' = [recv EXCEPT !.result = TRUE]
  /\ sending' = TRUE
  /\ UNCHANGED <<viewVars, cut>>

ResultSent ==
  /\ \/ ~cut /\ Goto("work", "send", "done") /\ UNCHANGED recv
     \/ cut /\ Fails("work", "send")
  /\ sending' = FALSE
  /\ UNCHANGED <<viewVars, cut>>
-----------------------------------------------------------------------------
(* The receipt, and HandleReceipt outside of the mutex.  A receipt for     *)
(* what has been disposed of, or without work and secret, is an error.     *)
ReceiptQueued ==
  /\ Free
  /\ IF recv.result /\ ~recv.sig /\ (recv.work \/ recv.builder) /\ recv.secret
     THEN Goto("receipt", "queued", "report") /\ recv' = [recv EXCEPT !.sig = TRUE]
     ELSE Fails("receipt", "queued")
  /\ UNCHANGED <<viewVars, sending, cut>>

(* Mutant: the error is returned although there is none.                   *)
HandleReceiptFails ==
  /\ Sent("encresult") \/ SendFails("encresult")
  /\ Fails("receipt", "report")
  /\ UNCHANGED <<view, poller, fetched, attempts, regressed, revived, sending, cut>>

HandleReceipt ==
  /\ \/ Sent("encresult") /\ Goto("receipt", "report", "done") /\ UNCHANGED recv
     \/ SendFails("encresult") /\ Fails("receipt", "report")
  /\ UNCHANGED <<view, poller, fetched, attempts, regressed, revived, sending, cut>>

Handle ==
  \/ SyncQueued \/ SyncDecoded \/ WishListWritten
  \/ WorkQueued \/ WorkRebuilt \/ HandleWork \/ PublishSecret
  \/ WorkDone \/ RejectWork \/ ResultEncrypted \/ ResultSent
  \/ ReceiptQueued \/ HandleReceipt
  \/ \E r \in Requests : Dropped(r)
=============================================================================
