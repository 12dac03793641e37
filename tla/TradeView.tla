----------------------------- MODULE TradeView -----------------------------
(***************************************************************************)
(* What the two clients of a remote trade know of their transaction        *)
(* (client/trade.go, common/protocol/protocol.go).  The transaction is     *)
(* advanced on the server by the clients' messages and retired when its    *)
(* time is over; each client has a view of it, which its pollers and       *)
(* updateTransaction overwrite with what they fetched.                     *)
(***************************************************************************)
EXTENDS Transactions

CONSTANTS
  UpdateAttempts,  (* updateTransaction: 3                                 *)
  MaxFaults        (* bound on requests and answers that get lost          *)

ASSUME ViewAssumption == UpdateAttempts \in Nat \ {0} /\ MaxFaults \in Nat

VARIABLES
  tx,        (* the transaction on the server; open until its timeout      *)
  view,      (* Trade.tx and Trade.txETag of the two clients               *)
  poller,    (* pollTransaction: of doRemoteBuy, finishBuy, doRemoteSell   *)
  fetched,   (* what a poller or updateTransaction has fetched             *)
  attempts,  (* updateTransaction: attempts left                           *)
  faults,
  regressed, (* history: a view was overwritten by an older state          *)
  revived    (* history: a view went from retired back to active           *)

viewVars == <<tx, view, poller, fetched, attempts, faults, regressed, revived>>

Sides == {"buyer", "seller"}
Pollers == {"buyer", "finish", "seller"}
SideOf(q) == IF q = "seller" THEN "seller" ELSE "buyer"

(* Revisions count messages and the retirement; the ETag is the revision.  *)
Revisions == 0..6
Seen == [rev : Revisions, phase : Phases, active : BOOLEAN]
NothingFetched == [rev |-> 0, phase |-> "ESTABLISHING", active |-> TRUE]

ViewTypeOK ==
  /\ tx \in [rev : Revisions, phase : Phases, active : BOOLEAN, open : BOOLEAN]
  /\ view \in [Sides -> Seen]
  /\ poller \in [Pollers -> {"off", "top", "got", "expired", "ended"}]
  /\ fetched \in [Pollers \cup {"update"} -> Seen]
  /\ attempts \in 0..UpdateAttempts
  /\ faults \in 0..MaxFaults
  /\ regressed \in BOOLEAN /\ revived \in BOOLEAN

ViewInit ==
  /\ tx = [rev |-> 0, phase |-> "ESTABLISHING", active |-> TRUE, open |-> TRUE]
  /\ view = [p \in Sides |-> NothingFetched]
  /\ poller = [q \in Pollers |-> "off"]
  /\ fetched = [q \in Pollers \cup {"update"} |-> NothingFetched]
  /\ attempts = 0
  /\ faults = 0
  /\ regressed = FALSE /\ revived = FALSE
-----------------------------------------------------------------------------
(* The server.                                                             *)

After(m) == {post \in Phases : <<m, tx.phase, post>> \in PhaseTransitionRules}
Accepts(m) == tx.active /\ tx.open /\ After(m) # {}

Advance(m) ==
  \E post \in After(m) :
    tx' = [tx EXCEPT !.rev = @ + 1, !.phase = post,
                     !.open = post \notin {"FINISHED", "WORK_DISPUTED"}]

Timeout ==
  /\ tx.open
  /\ tx' = [tx EXCEPT !.open = FALSE]
  /\ UNCHANGED <<view, poller, fetched, attempts, faults, regressed, revived>>

Retire ==
  /\ tx.active /\ ~tx.open
  /\ tx' = [tx EXCEPT !.rev = @ + 1, !.active = FALSE]
  /\ UNCHANGED <<view, poller, fetched, attempts, faults, regressed, revived>>

Fault == faults < MaxFaults /\ faults' = faults + 1

(* SendTxMessage: accepted; or an error, because the server refuses, the   *)
(* request is lost, or its answer is.                                      *)
Sent(m) == Accepts(m) /\ Advance(m) /\ UNCHANGED faults
SendFails(m) ==
  \/ ~Accepts(m) /\ UNCHANGED <<tx, faults>>
  \/ Fault /\ UNCHANGED tx
  \/ Fault /\ Accepts(m) /\ Advance(m)
-----------------------------------------------------------------------------
(* The views.                                                              *)

Fetch == [rev |-> tx.rev, phase |-> tx.phase, active |-> tx.active]

SetView(p, t) ==
  /\ view' = [view EXCEPT ![p] = t]
  /\ regressed' = (regressed \/ t.rev < view[p].rev)
  /\ revived' = (revived \/ (t.active /\ ~view[p].active))

(* beginRemoteTrade's last step, and the start of the poller.              *)
BeginView(p) ==
  /\ view' = [view EXCEPT ![p] = Fetch]
  /\ poller' = [poller EXCEPT ![p] = "top"]
  /\ UNCHANGED <<tx, fetched, attempts, faults, regressed, revived>>

Poll(q) ==
  /\ poller[q] = "top"
  /\ fetched' = [fetched EXCEPT ![q] = Fetch]
  /\ poller' = [poller EXCEPT ![q] = "got"]
  /\ UNCHANGED <<tx, view, attempts, faults, regressed, revived>>

(* Only a state of another revision is written, whichever is the newer.    *)
(* Nobody else can make what was compared without the lock equal: another  *)
(* writer of the same state leaves nothing to write.                       *)
PollWrite(q) ==
  LET t == fetched[q]
      changed == t.rev # view[SideOf(q)].rev
  IN  /\ poller[q] = "got"
      /\ IF changed THEN SetView(SideOf(q), t) ELSE UNCHANGED <<view, regressed, revived>>
      /\ poller' = [poller EXCEPT ![q] = IF changed /\ ~t.active THEN "expired" ELSE "top"]
      /\ fetched' = [fetched EXCEPT ![q] = NothingFetched]
      /\ UNCHANGED <<tx, attempts, faults>>

CanAbort(q) == poller[q] \in {"top", "expired"}
Abort(q) == CanAbort(q) /\ poller' = [poller EXCEPT ![q] = "ended"]

(* updateTransaction, which only buys call, fetches as often as it has     *)
(* attempts, also when it succeeds, and ends early when it sees that the   *)
(* transaction has expired.                                                *)
UpdateFetch ==
  /\ attempts > 0 /\ attempts' = attempts - 1
  /\ fetched' = [fetched EXCEPT !["update"] = Fetch]
  /\ UNCHANGED <<tx, view, poller, faults, regressed, revived>>

UpdateFetchFails ==
  /\ attempts > 0 /\ attempts' = attempts - 1
  /\ Fault
  /\ UNCHANGED <<tx, view, poller, fetched, regressed, revived>>

UpdateWrite ==
  LET t == fetched["update"]
      changed == t.rev # view["buyer"].rev
  IN  /\ IF changed THEN SetView("buyer", t) ELSE UNCHANGED <<view, regressed, revived>>
      /\ attempts' = IF changed /\ ~t.active THEN 0 ELSE attempts
      /\ fetched' = [fetched EXCEPT !["update"] = NothingFetched]
      /\ UNCHANGED <<tx, poller, faults>>
=============================================================================
