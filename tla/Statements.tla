----------------------------- MODULE Statements -----------------------------
(***************************************************************************)
(* Signed statements that participants post to the server: requests for a  *)
(* deposit address, deposit information that answers them                  *)
(* (server/server_account.go) and relations (server/rel).  Each contains a *)
(* nonce, which the server consumes before it does anything else           *)
(* (server/nonce), in a datastore transaction of its own.                  *)
(*                                                                         *)
(* A statement is known by its nonce, since a nonce is signed once.  It may*)
(* arrive late, more than once or never.  There is one account and one     *)
(* relation.                                                               *)
(***************************************************************************)
EXTENDS Integers

CONSTANTS
  Requests, Infos, Relations,       (* nonces, by what they are got for    *)
  NoNonce,
  Handlers,        (* goroutines that handle a request                     *)
  Lifetime,        (* of a nonce: 180 s                                    *)
  Wait,            (* from deposit information to the next request: 24 h   *)
  Deadline,        (* of the platform for a request: 60 s                  *)
  MaxTime          (* bound: the clock stops here                          *)

Nonces == Requests \cup Infos \cup Relations

ASSUME StatementsAssumption ==
  /\ NoNonce \notin Nonces
  /\ Requests \cap Infos = {} /\ (Requests \cup Infos) \cap Relations = {}
  /\ Lifetime \in Nat /\ Wait \in Nat /\ Deadline \in Nat /\ MaxTime \in Nat
  /\ Lifetime + Deadline <= Wait

VARIABLES
  now,
  nonce,           (* the Nonce entities                                   *)
  answers,         (* by information: the request that it answers         *)
  handler,         (* requests that are being handled                      *)
  account,         (* DepositAddressRequest, DepositInfo, LastDepositInfo  *)
  relation,        (* the statement that was saved last                    *)
  applied          (* statements that have taken effect                    *)

vars == <<now, nonce, answers, handler, account, relation, applied>>

Idle == [at |-> "idle", nonce |-> NoNonce, start |-> 0]

TypeOK ==
  /\ now \in Nat
  /\ nonce \in [Nonces -> [state : {"new", "valid", "gone"}, expires : Nat]]
  /\ answers \in [Infos -> Requests \cup {NoNonce}]
  /\ handler \in [Handlers -> [at : {"idle", "received", "passed"},
                               nonce : Nonces \cup {NoNonce}, start : Nat]]
  /\ account \in [request : Requests \cup {NoNonce}, info : Infos \cup {NoNonce}, lastInfo : Int]
  /\ relation \in Relations \cup {NoNonce}
  /\ applied \subseteq Nonces

(* An account that has never had deposit information may request it.       *)
Init ==
  /\ now = 0
  /\ nonce = [n \in Nonces |-> [state |-> "new", expires |-> 0]]
  /\ answers = [n \in Infos |-> NoNonce]
  /\ handler = [h \in Handlers |-> Idle]
  /\ account = [request |-> NoNonce, info |-> NoNonce, lastInfo |-> -Wait]
  /\ relation = NoNonce
  /\ applied = {}
-----------------------------------------------------------------------------
Expired(n) == nonce[n].state = "valid" /\ nonce[n].expires <= now

(* HandleGetNonce, and deleteExpired on some other shard.                  *)
GetNonce(n) ==
  /\ nonce[n].state = "new"
  /\ \E deleted \in SUBSET {m \in Nonces : Expired(m)} :
       nonce' = [m \in Nonces |->
                   IF m = n THEN [state |-> "valid", expires |-> now + Lifetime]
                   ELSE IF m \in deleted THEN [nonce[m] EXCEPT !.state = "gone"]
                   ELSE nonce[m]]
  /\ UNCHANGED <<now, answers, handler, account, relation, applied>>

(* The trusted account has its nonce when it looks up the request that it  *)
(* answers.                                                                *)
Answer(n) ==
  /\ nonce[n].state # "new" /\ answers[n] = NoNonce
  /\ account.request # NoNonce
  /\ answers' = [answers EXCEPT ![n] = account.request]
  /\ UNCHANGED <<now, nonce, handler, account, relation, applied>>

(* A statement arrives that was signed with the nonce.                     *)
Receive(h, n) ==
  /\ handler[h] = Idle /\ nonce[n].state # "new"
  /\ n \in Infos => answers[n] # NoNonce
  /\ handler' = [handler EXCEPT ![h] = [at |-> "received", nonce |-> n, start |-> now]]
  /\ UNCHANGED <<now, nonce, answers, account, relation, applied>>

(* Mutants: the entity stays; its age does not matter.                     *)
ConsumeNot(h) == nonce

ValidAtAnyAge(h) == nonce[handler[h].nonce].state = "valid"

Consume(h) == [nonce EXCEPT ![handler[h].nonce].state = "gone"]

(* The time is taken before the transaction.                               *)
Valid(h) ==
  LET n == handler[h].nonce IN nonce[n].state = "valid" /\ nonce[n].expires > handler[h].start

CheckNonce(h) ==
  /\ handler[h].at = "received" /\ Valid(h)
  /\ nonce' = Consume(h)
  /\ handler' = [handler EXCEPT ![h].at = "passed"]
  /\ UNCHANGED <<now, answers, account, relation, applied>>

(* The nonce is not valid, or the transaction failed, with or without an   *)
(* effect.                                                                 *)
NonceRefused(h) ==
  /\ handler[h].at = "received"
  /\ handler' = [handler EXCEPT ![h] = Idle]
  /\ nonce' \in {nonce, Consume(h)}
  /\ nonce' # nonce => Valid(h)
  /\ UNCHANGED <<now, answers, account, relation, applied>>

(* A nonce was passed and the statement takes effect.                      *)
Effect(h, kind) ==
  /\ handler[h].at = "passed" /\ handler[h].nonce \in kind
  /\ handler' = [handler EXCEPT ![h] = Idle]
  /\ applied' = applied \cup {handler[h].nonce}

(* Mutant: without a wait.                                                 *)
MayRequestAtOnce == account.request = NoNonce

MayRequest == account.request = NoNonce /\ account.lastInfo + Wait <= now

RequestDepositAddress(h) ==
  /\ Effect(h, Requests) /\ MayRequest
  /\ account' = [account EXCEPT !.request = handler[h].nonce]
  /\ UNCHANGED <<now, nonce, answers, relation>>

(* It does not look at what is requested.                                  *)
StoreDepositInfo(h) ==
  /\ Effect(h, Infos)
  /\ account' = [request |-> NoNonce, info |-> handler[h].nonce, lastInfo |-> now]
  /\ UNCHANGED <<now, nonce, answers, relation>>

CreateRelation(h) ==
  /\ Effect(h, Relations)
  /\ relation' = handler[h].nonce
  /\ UNCHANGED <<now, nonce, answers, account>>

(* The address, signer, signature or relation type is wrong, the request   *)
(* comes too early, or the datastore fails.                                *)
Refused(h) ==
  /\ handler[h].at = "passed"
  /\ handler' = [handler EXCEPT ![h] = Idle]
  /\ UNCHANGED <<now, nonce, answers, account, relation, applied>>

(* Handlers that exceed the deadline are stopped.                          *)
Tick ==
  /\ \A h \in Handlers : handler[h] # Idle => now < handler[h].start + Deadline
  /\ now < MaxTime /\ now' = now + 1
  /\ UNCHANGED <<nonce, answers, handler, account, relation, applied>>

Handle(h) ==
  \/ \E n \in Nonces : Receive(h, n)
  \/ CheckNonce(h) \/ NonceRefused(h) \/ Refused(h)
  \/ RequestDepositAddress(h) \/ StoreDepositInfo(h) \/ CreateRelation(h)

Next ==
  \/ \E n \in Nonces : GetNonce(n)
  \/ \E n \in Infos : Answer(n)
  \/ \E h \in Handlers : Handle(h)
  \/ Tick

Spec == Init /\ [][Next]_vars
-----------------------------------------------------------------------------
(* What must hold.                                                         *)

(* However often it arrives, a statement takes effect at most once:        *)
(* CheckNonce, "the first thing we do".                                    *)
AppliedOnce ==
  [][\/ UNCHANGED <<account, relation>>
     \/ \E n \in Nonces \ applied : applied' = applied \cup {n}]_vars

(* A statement that was held up for longer than its nonce lives and a      *)
(* request takes has no effect any more, even when no request for a nonce  *)
(* has caused the expired one to be deleted.                               *)
AppliedInTime ==
  [][\A n \in applied' \ applied : now < nonce[n].expires + Deadline]_vars

(* A request for a deposit address goes away only when it is answered.     *)
(* storeDepositInfo clears whatever request there is; that this is not a   *)
(* newer one than the message answers follows from the life of nonces and  *)
(* the time that requests have to wait.                                    *)
RequestsAnswered ==
  [][account.request # NoNonce /\ account'.request # account.request
       => \E n \in Infos : account'.info = n /\ answers[n] = account.request]_vars
=============================================================================
