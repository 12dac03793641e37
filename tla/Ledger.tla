------------------------------- MODULE Ledger -------------------------------
(***************************************************************************)
(* Accounts and account movements: common/bitwrk/account.go.               *)
(*                                                                         *)
(* An account holds an available and a blocked balance in one currency.    *)
(* Every transfer of money is one movement, which changes the available    *)
(* part of one account and the blocked part of one account (most often the *)
(* same one), may pay a fee to the site and may exchange money with the    *)
(* rest of the world.  PlaceAccountMovement either applies all of it or    *)
(* fails, and then the enclosing datastore transaction is rolled back, so  *)
(* a movement is one operator here: CanPlace says whether it succeeds,     *)
(* Place is the accounts it leaves.                                        *)
(***************************************************************************)
EXTENDS Integers

MovementTypes ==
  {"PAYIN", "PAYOUT", "PAYOUT_REIMBURSE", "BID", "BID_REIMBURSE",
   "TRANSACTION", "TRANSACTION_FINISH", "TRANSACTION_REIMBURSE"}

EmptyAccount(cur) == [avail |-> 0, blocked |-> 0, cur |-> cur]

CurrencyMutable(a) == a.avail = 0 /\ a.blocked = 0

\* Mutant: a balance may be overdrawn.
Overdraws(a, balance, delta, cur) == delta = 0 \/ a.cur = cur \/ CurrencyMutable(a)

\* Mutant: an account's currency is not looked at.
MixesCurrencies(a, balance, delta, cur) == delta + balance >= 0

\* participantAccountPart.CanApply, for the part of account a holding balance.
CanApply(a, balance, delta, cur) ==
  /\ delta = 0 \/ a.cur = cur \/ CurrencyMutable(a)
  /\ delta + balance >= 0

CanApplyAvailable(a, delta, cur) == CanApply(a, a.avail, delta, cur)
CanApplyBlocked(a, delta, cur) == CanApply(a, a.blocked, delta, cur)

\* participantAccountPart.Apply: the account takes over the delta's currency.
ApplyAvailable(a, delta, cur) ==
  IF delta = 0 THEN a ELSE [a EXCEPT !.avail = @ + delta, !.cur = cur]

ApplyBlocked(a, delta, cur) ==
  IF delta = 0 THEN a ELSE [a EXCEPT !.blocked = @ + delta, !.cur = cur]

-----------------------------------------------------------------------------
\* A movement: its type, the two accounts, and four flows in one currency.
\* Every caller builds the four amounts in the currency of one price, which is
\* what Validate's currency check asks for.
Movement(type, to, toDelta, from, fromDelta, fee, world, cur) ==
  [type |-> type, availAccount |-> to, availDelta |-> toDelta,
   blockedAccount |-> from, blockedDelta |-> fromDelta,
   fee |-> fee, world |-> world, cur |-> cur]

\* checkFlowDirection, as the set of the comparison operators -2 .. 2.
FlowsAs(op, val) ==
  \/ op < 0 /\ val < 0
  \/ op \in -1 .. 1 /\ val = 0
  \/ op > 0 /\ val > 0

CashFlow(m, available, blocked, fee, world) ==
  /\ FlowsAs(available, m.availDelta)
  /\ FlowsAs(blocked, m.blockedDelta)
  /\ FlowsAs(fee, m.fee)
  /\ FlowsAs(world, m.world)

\* AccountMovement.Validate: flows in the direction of the type, sum zero.
\* A "PAYOUT_REIMBURSE" has no case of its own and is refused.
Validate(m) ==
  /\ \/ m.type = "BID" /\ CashFlow(m, -1, 1, 0, 0)
     \/ /\ m.type \in {"BID_REIMBURSE", "TRANSACTION", "TRANSACTION_REIMBURSE"}
        /\ CashFlow(m, 1, -1, 0, 0)
     \/ m.type = "TRANSACTION_FINISH" /\ CashFlow(m, 1, -1, 1, 0)
     \/ m.type = "PAYIN" /\ CashFlow(m, 2, 0, 0, -2)
     \/ m.type = "PAYOUT" /\ CashFlow(m, -2, 0, 0, 2)
  /\ m.availDelta + m.blockedDelta + m.fee + m.world = 0

\* PlaceAccountMovement: the available part first; the blocked part is applied
\* to the account as the first step left it.
AfterAvailable(accounts, m) ==
  [accounts EXCEPT
     ![m.availAccount] = ApplyAvailable(accounts[m.availAccount], m.availDelta, m.cur)]

CanPlace(accounts, m) ==
  /\ Validate(m)
  /\ CanApplyAvailable(accounts[m.availAccount], m.availDelta, m.cur)
  /\ CanApplyBlocked(AfterAvailable(accounts, m)[m.blockedAccount],
                     m.blockedDelta, m.cur)

Place(accounts, m) ==
  LET afterAvailable == AfterAvailable(accounts, m)
  IN  [afterAvailable EXCEPT
         ![m.blockedAccount] =
            ApplyBlocked(afterAvailable[m.blockedAccount], m.blockedDelta, m.cur)]
=============================================================================
