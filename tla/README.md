# BitWrk in TLA+

BitWrk is a market for computation. People who want work done (*buyers*) and
people who have computers to spare (*sellers*) put bids on a server. The server
books the money, matches bids into *transactions* and settles them. The work
itself goes from the buyer's client straight to the seller's client; the server
only sees messages that say how far the two have got.

These modules model the repository's Go code, line by line where it changes state, and
abstract everything that no property looks at. `PROJECT.json` names, for every
definition, the lines it stands for.

* [The system](#the-system): components, state, operations, what is hard
* [Modules](#modules): what models what
* [Runs](#runs): what TLC checks, with which bounds
* [Proofs](#proofs): what TLAPS proves, and how
* [Where code and documents disagree](#where-code-and-documents-disagree)
* [Not modelled](#not-modelled) and [Plan](#plan)

## The system

### Server

The server runs on App Engine: any number of instances handle requests at the
same time and may be shut down between any two steps. They share a datastore
(cross-group transactions with optimistic concurrency, tried up to three times),
memcache (which may forget anything) and task queues (which run a task again
until it succeeds, and now and then twice).

| component | code | state | operations |
|---|---|---|---|
| ledger | `common/bitwrk/account.go` | per participant: available and blocked balance, one currency; a chain of movements | `PlaceAccountMovement` |
| bids | `common/bitwrk/bid.go`, `server/server_bid.go` | bid: type, price, fee, state `INQUEUE`/`PLACED`/`MATCHED`/`EXPIRED`, expiry | `EnqueueBid`, `PlaceBid`, `RetireBid` |
| transactions | `common/bitwrk/transaction.go` | transaction: phase, state, timeout, revision, both bids and both participants | `NewTransaction`, `SendMessage`, `Retire` |
| deposits | `common/bitwrk/deposit.go`, `server/server_deposit.go` | deposit per uid | `Place` |
| statements | `server/nonce`, `server/server_account.go`, `server/rel` | nonces; per account the request for a deposit address and what answered it; relations | get and consume a nonce, request an address, store deposit information, create a relation |
| price query | `server/query/query_prices.go` | tiles in memcache | `HandleQueryPrices` |
| task queues | `server/gae/gae_queue.go`, `server/server_queue.go` | `retire-bid`, `retire-tx`, `apply-changes` tasks with an earliest time; the `hotbids` pull queue | the handlers of the tasks |
| batch semaphore | `TriggerBatchProcessing` | a counter per article in memcache | count up, wait, count down |
| matching | `server/gae/gae_matching.go` | hot zone: one entity per open bid, queried by price | `MatchIncomingBids`, one pass over a batch |

The path of a bid: `enqueueBid` checks it and calls `EnqueueBid`, which books
the money, stores the bid and adds a `retire-bid` task and an entry in the pull
queue, all in one datastore transaction. The same request then calls
`TriggerBatchProcessing`; one request per article waits a second, leases what
the pull queue holds and runs a pass. A pass reads the hot zone, decides pairs,
writes the hot zone back and adds an `apply-changes` task in one datastore
transaction. That task's handler calls `PlaceBid` and `MatchBids`, one datastore
transaction each. `MatchBids` makes a transaction and a `retire-tx` task.
Messages of the two participants move the transaction on; each phase change adds
another `retire-tx` task. The first one that finds the timeout passed settles.

### Client

| component | code | state | operations |
|---|---|---|---|
| trades | `client/trade.go`, `buy.go`, `sell.go`, `common/protocol` | the client's view of a bid and a transaction; last error; alive | polling, watchdog, phases of a buy and of a sell |
| activities | `client/activity.go`, `mandate.go` | trades by key, mandates, history, tokens | register, match locally, grant, apply mandate |
| workers | `client/worker.go` | per worker: idle, blockers | register, offer, block, unblock |
| work transfer | `client/client2client.go`, `receiveman` | an endpoint per trade, builder, hash | receive chunks, start work, answer |
| assistive download | `client/assist` | tickets | create, hand out, expire |

### What is hard here

Everything that matters happens in several steps of several actors. A bid's
money is touched by booking, matching, expiry and settlement, in one of many
orders. Tasks run too early, late, twice or again. A pass and the tasks it leaves
behind see bids that expire in between. Handlers die between the commit of a
transaction and the deletion of the tasks that led to it. Two queues with
different orders have to yield one best price. A counter in a store that forgets
decides who works. A client follows its transaction by several goroutines, each of which
overwrites the same view with what it fetched some time ago, and which end one another:
by closing connections, by disposing of the receiver, by retiring the trade. A worker's
counter is changed with a lock held and without. `PROJECT.json` lists these hazards at their lines, each with
the properties that would fail.

## Modules

```
Ledger <- Bids <- Transactions <- Market <- MarketEscrow (implements Escrow) <- MCMarket
                   ^                ^            ^-- MarketProofs
                   |                |
HotZone <- MCHotZone (alone)        +-- Exchange (Market + HotZone, implements OrderBook) <- MCExchange, ExchangeProofs
                   |
                   +-- TradeView <- Receiver <- RemoteTrade <- FairProofs
Batch + HotZone <- MatchingProofs      Exchange + MarketProofs + MatchingProofs <- ExchangeProofs
Activities <- ActivitiesProofs
Worker <- WorkerProofs          Tickets <- MCTickets, TicketsProofs
Statements + Prices <- MCFrontend, FrontendProofs
```

**Ledger** – `participantAccountPart.CanApply`/`Apply`, `AccountMovement.Validate`
and `PlaceAccountMovement` as operators on a function of accounts. `CanPlace` is
whether the Go function returns nil, `Place` what it leaves behind. An error rolls
the datastore transaction back, so a failed operation is a step that does not
happen. That a movement's second half sees the account as its first half left it
is kept (`AfterAvailable`); the cached DAO that makes it so is not a variable.

**Bids**, **Transactions** – pure operators: fees, checks, movements, the table
`phaseTransitionRules`, timeouts on arrival.

**Market** – the database. One action per datastore transaction: `PlaceDeposit`,
`EnqueueBid`, `PlaceBid`, `MatchBids`, `RetireBid`, `UpdateTransaction`,
`RetireTransaction`, and the clock. Wherever the code takes `time.Now()` before
the transaction the action takes a `stamp` up to `MaxLag` old. `MatchBids` is
called with *any* two bids and any stamp, so what Market shows of the money does
not rest on the matching. `ledger` holds the sums of the fees and of the deposits
that saved movements carry; the other fields of a movement are in the accounts.

**Escrow**, **MarketEscrow** – Escrow is the promise of CONCEPTS.md: what a buy bid
costs is taken and held; it may be lowered; it goes out once, back to the buyer or
to a seller. MarketEscrow maps the market's state to it: a bid's money is held by
the bid while that is unmatched, then by its transaction while that is active.

**HotZone** – the pull queue, the hot zone and passes of one article and currency.
A pass is seven steps (lease, begin, skip expired, match, insert, commit, delete
tasks), so that other passes, arrivals and the clock come in between. The query's
order is only by price (`QueryOrders`), the heap's also by expiry; which of equals
comes first is open in both. Two transactions on the hot zone at a time collide and one
is run again, so `Begin` waits for the other. A failed transaction (`Fail`)
still deletes the leased tasks, as the deferred call does; a crash does not. `Fail`,
crashes and passes that outlast their lease are *mishaps*, of which there are at most
`MaxMishaps`; `fails` and `overruns` remember them for the properties.

**Batch** – `TriggerBatchProcessing` with the lease, the transaction and the deletion of `MatchIncomingBids`, a
program counter per request. Each call may fail: the error of counting up or of the lease is returned, that of
counting down or of the deletion ignored, and after a failed transaction the tasks are deleted all the same. A call that fails
may have taken effect. A lease ends at any time (`LeaseEnds`), under a handler that still works as well, and gets at most
`LeaseLimit` tasks, 200 in the code. `MayEvict` lets memcache forget the counter, `MaxFailures` bounds the calls that fail and the instances that die;
`failures` counts them, `leaks` those that are in the semaphore and will never count down, `forgotten` and `overflowed` say that
memcache dropped the count of requests still there and that a lease left bids behind. `LeavesAtOnce` is the proviso of the `batch` run: a request that finds two counted
has counted itself down before another one counts itself up.

**Exchange** – Market and HotZone together: a bid enters both at once, and the
apply-changes handler places and matches one bid or pair at a time, with the stamp
of the pass, between retirements. All tasks of an article and currency are in one
queue that runs one task at a time (`getQueue`, `queue.yaml`).

**OrderBook** – what a bidder may rely on: an offer is open until it is withdrawn,
or traded with an open counterpart at the price of one of the two that the other
one accepts. A bid of Exchange is an offer from the moment it is enqueued, its
transaction the trade.

**Activities** – the trades of one client and one article. Each trade is a program
counter: a buy goes from its HTTP request through clearance to the local exchange of
files or to tokens, bid and transaction; a sell starts with a worker that is
idle. Each step is what the code does under `ActivityManager.mutex` or under the lock
of one trade; a step that the code makes by several locks is several steps. Among them:
`register` matches a new trade locally or tries the mandates, in a map's random order, until one clears it;
`GrantMandate` inserts the mandate and only then looks through the activities that were
there when it listed them (`entering`, `todo`, `looking`), while trades go on. A context may be cancelled
(`hung`), an open bid may get lost from sight (`lost`), and the view of a transaction may go back to an active
state for good (`Revive`), so that its trade waits for ever; with the mandates granted these are the events
`MaxEvents` bounds. What a remote trade does once it has a
transaction is in RemoteTrade. `uploadFailed`, `holders` and `unserved` are history variables: buys whose
files did not arrive, buys that did take a transmission token, and buys interrupted while they waited
for one.

**TradeView**, **Receiver**, **RemoteTrade** – one remote trade, from its transaction on.
`tx` is the transaction on the server, advanced by the table of Transactions; `view` is what
either client believes it to be. Three pollers and `updateTransaction` fetch it (`fetched`) and later write
it to the view, so an older state may replace a newer one (`regressed`), and a retired
transaction may seem active again (`revived`). `updateTransaction` makes all its attempts even when the first
succeeds, and reports an error only if the last one fails. Receiver is the seller's
endpoint: a program counter for each kind of request, and the fields of `endpointReceiver`, which
may be disposed of between any two sections under its mutex. RemoteTrade adds the two clients'
goroutines: `doRemoteBuy` with the interaction, its watchdog and what it dereferences,
`finishBuy` and `doRemoteSell`. The watchdog closes connections once; those made later end by the client's
timeout of 15 minutes, which is always possible there. A message is accepted, refused, lost, or
accepted and its answer lost, the last two at most `MaxFaults` times.

**Worker** – one `WorkerState`. `setIdle` takes the condition's lock and gives it back before
it changes anything, so its update of the counter is a test, a flag, a load and a store,
between which others run; `raced` remembers that a store lost another one or that one came
between what a holder of the lock reads and does. All other updates are a load and a store with the lock held.

**Tickets** – the store of assistive downloads, with the buys as its callers. Every operation holds the
store's lock and is one action; buys may share a seller, whose node is then registered and removed
by both. `Handprint` and `Matches` are the code's two loops, as folds.

**Statements** – signed statements with nonces: a handler receives one, consumes its nonce in a
datastore transaction and lets the statement take effect in another one. Statements may arrive late, again or
never. Tick stops handlers at the platform's deadline. That the payment processor gets its
nonce before it looks up the request is an assumption about a program that is not in `src/`.
The configuration that requires valid nonces and signatures is taken to be on.

**Prices** – `HandleQueryPrices` and the recursion of `queryPrices`. A query is a stack of the calls it is in (`Frame`), from
the coarsest tile to the finest, and several queries go on at a time. Each access to memcache (`Found`, `NotFound`, `AddTile`) and to the datastore
(`Read`) is a step between those of others; the life of a tile is decided when it is added, and a query that fails leaves the tiles that it
has added. A call that fits into one tile of the next size makes it; one that does not fans out, and is no tile itself. The loop that advances the window
is a division: all but the first of the slots it leaves behind are empty. `partial` marks tiles that were asked for up to an end in the past before
their own; only an administrator's `begin` does that.

**MCFrontend** – Statements and Prices do not interact; a behaviour of `FrontendSpec` is one of
either, so that one run covers both.

**MC*** modules give TLC prices, messages and symmetry; **\*Proofs** hold theorems.

A definition whose comment begins with "Mutant:" is not part of a specification. It
is the definition below it with a plausible bug; each property is shown to fail
when one of them takes its place.

## Runs

Deadlock is not checked anywhere: bids, keys and the clock are bounded, so every
behaviour comes to an end where nothing is left to do.

| run | instance | what it shows |
|---|---|---|
| market | 2 participants, 3 bids, 2 transactions, 1 deposit, prices 10 and 40, the messages that lead to each outcome | the money: `BlockedIsOwed`, `NoOvercharge`; links between bids and transactions (`BidsAndTxsLinked`); tasks (`RetirementScheduled`); Escrow is implemented |
| market_live | 2 currencies, 2 deposits and payouts, 2 bids, 1 transaction, tasks that run twice, fair task queues | `MoneyConserved`: nothing is booked twice or in the wrong currency; `SettlementApplies`: a settlement that is due is refused if and only if it would pay a seller whose account has another currency by then; every bid is matched or expires; every transaction is retired unless the seller's account has another currency by then |
| hotzone | 3 bids, 2 passes that lease two each, one mishap at any step | `NotCrossed`: no two bids are left that should have met; `PricePriority`: best price first; `NoLiveBidLost` unless a transaction failed; `NoBidTwice` unless a pass outlasted its lease |
| batch | 3 requests, 3 bids, leases of up to 2, evictions, leases that end at any time, one failed call or death at any step, fair handlers | the semaphore stands for nobody but the requests counted in it and those that never counted down (`SemaphoreCovered`); one request at a time waits for the others' bids (`WaitsAlone`) unless memcache dropped a count; every bid is processed unless a call failed, an instance died or a lease was full, with the proviso |
| batch_lost | 2 requests, no proviso | **violated**: the proviso is needed |
| exchange | 2 bids, 2 transactions, 1 pass, one mishap | Market and HotZone implement OrderBook |
| activities | 2 buys, 1 sell, 1 mandate, one token of each kind, one event | a trade is cleared once (`ClearedOnce`) and no mandate too often (`MandateLimit`); files are there when they are read (`FilesHeld`); the limit on unmatched bids; a trade that is cleared ends (`ClearedTradesEnd`) |
| activities_tokens | 3 buys, one event | **violated**: no more buys transmit than there are tokens |
| remote | both clients, 2 attempts, one fault at any step, fair goroutines | `FairExchange`: work, encrypted result, payment and key change hands in an order in which nobody is cheated; `PaidResultDecrypted` and `NoStaleRead` but for named exceptions; both sides end (`TradesEnd`) |
| worker | 1 sell, 2 failures, reports at any time, fair goroutines | `BlockersCounted` unless raced; the worker is offered when nothing blocks it and only then (`NoSellWhileBlocked`, `UnblockedWorkerOffered`); unregistering ends the offering, raced or not |
| tickets | 3 buys from 2 sellers, any of 5 works each, 2 tickets per receiver | `NoMatchMissed`: no ticket is left that an interested node could use; `StoreReflectsBuys`: nothing stays of a buy that is over; `TicketsFit`: tickets go where works resemble each other |
| frontend | 2 requests for an address, 2 answers, 1 relation, 2 handlers; or 3 price queries, two at a time, with tiles of 8 and 4 units and slots of 2, 2 trades | a statement takes effect once and in time (`AppliedOnce`, `AppliedInTime`); no request is cleared but by its answer (`RequestsAnswered`); slots fit together and no trade is missing from an answer but in named cases |

What holds under a condition says so in its definition, with the history variable that
records the exception: `fails`, `overruns`, `failures`, `leaks`, `forgotten`, `overflowed`, `uploadFailed`, `unserved`,
`faults`, `unanswered`, `regressed`, `revived`, `raced`, `partial`. Without the condition each of
those properties is false of the code: a failed pass takes its leased bids along,
a lease that runs out lets two passes store one bid, a request that dies or cannot
count down keeps all others of its article from matching, a bid beyond the limit of a lease waits for the next request, a local sell waits for ever on a buy whose upload failed, a buyer
whose view went back to an older state hangs or dereferences nil, and a counter that lost an
update keeps a worker from being offered, or lets it be offered twice.

**Bounds.** Times are in units of the shortest timeout: a bid lives for one, a
transaction is given one for each phase, and the clock goes on until the last task
is due (`MaxTime`; the live runs need it to; `exchange` stops it after one unit, when the first
bids expire). Stamps lag by at most one unit
(`MaxLag`), which is enough for a message or a match to be late for a timeout. Prices 10 and 40
have the fees 1 and 2: a fee that is rounded up by most and one that is by less, and a difference
that has to be freed. A deposit of 42 pays one dear bid with its fee and nothing
more, or three cheap ones, so a bid may also be refused. Three bids are the
fewest with a choice of counterpart; two passes and two handlers the fewest that
interfere; three requests the fewest of which one is counted by two others, and a lease of two of three bids the smallest that leaves one. Two buys and a sell are the
fewest where a local match has a loser and a token a queue; the third buy of
`activities_tokens` is the one too many. In `remote` two attempts are the fewest of which one succeeds and the next does not, and what a second fault
could add is a lost request after the trade has already failed. In `worker` one sell and two failures let a sell, a delay and a worker's
report overlap; NewSell is only called while the bound allows. Three buys and two sellers are the fewest where
two share a node and a third wants its tickets; two of the works share three chunks, one is so short that it is padded, and two
repeat a single chunk, not the same one.
In `frontend` the lives of nonces, the wait and the deadline stand in the proportion the
theorem needs (`Lifetime + Deadline <= Wait`), with nothing to spare; three resolutions are
the fewest with a tile that is made of tiles that have several slots, and three queries the fewest of which one leaves a fine tile, one makes
a coarse tile of it and one reads that. Queries are asked at three times (`AskTimes`): when the last trades are matched, when what was cached then is about to expire, and
when the tiles of that time are kept for ever. `Horizon` is a little more than what the lives of tiles and the slowness of queries come to, so that `Grace` is not negative:
with the code's values it may be (see below).
One mishap, fault or event per behaviour, at any step, is what the conditions
above speak of; two at a time are not checked.
`MaxInt64` is far above the prices in all runs, the theorems hold for any value.

**Fairness.** `FairSpec` of Market: time goes on, and a task that is due is run until
it succeeds, which App Engine's push queues do. No participant owes a bid, a match
or a message. `FairSpec` of Batch: a handler that lives goes on to its next step.
A lease ends.
Nobody owes a request. `FairSpec` of Activities: as long as some goroutine can take a
step, or the server can resolve an open bid, one of these happens. This is
weaker than fairness of each goroutine and still enough, because a trade takes
finitely many steps. Nobody owes a mandate, a cancellation or a new trade. `FairSpec` of RemoteTrade: of all steps but polling one is
taken as long as there is one, which takes them all since each comes finitely often, and each poller goes on polling: goroutines run, time
passes, and requests end. `FairSpec` of Worker: the goroutine that offers goes on, and one of the
others, as long as it can; nobody owes a report, the worker's answer or the end of a sell. Nothing else is
fair.

## Proofs

All for every number of participants, bids, transactions, prices and timeouts.

**MarketProofs** proves the invariant
`IInv == TypeOK /\ RetirementScheduled /\ BidsAndTxsLinked /\ NoOvercharge` to be
inductive, and from it `TypeCorrect`, `Linked`, `NeverOvercharged` and
`TasksWaiting`. The four parts need each other. That balances stay natural numbers
(TypeOK) is guaranteed by `CanPlace`, but that `MatchBids` and the retire
actions touch records and not nil needs that tasks are only for what exists, part of
RetirementScheduled. That a retired transaction's bids are matched, so that no
second transaction is made from them, needs BidsAndTxsLinked; that a price delta
is not negative, NoOvercharge. The proof has one lemma per action and part; lemmas
about Ledger (`PlaceMovement` keeps accounts typed) and about fees come first.

It also proves `MarketImplementsEscrow == Spec => EscrowSpec`: initial
states map to initial states, and under IInv each action maps to one of Escrow's or to a
stutter. Where an action changes one wallet and one hold the lemma says which;
BidsAndTxsLinked makes sure that no other hold changes.

Its last sections prove what the market's money adds up to. The community modules define a sum by a recursive
function over elements in an order that CHOOSE fixes. `Total` counts instead, as a difference of two
cardinalities, so that its laws (a part split off, one value changed) follow from those of finite sets; `SumIsTotal`
says that the two agree, since the smallest subset where they differ would have no element to leave out.
`MoneyNeverLost` then needs only the types and that tasks are for what exists: each movement takes from
one place what it gives to another (`Books`). `BlockedAlwaysOwed` needs more. That a participant's blocked
balance is what the open buy bids and active transactions cost (`BalancesOwed`) is inductive only together
with `CurrencyHeld`, that the account has the currency of what it owes: an account that is
empty takes the currency of its next movement, and only BalancesOwed says that one which owes is not empty.
`SettlementAlwaysApplies` follows from the two: what is to be freed is there, and in the right currency.

**MatchingProofs** proves Batch and HotZone. `SemaphoreIsCovered` is by counting: each
step changes the set of counted requests by at most one, in the direction of the
semaphore; an eviction only lowers the semaphore, and a request that dies or cannot count down moves from the counted to
`leaks`. It assumes nothing about memcache. `OnlyOneWaits` needs the other direction: unless memcache dropped a count, the semaphore is
at least the number of those counted, so the request that gets a one from it is the only one there. Neither says that
batches do not overlap, and they may: the semaphore is given back before the lease, and a lease may end before its
handler does. That this does no harm to bids is what HotZone is about.

The rest is for any number of bids, passes, prices and lease times, and each property has an inductive
invariant of its own, on top of the types (`HotTypeCorrect`) and of the finiteness of zone and queues.
`HotZoneNeverCrossed` needs to know what a pass holds on its way (`HotApart`): two bids of different sides that both
queues still offer are apart, at the pass's stamp, and what is apart then is apart later since
bids only die. A bid goes into a queue when nothing of the other side meets it, which follows
from its not meeting the other side's *best* (`TipIsBest`). That there is a best one, though stored and cached
bids are in different orders, and that it is what `Tip` returns, is the longest part; `BestPriceAlwaysTaken` is a corollary of it.
`LiveBidsNeverLost` says of each pass where the bids it took from the pull queue are in each of its steps
(`Accounts`): in the tasks not yet deleted, in its queues, its pairs or the zone. `BidsNeverTwice` needs that a task is
leased by one pass at a time (`Leases`), which is where lease and clock come in, and that a bid is in one of pull queue, pass, zone
and pairs (`InOnePlace`), in which it has one place. `PairsAlwaysMeet` says of the pairs on their way to a task that
they are of a buy and a sell at prices both accept.

**ExchangeProofs** composes the two. It takes what MatchingProofs says of a step of HotZone by
INSTANCE: every step of Exchange is one of HotZone or is `Aside`, where a task of the matching is done with or is to be run again,
which only takes tasks away. Every step is one of Market or none, hence `ExchangeIsMarket`: what MarketProofs says
holds of the exchange. This needs the types of all queues (`QueuesTyped`), as the keys a task names
come to it from `MakeBid` through pull queue, pass and zone. `ExchangeImplementsOrderBook` needs more (`QueuesSound`): a hot
bid, wherever it is, agrees with the bid in the database, which never changes what it is about (`SameDeals`), and
the bids of a pair that is to be applied meet. `MatchBids` compares no prices: it refuses a pair the buyer's blocked money
does not pay for, but a sell that came later than a buy and asks for more than it offers would make a transaction at the buy's price, below
the sell's. What keeps a sell from being traded below its price is the matching alone; of all steps `ApplyMatch` is the one that needs it.

**ActivitiesProofs** proves `Inv == TypeOK /\ Fresh /\ ClearedOnce` inductive, for any
number of trades, mandates and tokens. ClearedOnce says that a trade has a price or a
match but not both and that matches are mutual. Fresh says that a trade which has not begun
has neither and is in no list, so that it cannot be somebody's match already, and that a
trade on the local path has a match. The
critical actions are those where two writers meet, `register`, `Publish` and `applyMandate`:
each decides under the lock whether the trade still awaits clearance. On top of it, three
more invariants are inductive each. The tokens in the channel and in the hands of trades (`TokensHeld`) are always
as many as there were, and an open bid is of a trade that holds one unless the client lost sight of the
bid (`UnseenCounted`); hence `UnmatchedBidsAlwaysLimited`. What a mandate has left and the trades it has published
add up to what it was granted; that this starts from nothing needs that a mandate which was not granted is
nowhere (`Ungranted`); hence `MandatesAlwaysLimited`. `FilesAlwaysHeld` needs what a trade has of its own at
each point of its way (`OwnFiles`, `BuyFiles`, `SellFiles`) and that a matched trade which was not interrupted
leaves only when the other side is done or there is nothing to hand over (`LetGo`).

**FrontendProofs** proves the three action properties of Statements from one invariant. A handler
that passed is the only one with its nonce, and the statement has not taken effect before (`PassedAlone`): consuming
the nonce makes AppliedOnce true of two handlers with one statement. It passed when the nonce
was still alive, and it has no longer than the deadline since (`OnTime`), which is AppliedInTime.
`Pending` says that an answer which can still take effect is the answer to the request that is pending, or
that none is pending and none will be until the answer cannot. An answer's nonce lives for `Lifetime` and its handler for
`Deadline`, and after deposit information the next request has to wait for `Wait`: this is where the
assumption `Lifetime + Deadline <= Wait` is used, which nothing in the code states.

It also proves the two invariants of Prices, from one of the clock, the trades, the queries and the cache (`PricesInv`). Each
tile in the cache is a `GoodTile`. Its slots `Fit`: they lie in its time, one after the other, and hold trades of their time, each
once. If the tile is kept for ever it ended `Horizon` ago and has every trade of its time that was stored within `Grace` of its
match; otherwise it has every trade that was stored before `until - Expiry - Slack - Age`. `Age` adds an `Expiry` and a `Slack` for each size of tiles
below it: a finer tile may be in the cache at the end of its life, and the query that added it may have been at the end of its time. What
a query has so far is as good (`GoodCall`, `GoodStack`): each call has the time until `next`, and was made
from the one below it where that one stands. Neither part can do without the other: a tile that is to be kept is put together from finer ones
that are not, and has the trades only because those were young enough (`AllAreOld`).

The proof follows the code from the inside. Reading the datastore keeps `Scan`, about the slots and the window so far; since the transactions
come in ascending order of their matches, none is before the window, and in which order ties come does not matter. `JoinedIsGood` joins tiles that
follow one another; it needs that a tile's end is the begin of the next, which is where each resolution must divide the coarser
one. `AddedIsGood` is where a call ends and its tile's life is decided. Then there is one lemma for each action of a handler, and what
another handler, a trade or the clock does leaves a tile and a call as good as they were (`TileKept`, `QueryKept`). That the recursive function that reads
transactions is what its equation says is proved by least counterexample (`ScanRun`). `SlotsAlwaysFit` and `AnswersAlwaysComplete` are what
`Fit` and the bounds come to for an answer.

The theorem holds of any constants, but what it promises depends on them. With the values of the code (120 s, 10 s, four sizes of tiles)
`Grace` is 90 s less four times `Slack` and less the datastore's lag. It is negative, and nothing is promised of tiles that are kept for ever,
unless queries take less than some 22 s, which nothing in the code makes sure of; see below.

**FairProofs** proves `ExchangeIsFair` for any number of attempts and faults. FairExchange is
made inductive by what each party must have before it goes on (`WorkFollows`, `ReceiptForResult`,
`AcceptsDecrypted`) and by `KeysArePaid`: whoever has seen a key, in a view or in what a poller
holds and may write any time later, has seen a phase that pays, and no message leads from there to one that does
not. Types are only needed as far as `Shape` says, what is a record with which fields, since
EXCEPT on anything else says nothing.

On top of it, `ReadInv` proves `ReadsAreNotStale` and `PaidIsDecrypted`. Both are about what a party saw and what has become of it,
so the proof needs time: `History` says of all copies of the transaction there are, in the views, on their way and at the server,
that one of a higher revision goes on from one of a lower (`GoesOn`): it is in every set of phases that no message leads out
of (`Lasting`) and the other is in, and not active again. A view that goes back then is what `regressed` records. `Way` says where buyer and seller are and what they have
waited for: a request is sent once (`ResultOnce`, `ReceiptOnce`), only the receipt makes the result one that is paid
(`PaidByReceipt`), and a buyer that leaves without having decrypted it has one of the excuses of the property
(`Excused`), which no later step takes back.

**TicketsProofs** proves `StoreIsCurrent` for any number of buys, sellers and works: a ticket's source is the
registered node of its buy and of the buy that stands for its work, and both still run (`Owned`).
`MatchesAreNotMissed` and `TicketsAlwaysFit` follow from `FitInv`: no registered node fits a ticket in the pool, and
a ticket that was granted resembles. What resembling comes to is `ResembleCounts`. The folds that insert keys into a hand print and that walk
along two of them are taken apart into runs of steps, of which `IsHandprint` (ascending, the smallest keys, padded with one key that all
short prints share) and `MatchState` are invariant. Where a print is shorter, padding stands for the keys that are not there, and both
prints have it; it is equal to no key, since keys are below it. So a match says that the two works have in common all but one of the smallest keys of the one that has more
of them (`AllButOne`): three if one of them is large, one of two, and none at all if each is one repeated chunk. Nothing is assumed of the
works but that keys are below the padding.

**WorkerProofs** proves `CounterIsRight` and `OnlyUnblockedOffered` for any number of sells and
failures. A goroutine at a place has a `Weight`: 1 for a sell under way, and what setIdle still
owes the counter. `Held` is their sum, as cardinalities, and each action changes it by the
difference of two weights of one goroutine (`MoveHeld`, from the theorems on finite sets). An
update that met no other one has stored what it loaded, changed by one (`StoreCounts`), so
BlockersCounted needs to know nothing of the lock: the history variable `raced` says when it fails. The
invariant adds that a sell about to start has a goroutine (`CanStart`), that work comes after its
sell (`WorkAfterSell`) and that who wakes up slept (`Asleep`).

The assumptions are the named ones of the modules: values of nil are not values,
timeouts are positive, the sets of requests and trades are finite, a chunk's key is below the largest number, which pads handprints, each resolution of prices is a whole number of the next finer one (in
`resolutions` it is) and a young tile lives for some time.

**Only model-checked**: liveness, which is out of the prover's reach, and `TransmittingBidsLimited`, which the code violates.
Every safety property of a passing run is a theorem.

## Where code and documents disagree

A run each:

* **A bid nobody matches** (`batch_lost`). A request that counts only to count down again
  passes for one that waits.
* **A token that was never taken** (`activities_tokens`). `awaitTransmissionToken` sets
  `transmitting` before `checkoutToken` has a token. When that is interrupted, the deferred
  return in `buy.go` puts one back. Either one more buy transmits than `trade.go:80` allows,
  or the channel is full and the return blocks for ever.

Seen in the code and kept in the model, without a run:

* `Retire` pays the seller in `FINISHED` and in `UNVERIFIED`; the comment on
  `RetireTransaction` names only the former, CONCEPTS.md both.
* The hot zone is queried by price only, so of equal prices the one stored first in the
  datastore's key order is served first, whichever is older.
* The batch semaphore is given back before the tasks are leased, and a lease of 20 s may end before its pass does. So two requests may match at a
  time, and even one bid, other than the comment at `gae_main.go:118` says; `WaitsAlone` is what is left of it. HotZone shows that passes which overlap
  do no harm as long as none outlasts its lease.
* `TriggerBatchProcessing` ignores the errors of counting down (128, 134): the semaphore then stays up with nobody there, and no bid
  of the article is matched until memcache forgets it. A failed count up or lease and a lease that is full (200) leave bids in the pull queue until the next
  request. `EveryBidProcessed` excepts all of these.
* A buy whose upload fails (`client_main.go`) stays registered; a sell matched to it locally
  waits until its context ends. `ClearedTradesEnd` excludes it by `uploadFailed`.
* A mandate counts trades that it clears after they have died, as long as they are still in
  the history.
* An account that is empty takes the currency of its next movement (`account.go:239`). A seller's
  account that was empty in one currency and is then used in another cannot take the payment: the
  retire task fails for good and the buyer's money stays blocked, while CONCEPTS.md:177-179 promises it goes
  one way or the other. `EveryTxRetiredOrRefused` names the exception.
* `handleApplyChanges` logs an error of `MatchBids` and goes on (`server_queue.go:110`); the pass has deleted the
  bid's entry, so a placed bid need not be hot, other than `gae_matching.go:32-33` says.
* A poller writes what differs from its view, not what is newer. A view may go back in time, and a
  buyer that then reads the seller's URL or the key dereferences nil; if an active state replaces a retired one after
  the poller has ended, by `updateTransaction` or another poller, who waits for the view waits for ever, and a buy keeps its transmission token. `TradesEnd` and
  `ClearedTradesEnd` except it by `revived`.
* The receipt makes the phase UNVERIFIED, which the buyer's watchdog takes for the end of the interaction. If it
  is faster than the answer, the buy ends with an error, is paid for and never decrypted
  (`buy.go:585-587`).
* `HandleWork` waits for a phase without an end of its own. It gets one only by the view's poller.
* Fields of `endpointReceiver` that are set after `doDispose` are never disposed of.
* With chunks, the buyer's secret comes with the announcement, before the work; the comment
  in `transaction.go` has it after the work. `FairExchange` holds since it is published later.
* `setIdle` changes the worker's flag and counter without the lock. Two of them at a time, or
  one and a sell, may leave the counter wrong for good.
* The padding of handprints counts as common chunks, so that short files resemble each other: two works that each
  are one repeated chunk, which makes three pads, match with nothing in common. Two buys
  from one seller share a node: the ticket of one may go out for the work of the other, and
  the end of one withdraws the other's tickets.
* A price query with an explicit `begin` leaves a tile that is cut short in the cache for ever; the comment on
  `query_prices.go:271` says that prices between begin and end are returned. A transaction that is stored long after it was matched is missing from
  the tiles that were cached in between.
* A coarse tile's life is decided after its finer tiles were fetched, from their time and not from their age. If queries are slow, a tile of the last two
  minutes that another query left in the cache gets into a tile that is kept for ever, and trades stored since are missing from it for good. TLC finds
  this when `Horizon` is too short for the lives of tiles and the time queries take, and `Grace` takes no account of them.
* `storeDepositInfo` clears whatever request there is; only the proportion of three times keeps that
  from being a newer one. A relation may be overwritten by an older statement that was still under way.
* `nopCompressor.Write` in `gziputil.go` calls itself. The package is not modelled.

## Not modelled

Signatures, hashes, keys, URLs and HTML; the codec between structs and datastore
properties; money as text; gzip; the rendering of pages; the client's relay and user interface; the Blender add-on; the admin tool. They keep no state that
another part depends on.

Within what is modelled: the rejection of a result, for which the client has no code that
sends it; the post of a ticket's URL that a buy's end cuts short; the limit of 10000 transactions that
one tile reads; the rate of retries; progress and statistics; the decoding of chunks, which the cafs library does.
That bids, messages and deposits consume nonces as Statements shows is not repeated in
Market. `PROJECT.json` has a row for each component.

## Plan

1. *Done*: the market (Market, Escrow, HotZone, Batch, Exchange, OrderBook), the client (Activities, RemoteTrade with
   Receiver and TradeView, Worker, Tickets), the other state of the server (Statements, Prices), and the proofs above.
2. **TxProtocol** – the data a transaction's messages carry: written once, in order,
   within a bounded lifetime.
3. The composition of Activities and RemoteTrade: tokens that are held while a
   buy transmits, and a receiver that outlives its sell.
