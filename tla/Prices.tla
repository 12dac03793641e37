------------------------------- MODULE Prices -------------------------------
(***************************************************************************)
(* Price statistics (server/query/query_prices.go).  A query is cut into   *)
(* tiles; a tile is taken from memcache, or put together from the next     *)
(* finer tiles, or, when it is the finest for the resolution, read from the*)
(* datastore; then it is cached.  There is one article and one currency.   *)
(*                                                                         *)
(* Each access to memcache and to the datastore is a step, between those of*)
(* other queries.  The calls of queryPrices that a query is in are a stack *)
(* of frames: each a period of time, in tiles of one size.                 *)
(*                                                                         *)
(* A slot keeps its trades, in place of their number and the sum, minimum  *)
(* and maximum of their prices.                                            *)
(***************************************************************************)
EXTENDS Integers, Sequences, FiniteSets, SequencesExt, FiniteSetsExt

CONSTANTS
  Interval,         (* the resolutions, coarsest first: 1y .. 1s           *)
  CoarsestOffset, FinestOffset,     (* 5 and 2                             *)
  Trades,
  Horizon,          (* age from which a tile is kept for ever: 120 s       *)
  Expiry,           (* life of a younger one: 10 s                         *)
  Queriers,         (* handlers of queries                                 *)
  Slack,            (* no query takes longer: the platform's limit is 60 s *)
  IndexLag,         (* a trade stored longer ago is found by queries       *)
  Questions,        (* bound: begin, period and resolution asked for       *)
  AskTimes,         (* bound: when queries are asked                       *)
  Delays,           (* bound: how long a task waits                        *)
  LastTrade,        (* bound: no trade is matched after this time          *)
  MaxAsked,         (* bound: number of queries                            *)
  FirstTime, LastTime, TimeStep      (* bounds: the clock, and its step   *)

Resolutions == 1..Len(Interval)

ASSUME PricesAssumption ==
  /\ Interval \in Seq(Nat \ {0})
  /\ \A r \in Resolutions \ {1} : Interval[r] < Interval[r - 1] /\ Interval[r - 1] % Interval[r] = 0
  /\ FinestOffset \in Nat /\ CoarsestOffset \in Nat /\ FinestOffset <= CoarsestOffset
  /\ IsFiniteSet(Trades)
  /\ Horizon \in Nat /\ Expiry \in Nat \ {0} /\ Slack \in Nat /\ IndexLag \in Nat
  /\ Questions \subseteq Int \X Resolutions \X Resolutions
  /\ Delays \subseteq Int
  /\ FirstTime \in Nat /\ LastTime \in Nat /\ TimeStep \in Nat
  /\ LastTrade \in Nat /\ MaxAsked \in Nat

VARIABLES
  clock,
  trade,            (* by trade: when it was matched, when it was stored   *)
  query,            (* by handler: the query it answers, and how far it is *)
  asked,            (* number of queries                                   *)
  cache,            (* memcache: set of tiles                              *)
  answer            (* what has just been returned                         *)

pricesVars == <<clock, trade, query, asked, cache, answer>>

NotYet == 0 - 1
NoTrade == [matched |-> NotYet, stored |-> NotYet]
NoQuery == [res |-> 0, at |-> NotYet, stack |-> <<>>]
NoAnswer == [slots |-> <<>>, partial |-> FALSE, begin |-> 0, end |-> 0, at |-> NotYet]
Always == 0 - 1
Now == 0 - 1        (* no 'begin' is given                                 *)

coarsestTileResolution(r) == Max({1, r - CoarsestOffset})
finestTileResolution(r) == Max({1, r - FinestOffset})

PricesInit ==
  /\ clock = FirstTime
  /\ trade = [t \in Trades |-> NoTrade]
  /\ query = [q \in Queriers |-> NoQuery] /\ asked = 0
  /\ cache = {}
  /\ answer = NoAnswer
-----------------------------------------------------------------------------
(* Slots.  A trade at the end of a slot still belongs to it, unless the    *)
(* tile ends there.                                                        *)

Flushed(s) == IF s.trades = <<>> THEN s.slots ELSE Append(s.slots, [begin |-> s.begin, end |-> s.end, trades |-> s.trades])

(* Mutant: the accumulators are not cleared.                               *)
AdvanceOnly(s, res) ==
  [s EXCEPT !.slots = Flushed(s), !.begin = s.end, !.end = s.end + Interval[res]]

Advance(s, res) ==
  [s EXCEPT !.slots = Flushed(s), !.begin = s.end, !.end = s.end + Interval[res], !.trades = <<>>]

(* The window moves on until the trade is not after it; all but the first  *)
(* of the slots it leaves behind are empty.                                *)
AdvanceTo(s, res, at) ==
  LET more == ((at - s.end - 1) \div Interval[res]) * Interval[res] IN
  IF s.end < at THEN [Advance(s, res) EXCEPT !.begin = @ + more, !.end = @ + more] ELSE s

AddPrice(s, res, t) == [AdvanceTo(s, res, trade[t].matched) EXCEPT !.trades = Append(@, t)]

(* Ascending by the time they were matched; ties in any fixed order.       *)
QueryTransactions(seen, begin, end) ==
  LET found == {t \in seen : begin <= trade[t].matched /\ trade[t].matched < end}
      n == Cardinality(found)
  IN  CHOOSE s \in [1..n -> found] :
        \A i, j \in 1..n : i < j => s[i] # s[j] /\ trade[s[i]].matched <= trade[s[j]].matched

FromDatastore(seen, res, begin, end) ==
  LET txs == QueryTransactions(seen, begin, end)
      upTo[n \in 0..Len(txs)] ==
        IF n = 0 THEN [slots |-> <<>>, begin |-> begin, end |-> begin + Interval[res], trades |-> <<>>]
                 ELSE AddPrice(upTo[n - 1], res, txs[n])
  IN  Flushed(upTo[Len(txs)])
-----------------------------------------------------------------------------
(* Mutant: a tile is kept for ever when it has begun long ago.             *)
LifeByBegin(tile, begin) == IF begin > clock - Horizon THEN clock + Expiry ELSE Always

(* A tile that ends close to now is cached for a short time.               *)
Life(tile, begin) == IF begin + Interval[tile] > clock - Horizon THEN clock + Expiry ELSE Always

(* The tile that HandleQueryPrices starts with, and the begin it truncates.*)
Tile(period, res) ==
  Min({finestTileResolution(res), Max({coarsestTileResolution(res), period})})

Truncated(begin, tile) == begin - (begin % Interval[tile])

(* The end of a tile of a query that ends at 'end'.                        *)
TileEnd(tile, begin, end) == Min({begin + Interval[tile], end})

(* A call for the time from 'begin' to 'end': what it has of the time until*)
(* 'next'.  'partial' is no part of the program: a tile that it is made of *)
(* was asked for up to an end in the past that is before its own.          *)
Frame(tile, begin, end) ==
  [tile |-> tile, begin |-> begin, end |-> end, next |-> begin, slots |-> <<>>, partial |-> FALSE]

Joined(f, slots, partial) ==
  [f EXCEPT !.slots = @ \o slots, !.partial = @ \/ partial, !.next = @ + Interval[f.tile + 1]]

Finest(q, f) == f.tile = finestTileResolution(query[q].res)

Top(q) == Last(query[q].stack)
Below(q) == Front(query[q].stack)

(* What a handler does next: fetch one more tile, read the finest one,     *)
(* return.                                                                 *)
Fetches(q) == query[q] # NoQuery /\ Top(q).next < Top(q).end /\ ~Finest(q, Top(q))
Reads(q) == query[q] # NoQuery /\ Top(q).next < Top(q).end /\ Finest(q, Top(q))
Returns(q) == query[q] # NoQuery /\ Top(q).end <= Top(q).next

Cached(tile, res, begin) == {e \in cache : e.tile = tile /\ e.res = res /\ e.begin = begin}
-----------------------------------------------------------------------------
(* Bound: nothing matters after the last query.                            *)
Over == asked = MaxAsked /\ \A q \in Queriers : query[q] = NoQuery

(* MatchBids stores a transaction with the time of the pass that matched   *)
(* its bids; its task has waited since.                                    *)
MatchBids(t) ==
  /\ trade[t] = NoTrade /\ clock <= LastTrade /\ ~Over
  /\ \E delay \in Delays :
       trade' = [trade EXCEPT ![t] = [matched |-> clock - delay, stored |-> clock]]
  /\ UNCHANGED <<clock, query, asked, cache>>
  /\ answer' = NoAnswer

(* A query for the time until now, or, by an administrator, since 'begin'. *)
(* What it starts with is no tile, but made of tiles.                      *)
Ask(q, given, period, res) ==
  /\ query[q] = NoQuery /\ asked < MaxAsked /\ clock \in AskTimes
  /\ asked' = asked + 1
  /\ LET begin == IF given = Now THEN clock - Interval[period] ELSE given
         tile == Tile(period, res)
         call == Frame(tile - 1, Truncated(begin, tile), begin + Interval[period])
     IN  query' = [query EXCEPT ![q] = [res |-> res, at |-> clock, stack |-> <<call>>]]
  /\ answer' = NoAnswer
  /\ UNCHANGED <<clock, trade, cache>>

(* What the cache has is returned, whatever the end that is asked for.     *)
Found(q) ==
  /\ Fetches(q)
  /\ \E e \in Cached(Top(q).tile + 1, query[q].res, Top(q).next) :
       query' = [query EXCEPT ![q].stack = Append(Below(q), Joined(Top(q), e.slots, e.partial))]
  /\ answer' = NoAnswer
  /\ UNCHANGED <<clock, trade, asked, cache>>

(* memcache does not have the tile, has forgotten it, or fails.            *)
NotFound(q) ==
  /\ Fetches(q)
  /\ LET tile == Top(q).tile + 1
         call == Frame(tile, Top(q).next, TileEnd(tile, Top(q).next, Top(q).end))
     IN  query' = [query EXCEPT ![q].stack = Append(@, call)]
  /\ answer' = NoAnswer
  /\ UNCHANGED <<clock, trade, asked, cache>>

(* A query of the datastore sees what was stored some time ago, and perhaps*)
(* what was stored since.                                                  *)
Seen ==
  {seen \in SUBSET {t \in Trades : trade[t] # NoTrade} :
     \A t \in Trades : trade[t] # NoTrade /\ trade[t].stored + IndexLag <= clock => t \in seen}

Read(q) ==
  /\ Reads(q)
  /\ \E seen \in Seen :
       LET f == Top(q)
           read == [f EXCEPT !.slots = FromDatastore(seen, query[q].res, f.begin, f.end),
                             !.next = @ + Interval[f.tile]]
       IN  query' = [query EXCEPT ![q].stack = Append(Below(q), read)]
  /\ answer' = NoAnswer
  /\ UNCHANGED <<clock, trade, asked, cache>>

(* What was fetched is added to the cache, and its life is counted from    *)
(* here.  Nothing is added if memcache fails or has the tile of another    *)
(* handler, unless it has forgotten that by now.                           *)
AddTile(q) ==
  LET f == Top(q)
      partial == f.partial \/ (f.end < f.begin + Interval[f.tile] /\ f.end < query[q].at)
      others == Cached(f.tile, query[q].res, f.begin)
      item == [tile |-> f.tile, res |-> query[q].res, begin |-> f.begin, slots |-> f.slots,
               partial |-> partial, until |-> Life(f.tile, f.begin)]
  IN  /\ Returns(q) /\ Len(query[q].stack) > 1
      /\ \/ cache' = (cache \ others) \cup {item}
         \/ others # {} /\ cache' = cache
      /\ query' = [query EXCEPT ![q].stack =
                     Append(Front(Below(q)), Joined(Last(Below(q)), f.slots, partial))]
      /\ answer' = NoAnswer
      /\ UNCHANGED <<clock, trade, asked>>

Reply(q) ==
  /\ Returns(q) /\ Len(query[q].stack) = 1
  /\ query' = [query EXCEPT ![q] = NoQuery]
  /\ answer' = [slots |-> Top(q).slots, partial |-> Top(q).partial, begin |-> Top(q).begin,
                end |-> Top(q).end, at |-> query[q].at]
  /\ UNCHANGED <<clock, trade, asked, cache>>

(* The datastore or the platform fails.  Tiles that were added stay.       *)
Fail(q) ==
  /\ query[q] # NoQuery /\ query' = [query EXCEPT ![q] = NoQuery]
  /\ UNCHANGED <<clock, trade, asked, cache>>
  /\ answer' = NoAnswer

(* The clock goes on and entries expire.                                   *)
PricesTick ==
  /\ clock < LastTime /\ ~Over
  /\ \A q \in Queriers : query[q] # NoQuery => clock + TimeStep <= query[q].at + Slack
  /\ clock' = clock + TimeStep
  /\ cache' = {e \in cache : e.until = Always \/ clock + TimeStep < e.until}
  /\ UNCHANGED <<trade, query, asked>>
  /\ answer' = NoAnswer

PricesNext ==
  \/ \E t \in Trades : MatchBids(t)
  \/ \E q \in Queriers :
       \/ \E p \in Questions : Ask(q, p[1], p[2], p[3])
       \/ Found(q) \/ NotFound(q) \/ Read(q) \/ AddTile(q) \/ Reply(q) \/ Fail(q)
  \/ PricesTick

PricesSpec == PricesInit /\ [][PricesNext]_pricesVars
-----------------------------------------------------------------------------
(* What must hold.                                                         *)

Places(slots) == UNION {{<<i, j>> : j \in DOMAIN slots[i].trades} : i \in DOMAIN slots}
PlacesOf(slots, t) == {p \in Places(slots) : slots[p[1]].trades[p[2]] = t}

(* Tiles, whether they come from the cache or not, fit together: the slots *)
(* of an answer follow one another, none is empty (renderPricesForFlot     *)
(* divides by the number of trades), and each trade is in one of them, in  *)
(* the right one.                                                          *)
SlotsFitTogether ==
  LET slots == answer.slots IN
  /\ \A i \in DOMAIN slots \ {1} : slots[i - 1].end <= slots[i].begin
  /\ \A i \in DOMAIN slots : slots[i].trades # <<>>
  /\ \A t \in Trades : Cardinality(PlacesOf(slots, t)) <= 1
  /\ \A p \in Places(slots) :
       LET s == slots[p[1]] IN trade[s.trades[p[2]]].matched \in s.begin..s.end

(* How old the data of a coarsest tile may be, seen from the query that    *)
(* puts it together: below it a tile may be taken from the cache at the end*)
(* of its life, and another query may have taken all its time to add it,   *)
(* and so on with the tiles below.                                         *)
Levels == CoarsestOffset - FinestOffset + 1
MaxAge == (Levels - 1) * (Expiry + Slack) + IndexLag

(* How long after its match a trade may be stored without being missed by a*)
(* tile that is kept for ever, and how old the data of other tiles is.     *)
Grace == Horizon - Slack - MaxAge
Stale == MaxAge + Expiry + Slack

(* An answer has every trade that was stored some time before, although    *)
(* tiles are kept for ever.  Not so if a trade was stored long after it was*)
(* matched, or if somebody asked for a part of a tile in the past.         *)
AnswersComplete ==
  answer.partial \/ \A t \in Trades :
    /\ trade[t] # NoTrade
    /\ trade[t].matched \in answer.begin..answer.end - 1
    /\ trade[t].stored \in trade[t].matched..Min({trade[t].matched + Grace, answer.at - Stale - 1})
    => PlacesOf(answer.slots, t) # {}
=============================================================================
