# arbscan in TLA+

`arbscan` looks for arbitrage between Kalshi (K) and Polymarket US (P): two
markets on the same question whose prices let one side be bought on each venue
for less than the dollar they pay together.  It keeps both venues' books from
their streams, prices every pair of markets when a book moves, and trades what
it finds three ways: on paper, as a dry run (previews, no orders), and live.
The live trader moves money, with nobody watching; these modules are mostly
about it.

## 1. The system

### Components

| component | source | state it keeps | operations |
|---|---|---|---|
| live trade execution | `livetrade.py` `LiveTrader` | the trade under way, open trades, money set aside, run of rejected orders | `_execute`, `_send`, `_resolve`, `_even_up`, `_sell_back`, `_rescue`, `_finish` |
| limits and stop file | `livetrade.py` `LiveGuard`, `dryrun.py` `Guard` | `halted`, `stuck`, `live.halt`, positions, held markets, the day's trades and P&L, cooling markets, sell-backs, Kalshi's status | `__call__`, `poll`, `halt`, `sold_back`, `cool`, `kalshi_closed` |
| order journal | `livetrade.py` `Journal` | `live_journal.jsonl` | `send`, `done`, `clear`, `unresolved`, `markets` |
| order clients | `orders.py` | none | `place`, `parse`, `resolve`, `position` |
| account reading | `dryrun.py` `read_account`, `livetrade.py` `LiveRun._run` | epoch, positions, cash per Kalshi shard, PM cash | a read every 30 s and after each trade |
| live-halt, live-resume | `livetrade.py` | the stop file, the journal | two commands, each a process of its own |
| shard rebalancer | `shards.py` | cash wanted per shard, transfers made, backoff | `step`, `plan`, `targets` |
| settlement and corrections | `livetrade.py` `settle`, `true_up`; `moves.py` | settled trades, what the venues' ledgers paid, the owner's own moves | settle, true up, read the ledgers |
| results recorder | `results.py` | one row a market: its result, whether it is paid, when it was looked up | a pass, a lifecycle event |
| PM book check | `confirm.py` | when each book was last vouched for | `ask`, `apply`, `verified` |
| Kalshi feed, PM feed | `feeds.py` | one book per market, subscriptions, sequence numbers | snapshot, delta, gap, resubscribe, reconnect |
| deciding to trade | `paper.py` `consider`, `arb.py`, `fees.py`, `bankroll.py` | one watch per window | start a watch, wait, look again, take |
| paper fills, dry-run previews | `paper.py`, `dryrun.py` | simulated account, queue of previews | fill, preview |
| scanner and episodes | `live.py`, `scanner.py` | open windows; the pairs watched and their metadata | open, extend, close, cut short, resume; reload, refresh, retire |
| database writer | `dbwriter.py` | a queue in front of SQLite | put, commit, flush |
| refresh job, daemons | `jobs.py`, `service.py` | schedule, stage, child process | run, cancel, retry |
| discovery | `discover.py` | a cursor per venue | poll |
| raw history pruning | `retention.py` | the oldest raw row | prune in batches |
| HTTP client | `http.py` | a limiter per venue | request, back off |
| matching and reviews | `match.py`, `jev.py`, `review.py`, `pairs.py` | `decisions`, `pairs.csv` | approve, reject, recheck, take out |
| catalog, store, backtest, web, CLI, Novig study | the rest | data | SQL, pages, reports |

### How they interact

One asyncio loop runs the feeds, the scanner, the three traders and the account
reader; between two awaits a coroutine is alone.  A feed changes a book and calls
the scanner back, which re-prices the pairs on that market and offers each
opportunity to the traders (`consider`).  The live trader waits for the quiet
time, has the PM book checked by REST, passes the limits, sets money aside and
starts a task for `_execute`; while it runs `busy` holds off every other trade
and every new account read, but not a read already under way, a shard transfer
already sent, a stop file, or the streams.  Rows go through a queue to the database
thread.  The order journal and the stop file are written directly.
`live-halt` and `live-resume` are other processes that touch the same two files.
Refreshing the catalog is a child process, discovery another, pruning a thread; refresh,
discovery, `arbscan review` and the dashboard write the decisions and `pairs.csv`,
which the scanner reloads.

### What is hard

* **Unknown outcomes.**  An order's reply may be lost after the exchange filled
  it.  It is never sent again: the position says what it did, compared with what
  the trader believes it was before.  That belief must then be right.
* **Two legs, one at a time.**  Between them, and after any part fill, the
  account holds an unhedged leg.  Every path must end hedged, or stopped.
* **Reads overtaken by writes**: account reads against trades and transfers, REST
  books against streamed ones, ledger corrections against rows not yet committed.
* **Crashes** between the journal, the venue, the journal, and the row.
* **Units.**  PM fills fractions of a contract, Kalshi whole ones.
* **Streams** that lose a message, freeze, or hand a market to another connection.

`PROJECT.json` lists these as hazards, each at its line.

### What makes each component correct

* Trade execution: the records are what the venues hold; never more hedge than
  leg; unhedged means stopped; no order while an earlier one is unknown; what is
  set aside comes back once; every trade ends.
* Rebalancer: cash is never counted twice, nor spent while on its way.
* Book check: a book is vouched for only by a read at least as new as it is.
* Feeds: a ready book is the exchange's book as of some message already sent.
* Settlement: realised P&L is what the ledgers paid, whatever order news arrives in.
* Deciding: a window is taken at most once, and a watch that comes due is looked at; the
  limits hold over restarts; sizes are what the books can bear.
* Pairs: none without its decision, and the scanner watches the ones in the file.
* Results: each comes on record, a live trade's as it was paid.
* Journal: an order that may have reached a venue is found again after any crash.
* Writer, refresh, discovery, retention: nothing accepted is lost or left hanging.

## 2. The modules

| module | what | proofs |
|---|---|---|
| `LiveTrade` | a live trade with venues, journal, stop file, account reads, crashes, user | `LiveTrade_proofs` |
| `ShardCash`, `ShardPlan` | transfers between Kalshi shards against trades and balance reads; what a round transfers | `Money_proofs` |
| `Journal` | the journal line by line: torn writes, append, `unresolved` | `Records_proofs` |
| `Retention` | the raw history between the database writer and the pruning thread | `Records_proofs` |
| `BookPromise`, `KalshiFeed` | what a feed promises; Kalshi's, which implements it | `Feeds_proofs` |
| `PMFeed` | Polymarket US connections sharing one table of books | `Feeds_proofs` |
| `BookCheck` | REST reads against the Polymarket US stream | `Trading_proofs` |
| `Windows` | one window: episodes, re-pricings, timers, the decision | `Trading_proofs` |
| `Limits` | the live limits and their rebuild at a restart | `Trading_proofs` |
| `Pricing` | ladders, the walk, an order's limit and fill, payouts: functions | `Trading_proofs` |
| `PaperAccount` | paper trades that share an account | `Money_proofs` |
| `Settlement` | settle, `true_up`, results that change, the writer's lag | `Money_proofs` |
| `Ledgers` | the owner's own moves, read while the owner trades | `Money_proofs` |
| `Results` | results come on record | `Upkeep_proofs` |
| `Watching` | which pairs are watched, on what metadata | `Upkeep_proofs` |
| `Pairing` | decisions and `pairs.csv` between the processes that write them | `Watchlist_proofs` |
| `Discovery` | the catalog and the discovery service | `Watchlist_proofs` |
| `Jobs` | refresh, Daemon, stop | `Upkeep_proofs` |
| `RateLimiter` | the pace of calls to a venue | `Records_proofs` |
| `Sums` | lemmas only: least and greatest elements, induction over finite sets, sums over them | itself |

`MCTrading` checks `Windows`, `Limits`, `BookCheck` and `Pricing`; `MCMoney` `ShardCash`,
`ShardPlan`, `PaperAccount`, `Settlement` and `Ledgers`; `MCFeeds` both feeds; `MCWatchlist`
`Pairing` and `Discovery`; `MCUpkeep` `Watching`, `Results` and `Jobs`; `MCRecords` `Journal`,
`Retention` and `RateLimiter`.  `LiveTrade` has configurations of its own.  Each MC module is a sum:
its initial states choose a component, `part` remembers it, and the others' variables stay
as they were, so each component is checked as by a run of its own.  Where components do
interact, the module that needs the other has what it sees of it: `LiveTrade` the journal
and the account, `ShardCash` the trade, `Settlement` the results and the ledgers,
`Retention` the writer, `Discovery` the catalog.

Theorems about a component that only an MC module gives its constants and variables are about that
module's `MCSpec`: `MCSpec => []PnlAgrees` says that the property holds of every behaviour whose `part` is
the component's, for all values of the MC module's constants.

## 3. What is modelled

### LiveTrade: one live trade at a time, with everything that can happen to it

Parties: the trader's event loop, the venues, the database thread, the user.

| variable | in the code |
|---|---|
| `pos` | (venues) what the account really holds of each leg of each pair |
| `order` | the trader's one order: waiting for its turn, sent, acted on, unclear |
| `journal` | the ids `Journal.unresolved()` would list |
| `haltFile`, `halted`, `stuck` | `live.halt`, `LiveGuard.halted`, `LiveGuard.stuck` |
| `rows`, `saved` | `LiveTrader.open` in memory, and as committed |
| `trade` | the locals of `_execute`, `_even_up`, `_rescue`, with the point it is at |
| `belief`, `acct`, `reading` | `Guard.positions`, how old they are, a `read_account` under way |
| `paused`, `rejects`, `reserved` | `k_paused_until`, `rejects`, `reserved` |
| `resuming` | a `live-resume` between its reads and its writes |
| `cut`, `handed` | history: pairs a crash cut short, pairs a resume left to the user |

Actions follow the coroutine from await to await.  `Execute` is `consider`'s
pick and the first leg; `Send` journals the order and lets it go; `Exchange` is the
venue; `Reply`, `ReplyUnclear`, `ReadPosition`, `GiveUp` are the ways to
learn the outcome, and all run `Learn`, the rest of `_send`.  `BuyFollow`, `EvenUp`,
`Chased`, `SellBack`, `Sold` are the stretches of `_execute` and `_even_up` between
orders; `RescuePoll`, `RescueAct`, `Rescued` a round of `_rescue`; `Finish` the
write-up and the two `finally` blocks.  `SendFails`, `LearnFails`, `FinishFails`
are the exceptions that reach `_execute`'s `except` clauses.  Between trades:
`Poll`, `ReadAccount`, `AccountRead`, `AccountReadFails`, `PauseEnds`, `Commit`.  Around
all of it: `Crash`, `Restart`, `HaltByHand`, `ResumeRead`, `ResumeApply`.

Code that runs without an await between two points is one action, except that
`EvenUp` and its like are taken separately from the `Learn` before them;
`LoopFree` keeps the loop's other tasks out in between, while the venues, the
user and the database thread, which are not on the loop, may step.

Abstracted: prices, fees and cash (whether an order's price is acceptable is a
free choice, so every branch on a price is taken both ways); the limits that only
refuse a pick (free choice of whether `Execute` happens); markets' sides (a
position is how much of the leg this pair buys).  `RowCap` bounds the model only:
no new trade in a pair whose rows hold more.  Ids of finished orders are used
again, which the code's random ids make unobservable.

Assumed of the venues: an order is acted on before its position is read back
(`_resolve` waits before each read; an exchange that fills an order after
reporting the position without it is out of the model), a fill-or-kill order
is all or none, Kalshi fills whole contracts, a reduce-only sale never goes short.

`CarefulUser` says that `live-resume` is only run between trades of a stopped
trader whose account was read since its last trade, and is not suspended while it
runs.  The properties that need it are checked with it.

#### Runs

| run | question | bounds | properties |
|---|---|---|---|
| `trade_orders` | do the trade's own orders stay right? | 2 pairs, trades of 2 contracts, 2 rescue rounds | `TypeOK`, `NeverOverHedged`, `BeforeExact`, `NoOrderIntoPause` |
| `trade_crash` | across crashes and failing writes? | 2 pairs, 1 contract, 1 round; writes that fail | `AccountExact`, `ReservedExact`, `NoSendWhileUnresolved` |
| `trade_units` | with part contracts, and either venue leading; and does every trade end? | 1 pair, 2 contracts of 2 units, `FairSpec` | `HedgedOrStopped`, `TradeEnds` |
| `trade_cut` | does a crash mid-trade stop the trader, as documented? | 1 pair, crashes | `CrashMidTradeStops`: violated |


Why these bounds are enough: the trade sends at most one order at a time, so two
contracts give every kind of part fill, two units to a contract every fraction
that matters to a floor; a second pair is needed only for a trade next to an open
one; two rescue rounds give one that goes on and one that gives up, and a blind
sale (`BlindEvery = 2`); two rejects reach the limit.  Ids: one order is open at a
time; the second id is there so that a trader that sent with one unresolved could.

#### Fairness

`FairSpec` adds `WF_vars(TradeStep)`: some step of a trade under way is taken
eventually.  The event loop keeps running the coroutine, every sleep is finite and
every request has a timeout, so none of its waits is for ever.  Nothing is assumed of
polls, reads, the user, the database thread or the venue's answers themselves;
`TradeEnds` may not rest on an order ever filling.

#### Proved

`LiveTrade_proofs`, for all values of the constants (any number of pairs, any
sizes, units, rounds and limits), from the ASSUMEs of `LiveTrade`:

| theorem | states |
|---|---|
| `TypeCorrect` | `Spec => []TypeOK` |
| `OverHedgeFree` | `Spec => []NeverOverHedged` |
| `ReserveReturned` | `Spec => []ReservedExact` |
| `NeverSentBlind` | `CarefulUser => (Spec => NoSendWhileUnresolved)` |
| `BeforeRight` | `CarefulUser => (Spec => []BeforeExact)` |
| `AccountRight` | `CarefulUser => (Spec => []AccountExact)` |
| `UnhedgedStops` | `CarefulUser => (Spec => []HedgedOrStopped)` |
| `PauseKept` | `Spec => NoOrderIntoPause` |

The inductive invariant is `IInv == TypeOK /\ Shape /\ Ordered /\ NeverOverHedged
/\ ReservedExact`.  `TypeOK` alone is not inductive: a rescue orders `Left(trade)`
contracts, which is a natural number only because a trade is in a rescue only with a
contract or more unhedged.  `Ordered` carries that, and that the second leg never
holds more than the first, so the leg to sell back is always the first one;
`NeverOverHedged` is what makes `Ordered` survive a fill, and `Shape` says where
an order can be out at all and which venue a sale goes to.  `ReservedExact` needs
only that a process that is down has no trade.

`NeverSentBlind` needs one more invariant, `Answered`: an open journal entry belongs
to the order in flight, or the trader is stopped by something only a resume, or the
restart that finds the entry again, can undo; and while a resume is under way nothing is sent.
The careful user is essential here: a resume suspended between its reads and its
writes lifts a stop it never looked at.

The account's three properties come from one invariant, `IInv /\ AInv`, for they hold each
other up.  `Recorded`: rows, the trade under way and the venues agree while the trader trades.
`Believed`: what the guard holds is the account before the order under way, as long as it
may be relied on (`Trusts`: a trade that wasn't stopped is running, or the account was read since).
So a read-back works out the right fill and `Recorded` survives an order whose reply was lost.
`Filled` and `Stops` are what that costs: only the venue fills an order; a trade that was stopped has
stopped the trader on disk or until a restart; a resume comes only with the account read, and no
read that a trade overtook is kept.  `Ended` gives `HedgedOrStopped`: a trade that ends without a
stop is even.  The careful user is essential: a resume before the account was read
makes `Believed` false, and the next read-back books the wrong fill.

`PauseKept` needs no careful user.  Its invariant, `PInv`, says where a trade can be while Kalshi
is paused (`PausedOut`): leading at Kalshi, it holds nothing there and buys no second leg; leading at
Polymarket US, it is past its first leg, and it was a later order that Kalshi turned away.

Only model-checked: `TradeEnds` (liveness under fairness is outside the prover's reach).

#### Findings

* `trade_cut`: a process that dies between two orders of a trade leaves every
  order it sent answered in the journal, an unhedged leg at a venue, and no row.  The
  restart looks for unanswered orders only, finds none, and trades on.  The
  docstring has such a crash stop the trader.

One more thing that `AccountExact`, with its careful user, leaves out: `_run` marks the account
as read before reading it.  If the read after a trade fails, nothing is read for 30 s; when
that trade's last order had an unknown outcome, `held` does not list its market, and a trader
resumed in that time takes another pick there.

### ShardCash and ShardPlan: cash on Kalshi's shards

Kalshi keeps the account's cash on several exchange shards; a trade spends the
cash of its market's shard only.  `Rebalancer` moves cash between them.

`ShardCash` is about timing: what the trader thinks each shard holds, against
what it does.

| variable | in the code |
|---|---|
| `real`, `landing` | (Kalshi) each shard's cash; transfers that have left a shard and not arrived |
| `known`, `cash` | `Guard.shard_cash`, `None` until it was first read |
| `stale` | `LiveTrader.account_stale` |
| `trade` | the trade under way: its shard, what it may spend, what it spent unheard of |
| `lost` | it ended with an order whose outcome it never learned, and stopped the trader |
| `loop`, `data`, `kept` | where `LiveRun._run` is; what the read was answered; its epoch is still the account's |
| `spare`, `sent`, `done`, `backoff` | `Rebalancer.step`'s locals, the transfer awaited, `failed_until` |

`Pick`, `Buy`, `Sell`, `Heard`, `TradeEnds` are a trade as the cash sees it;
`Ask`, `Answer`, `AccountRead`, `AccountReadFails` the read; `Look`, `NoLook`,
`Transfer`, `Moved`, `Refused`, `Landed`, `TransferDone`, `TransferFails`,
`TransferUnclear`, `RoundEnds` the round; `Payout` a settlement.  A trade may start at every
await of the other two.  Any transfer that takes no more than a shard held when
the round began is allowed: that `plan` makes no other is `ShardPlan`'s `OnlySpare`.

`ShardPlan` is `plan` itself, as a function, with the rounds it leads to when every transfer
goes through: from every split of the cash, every target of the same total and every
set of shards that ran short.  Amounts are in half cents, so targets are fractions of
what can be transferred.

| run | question | bounds | properties |
|---|---|---|---|
| `money` (its first two parts) | is cash ever counted that isn't there; does a round do what it is for? | `ShardCash`: 2 shards, money in while under 2 dollars a shard.  `ShardPlan`: 3 shards, 8 ticks each, 2 to a cent, `MIN_MOVE` 2 cents | `TypeOK`, `NeverOverspent`, `RoundServes` |

Two shards are what a transfer touches; a third matters only to `plan`, where one shard
can give to two or take from two.  Unbounded in the code, money comes in only
while no shard would have more than `MaxCash`; nothing in the model looks at the bound otherwise.

**Proved** (`Money_proofs`, any shards, any amounts): `CashTypeCorrect`, `Spec =>
[]TypeOK`, in which `cash` may be below zero and Kalshi's own amounts may not; and
`CashOnHand`, `~HiddenMoves => (Spec => []NeverOverspent)`.  `NeverOverspent` speaks of the moments
between trades, so it is not inductive.  The invariant is `TypeOK /\ Apart /\
ReadCovered /\ Covered`.  `Covered` says at every moment that `cash`, with what a transfer
under way will still add to it, is at most the real cash with what a trade under
way has spent unheard.  `ReadCovered` says the same of an answer that will be kept, and
`Apart` that such an answer, a transfer and a trade never come together.

`HiddenMoves = FALSE` is an assumption about Kalshi: that no transfer it answered with an error was made.
Any status from 400 up counts as a refusal, a 5xx too, and the amount is put back on the shard it
may have left.  With `HiddenMoves = TRUE`, `NeverOverspent` does not hold: picks are sized to that
cash until the next read.

Before each transfer `step` asks whether a trade is under way, not whether one was: a trade
that started and ended during the last transfer leaves the rest of the round following
an old plan.  `Covered` still covers those transfers, so no cash is counted twice.

`RoundsServe` is `MCSpec => RoundServes`, for any set of shards and any amounts, of which it assumes only
that `MIN_MOVE` is a positive number of whole cents.  `plan`'s two loops are one recursive function, `Match`, of what is
lacked and what is spare.  That there is such a function follows from a measure that falls at each step
(`Recursion` in `Sums`; here two for each need, one for each spare, and one less when what a need still lacks is
under `MIN_MOVE`).  `MatchServes` is an induction over that measure: as long as a shard is on a side once and every spare is
worth a transfer (`Fair`), the transfers take no more than each spare is and bring no more than each need is,
and they leave every need, or else every spare, under `MIN_MOVE` (`Serves`).  The second
half is why a round leaves nothing: whichever side it used up, the next round finds that side empty.

### Journal: the order journal, line by line

`LiveTrade` keeps the set of orders with no outcome.  `Journal` keeps the file it
is read from: `file`, its lines; `cut`, whether the last is only the start of
one.  `Send`, `Learn`, `Crash`, `Restart`, `ResumeRead`, `ResumeApply` append to it
and read it back, and each write may fail, leaving nothing or part of a
line (`AddFails`).  The next entry is then glued to that part, and `unresolved()`
skips both.  `open` and `torn` are history: the orders that may have reached
a venue with no outcome on paper, and how many writes were torn.

| run | question | bounds | properties |
|---|---|---|---|
| `records` (its first part) | does the file list the orders that are open? | 3 orders, 2 torn writes | `Exact`, `EachCutLosesOne` |

`Exact` (no torn write: exactly the open orders) is what `LiveTrade` relies on.
`EachCutLosesOne` is what is left of it with torn writes; three orders and two tears let two
tears meet one order, and one tear meet two.

**Proved** (`Records_proofs`), for any set of ids and any number of torn writes: `JournalExact`,
`Spec => []Exact`.  `JInv == TypeOK /\ (torn = 0 => Sound)` adds that an unused id has no
line and that a resume under way lists only orders that were sent.  And `CutsLoseFew`, `Spec =>
[]EachCutLosesOne`.  A tear has its price when the next line is glued to it, so the invariant
`LInv` counts a cut that nothing was written on yet as an order already lost (`Few`).

So an order journaled on a torn line and then cut off by a crash is not found on the next start:
`_add` doesn't look at how the file ends.  The docstring's "found on the next start" holds without torn writes.

### KalshiFeed, implementing BookPromise

`BookPromise` is what a feed promises: a ready book is the exchange's book as it was
at some earlier moment, moves one change at a time, and never goes back.  A book is the
sequence of changes it was built from, so a lost, doubled or misplaced change shows.

`KalshiFeed` is the feed with its connection: two queues, of commands and of
messages, each lossless and ordered as long as it is up, except that a message
may vanish (`Lose`).  `changes`, `served`, `owed`, `merged`, `seq` are
Kalshi's; `wanted`, `changed`, `requested`, `rejected`, `sid`, `last`, `gap`, `book`
the feed's fields (`_changed`, `_requested`, ...); `conn`, `sync`, `halves` say where `run`, `_sync` and
the tasks for a refused batch are.  `_sync` is three actions, `SyncDrop`, `SyncAdd`,
`SyncMore`, since each send is an await in which messages arrive.  `_handle`, without an await,
is one action a message: `HandleGap`, `HandleDelta`, `HandleSnapshot`,
`HandleAck`, `HandleError`.  How Kalshi merges subscriptions and numbers its messages is modelled
from what the code expects of it.

`Promised == Promise!Spec` is the refinement: `Shown` is the promise's `view`, and
`seen` a history variable.  `Shown` is `book`, but for the markets in `ignored`, whose last snapshot of
the connection came while they weren't wanted.  `_handle` passes over such a snapshot and not over the
changes after it.  A market that was unwanted, wanted again and unwanted again while two snapshots of it
were on their way is left with the older one and the changes since the newer: a
ready book that the exchange never had, until the next snapshot or until `_sync` drops it.
Nothing prices an unwanted market; wanted again before it is dropped, it would be priced.

`InLineUnlessIgnored` is `_sync`'s purpose: once everything is quiet, each wanted market
that Kalshi serves has its book.  The markets in `ignored` are excluded here too: until the
subscription's id is known `_sync` drops nothing, so a market unwanted in that time stays requested, its
snapshot is ignored, and when it is wanted again nothing asks for it; it has no book until the
next reconnect.  `Quiet` asks that no message of this connection was lost: one lost before the first
numbered message is noticed by nobody, and one lost at the end only with the next.

| run | question | bounds | properties |
|---|---|---|---|
| `feeds` (its first part) | are the books what they are taken for? | 2 changes; 2 markets, with changes while under 4 numbered messages (`seqs`), new wants while under 2 with those queued (`backlog`), and messages lost with one market a command, or one market refused; or 1 market, both bounds 5 | `TypesOK`, `InLineUnlessIgnored`, `Promised` |

Two markets make every batch that splits, and a snapshot of one between the changes of
the other; connections come and go without bound.  `seqs` and `backlog` keep the queues short: what
they forbid is more to happen while that many messages are on their way.  The first two worlds (`MCWorlds`)
keep losses and refusals apart to keep the state space small: a refused batch
is handled without regard to numbers before or after it.  The third has queues long enough for the
older book above.  Safety only; no fairness.

**Proved** (`Feeds_proofs`), for any markets, batches, losses, refusals and bounds:

| theorem | states |
|---|---|
| `BooksAsPromised` | `Spec => Promised`: every step is one of `BookPromise`, or none |
| `InLine` | `Spec => []InLineUnlessIgnored` |

The argument follows a market's messages along the wire.  `Numbers`: those on the wire are
numbered up to `seq` without a gap, once lost ones are left out, and are newer than `last`.  `Counts`: those about a market
tell of its changes one by one, none older than what was shown.  Then, as long as the next number
is the one that comes (`NoHole`), what comes next about a market that is up is a snapshot or the next
change of its book (`Continues`); that is `Held`, and makes a handled message a step of
`BookPromise`.  A lost message leaves a hole, which stays at the same number until the gap is
seen and every book taken down.  `KInv` is these with the types and the state of a closed
connection (`NoConnection`).

`InLine` follows a market from being wanted to being served: wanted, it is asked for or will be (`Wants`);
asked for, it is on the wire one way or the other, or served, or will be (`Requests`); served, it has its book or its snapshot
is on the wire (`Readied`).  Once all is quiet nothing is on the wire, and `KInv` says that a book that is up is
then the exchange's.  `Whole` and `Refusals` exclude gaps no message was lost for, and refusals of
markets Kalshi knows.

### PMFeed: Polymarket US books, streamed over several connections

The server allows a connection a few subscriptions of a limited number of markets each, and
a subscription can be dropped but not edited.  So `PMFeed` spreads the markets over
connections that share one table of books.  Every message is a whole book; here, its
number on the exchange, which is also its time.

| variable | in the code |
|---|---|
| `wanted`, `changed`, `owned`, `subs` | `wanted`, `_changed`, `_owned`, `_subs` of each `_PMConn` |
| `conn`, `sync` | where each `run` and `_sync` is |
| `books`, `ready` | `PMFeed.books` |
| `served`, `cmds`, `wire` | the server's subscriptions, and commands and messages on their way |
| `missed` | history: connections and markets whose last book was thrown away, or taken down with its subscription left |
| `limit`, `exch` | the limits of this behaviour; the exchange's books |

`SetMarkets` is `set_markets`, whose loops that hand markets to connections are the closed
form `Assigned`; `Connect`, `Disconnect`, `Handle` are `_on_connect`, `_disconnected`,
`_handle`; `_sync` is cut at each send: `SyncDrop`, `SyncAdd`, `SyncClear`, `SyncMore`.
Which markets share a new subscription is free.  Ids of subscriptions that nothing
mentions any more are used again, which nobody can observe.  Messages aren't lost
here: what a silent stream does is `BookCheck`'s question.

`OneStream`: what is asked of the server stays within its limits (`WithinLimits`), and once all is
quiet each wanted market is served once (`ServedOnce`) and its book is the exchange's (`BooksRight`), unless (`missed`)
the last one that came was thrown away, because it came while the market wasn't wanted on that
connection; or was taken down and no new one asked for (`Bereft`).  The latter takes another connection that had the
market before and removes its book only then, or fails; or a market that isn't wanted
while `_sync` ends and is again before it runs next: `_sync` drops subscriptions by what was wanted when it
began, then removes the books of what isn't wanted now, so the market keeps its subscription,
loses its book, and gets it back with the next change.

| run | question | bounds | properties |
|---|---|---|---|
| `feeds` (its second part) | are subscriptions and books what they should be? | the four limits of `MCLimits` over up to 3 markets and 2 connections; markets change while under `MaxOut` messages are on their way | `TypesOK`, `OneStream` |

The limits are chosen for what can happen under them: a market a connection, two in one
subscription, two in two, and three markets of which two fit a subscription, where
subscriptions must be dropped and packed anew.  Connections fail at any time.

**Proved** (`Feeds_proofs`), for any markets, connections and limits that have room for the markets (`SizesFit`):
`EachStreamedOnce`, `MCSpec => []OneStream`.  The invariant, `FInv`, says of one connection at a time:

* `Asked`: once the server has had the commands on their way it will serve what `_subs` says, and after any number of
  them no more than it allows (`After`): so `WithinLimits` of what is served now;
* `Line`: subscriptions share no markets; a `_sync` that has dropped what it must, or still has to add `todo`, will leave
  `_subs` in line with `wanted` within the limits, unless that has changed meanwhile, and then another follows;
* `Latest`: of every market the messages tell of, the last one tells the exchange's book;
* `Right`: of a market served to a connection the exchange's book is up, or on its way, or it is `missed`.

With nothing on its way, `Asked` and `Line` give `ServedOnce`, as a market is wanted on one connection
(`Wanted`), and `Right` gives `BooksRight`.  `Wanted` is kept because `Assigned` numbers the new markets and each
connection takes numbers of its own, no more than it has room for (`CountedBy`).  That every new market finds a
connection is not part of `OneStream`.
Most of the steps change one connection, and are put together from four parts (`Moves`, `Goes`, `Takes`, `Stays`): its
requests and commands, how far its `_sync` is, the table of books, and what stays (`Syncing`).

There too, `FeedTypes`, `MCSpec => []TypesOK`: the types of both feeds.  They are more than sets: the last number taken
is never beyond the last given, no market has more changes than the bound, a ready book is made of changes
there were, no connection wants more markets than it has room for.  Polymarket US's follow from `FInv`; Kalshi's
take `KInv` and `RInv`, which adds that no change is the zeroth (`NoZeroth`), that no market changes
more often than all do (`Bounded`), and what a book is (`Made`).

Left out of `OneStream`: `_disconnected` takes down the books of the markets wanted at that
moment, so a market dropped from a connection that then fails, before `_sync` has
removed its book, keeps it ready until it is removed, or overwritten when it is wanted again.

### BookCheck: Polymarket US books, checked by REST

Polymarket US's stream has no sequence numbers.  `BookCheck` follows one market:
`exch`, the exchange's book, numbered as it changes; `wire`, `down`, its stream; `book`, the
`PMBook`; `read`, the REST read awaited; `checked` and `wait`, the ages of the
entries of `checked` and `asked`.  `Trade` may or may not be streamed, so the stream
freezes at will.  Time is discrete: a tick is half a second, which makes `MAX_AGE_S` 3,
`MIN_GAP_S` 1, `RETRY_S` 4, `READ_TIMEOUT_S` 4, and a reconnect takes at least 2.
`ago` is history: the exchange's book at each of the last ticks.

`Vouched`: a book that `ok()` passes is at least as new as the exchange's was `MAX_AGE_S`
ago, whatever the stream lost; and while it is up no book goes back in time, though
reads and stream overtake each other.

Assumed: every message carries its `transactTime`, and a new subscription starts with the
exchange's current book.  The second matters: `checked` is not cleared when a
connection ends, so a book from a new connection is vouched for by a read
of the old one; what keeps that right is that it starts from the current book.

Run `trading` (its part `check`): 3 books, 2 messages on their way, `MAX_AGE_S` 3 ticks of 5.

**Proved** (`Trading_proofs`): `BooksVouched`, `MCSpec => Vouched`, for any waits with `MAX_AGE_S`
no more than `READ_TIMEOUT_S` and `MIN_GAP_S` no more than `RETRY_S` (`TimesFit`), any number of books
and messages.  The invariant: an answer is at least as new as the exchange's book was when the read was
sent (`Newest`); and while a read vouches, the book, or all that is on its way to a
book that isn't ready, is at least as new as the exchange's was when that read was sent (`Kept`).
The time a reconnect takes isn't used.

### Retention: the raw history

Two threads write to SQLite, one at a time: the `DbWriter`, which appends what the scanner queues
(`Record`, `Commit`, `Close`; `Execute`, `WriterCommits`), and the `Pruner`, which deletes
what is too old or too much.  `Begin` starts a pass; `Trim` takes the next table and
looks for its boundary; `Look` is the head of `delete_before`'s loop, `Delete` one of its
transactions, which waits while the `DbWriter` has rows it hasn't committed, or fails the pass
(`DeleteFails`); `Size` is the loop of the size cap; `Halt` the service's stop, at any point.

| variable | in the code |
|---|---|
| `queue`, `txn`, `writer` | `DbWriter.q`; rows inserted and not committed; whether its thread lives |
| `rows` | the committed rows of each table, with SQLite's numbers: one after the last, 1 in an empty table |
| `at`, `pass` | where the thread is; `now`, `cutoff`, the tables left, `end` |
| `halt` | `Pruner.halt` |
| `setting` | `keep_raw_days`, and the rows `max_db_gb` allows |
| `emptied`, `late` | history: tables this pass has emptied; batches deleted since the stop |

Bytes are rows here, time is in hours and a day is `Floor` of them.  Assumed: the clock doesn't go
back, and what is queued in an hour is written within the next.

| run | question | bounds | properties |
|---|---|---|---|
| `records` (its second part) | is what goes old, all of it, and does pruning end and stop? | 2 tables, a row an hour and table at most, batches of a row; pruned by age for 4 hours, or by age and size for 3 (`MaxCapped`) | `OldUnlessEmptied`, `PassEnds` |

Four hours and a window of one leave two old rows in a table, so two batches with the writer
in between; three and a cap leave an hour that may go, and one that is too young; two tables make the
cap's oldest row one of several.  The run does not check for
deadlock: everything stops with the service.  `PassEnds` is checked with `WF` of the thread's
steps within a pass: it rests between batches for a bounded time, and its waits for the lock
end in 30 s.

**Proved** (`Records_proofs`): `StopsInTime`, `MCSpec => [](part = "raw" => Pruned!StopsWithinABatch)`,
for any tables and settings.  The invariant adds that no batch is late while the service runs or one is
about to be deleted.  And `PrunesTheOld`, `MCSpec => OldUnlessEmptied`, for any tables, settings, window
and size of a batch (`SizesFit`).  Its invariant `HInv` says that times come in the order of numbers, through
the table, the transaction and the queue (`RowsFit`, `TxnFits`, `QueueFits`), which is what lets one number split
a table by age; that the end found still splits it after every commit and batch (`Split`):
some row that is left is no more than one below the end, so what is recorded next is numbered above
it, and that is what an emptied table loses; and that the tables a pass is done with are young (`DoneWith`).

When every row of a table is too old, the last batch leaves it empty, and
SQLite numbers the rows recorded next from 1 again, below the boundary the loop compares with.
They are deleted too, for as long as the loop finds some.  It takes a table with nothing recent
when the pass begins, and rows recorded while the last batch rests: feeds that come back in the
middle of a pass after a week of silence, say.  `OldUnlessEmptied` and `PassEnds` make an
exception of just that.

### Windows: one window, from opening to trade

One direction of one pair, priced by the scanner.  A re-pricing is one callback, so one step: a
book changes (`BookChanges`, `BookGoes`), a timer rings (`Rings`), the book check answers
(`Answered`).  Each runs `Evaluate`: what `Episodes.observe` makes of it (`Observe`,
`Close`, `Reopened`), and what `PaperTrader.consider` does (`Consider`, `WakeAt`,
`Take`).  `TradeEnds`, `Forget`, `Start`, `StopAsked`, `Gone`, `Tick` are the rest.

| variable | in the code |
|---|---|
| `ep`, `resumable`, `rows` | `Episodes.open`, `Episodes.resumable`, the `episodes` table |
| `watch`, `traded`, `busy` | `PaperTrader.watch`, `.traded`, `.busy` |
| `timers` | the pending `call_later` of `_wake` |
| `sure` | what `BookCheck.ok` says of the book now |
| `mode`, `starts` | the scanner's life |
| `taken`, `asleep` | history: windows traded in this run; the last re-pricing met a busy pair |

What the limits, the account and the sizing say of a window that is due is free.

`TakenWhenDue`: a window is traded at most once in a run, and one that could be is looked at no later than it
is due, whether or not a book changes.  Excepted: a window last priced while its
pair had orders in flight, which nothing wakes when the trade ends.  A trade is
remembered by its window in memory only, so a restart that resumes the window may trade it again.

`RecordedOnce`: no window has two rows, nor a row while it is open.  Rows may still
overlap in time: the row of a window found closed after a restart stays reopenable, and
another restart within `RESUME_S` reopens it over the windows recorded since.

Bounds: 4 ticks, two starts, and waits of one and two ticks, so every wait can be
cut by every other; feeds that deliver after a stop (`Linger`).

**Proved** (`Trading_proofs`), for any waits shorter than `IDLE_WATCH_S` and any number of starts:
`OnRecordOnce`, `MCSpec => []RecordedOnce`, and `TakenOnceAndWhenDue`, `MCSpec => TakenWhenDue`.  By
themselves neither is inductive.  `RecordedOnce` needs that a row a run may reopen is
on record and that no window is open then (`Begun`).  That no window is traded twice needs that each
one traded is still open or has its row (`Opened`), so that a new one opens under another name, and that
`traded` names the open one if it was traded (`Known`).  That a pick is looked at needs that `woken` names a timer
that has yet to ring, that none is overdue, and that what is due is due before
`forget_idle` could drop the watch (`Ringing`).

### Limits: what a trade must pass

`LiveGuard` over days and restarts.  `Decides` is a pick that passes `__call__` and begins,
`Finishes` its end (done, missed, or sold back: what it leaves to rest, and the
breaker), `Ends` and `Starts` the process, with what `LiveTrader.__init__` works out from
the rows; `Resumes` is the owner's `live-resume`; `ReadExchange` Kalshi's hours.

`WithinTheLimits` is about the trade under way, by the rows and the clock alone, not by the
counters: fewer than `PerDay` that day, no market at rest, fewer than `PerHour`
sell-backs in the hour before, not over Kalshi's closing, nor a game's start.  It
is conditional on what a run can know: a market's rest after a miss is forgotten at a
restart; sell-backs of an earlier day are not looked at by a start after
midnight; a trade cut short by a crash has no row and does not count; until the hours have been read the
closing isn't applied; after a restart rests count from a trade's decision; and nothing is said of
a trade that outlasts the margin kept before a closing or a start (`live_rescue_s` is 300 s, the
margins 120 s).

Bounds: two pairs with a market in common, 3 trades, 2 starts, days of 3 ticks.  A trade takes up to
two ticks, and the margin is one.

**Proved** (`Trading_proofs`): `LimitsHold`, `MCSpec => []WithinTheLimits`, for any pairs, limits, hours and
starts, with a rest after a miss no longer than one after a sell-back, a breaker that lets at
least one pass, and closures longer than the margin (`LimitsFit`).  The property speaks of the rows, the guard
of its counters, so the invariant says what each counter has of the rows: the day's count all of today's
and the trade under way (`Counted`), `cooling` every rest not yet over (`Rested`), the breaker's list
every sell-back of the last hour (`Listed`), and fewer than `PerHour` of them unless trading is stopped
(`Broken`).  A start has to establish all four again: it knows fewer trades than the run before it (`StartKnows`).

### Pricing: what a pair is worth

Functions: `KalshiLadders`, `PMLadders`, `Walk`, `LimitFor`, `Take`, `Lasting`,
`Directions`, `PayoutPerPair`, in whole ticks and parts.  `PricedRight` compares them with
definitions that don't walk: over every pair of books of up to two levels and every
budget of the run, `Walk` finds the most whole contracts whose last part still brings an
edge, at what they cost; an order at `LimitFor` its size fills in full, never beyond its
money; what versions of a book have in common could have been bought from each; and both directions of a
pair pay a dollar.  Books of two levels with quantities of a third, a whole and
four thirds of a contract have every fractional tail the code drops.

**Proved** (`Trading_proofs`): `PricesRight`, `MCSpec => []PricedRight`, for books of any number of levels at any prices
under a dollar, any quantities, money, sizes and least edges, and any fee coefficient of at most 1 (`BooksFit`, `UnitsFit`).
The invariant, `BooksKept`, only says that the books are books; the work is in what the functions compute.
- *Ladders*: what is offered up to a price (`UpTo`) rises with it, and `PriceAt` is where it reaches the k-th
  part; a part's cost rises with its price, fee and all (`UnitGrows`: p + coef p(1 - p) does when coef <= 1).  So whether
  the first n parts of two ladders can be bought (`Fits`) is downward closed.
- *The walk*: its invariant, `OnTheWay`, is that the parts taken fit, that what is left of each ladder is the ladder
  less them (`Left`), and that cost and money are those of the first parts (`LegOn`).  A step keeps it (`WayOn`), and where
  the walk ends one part more would not fit (`WayEnds`).  That the recursive function `Walked` has its equation, and so follows
  these steps, is `Recursion` in `Sums`, on what is left to take.
- *The order*: after each level it has filled the first contracts of the ladder or all it wants
  (`FilledUp`), never over the money (`Held`).
- *Lasting*: by induction on the price, what it offers up to a price is the least either book did.

### PaperAccount: paper trades that share an account

Each trade is a task that reserves money, meets the books with waits in between
(`Fills`, `Reports`, `Chases`, `ChaseReports`, `Unwinds`), and writes one row; `Settles`
pays it out, `Fails` is an exception anywhere, `Restarts` works the account out from the rows, perhaps
with another bankroll.

`AccountAgrees`: cash, tied-up money and realized P&L, kept step by step, are what a restart would read from the
rows, less what is charged to trades under way or failed; and the reserve is what
running trades hold.  `NeverOverdrawn`: no venue is promised more than it has.  Excepted:
a missing leg bought while another trade runs is only charged with its report, and the
other may have been given the same money; and a bankroll that was lowered.  Two trades and
money for one or two contracts are enough for any two to compete.

**Proved** (`Money_proofs`), for any finite set of trades, any bankrolls and prices (`PaperFits`):
`PaperAccountAgrees`, `MCSpec => []AccountAgrees`, and `PaperNeverOverdrawn`, `MCSpec => []NeverOverdrawn`.
The account is a sum over the trades and each step changes one of them, so the argument is that the step
changes the account by what it changes of that trade's share (`SumDiffers`).  For that each trade's
figures must fit its phase (`Fit`): what is charged to a trade under way is within what it reserved, one that
is over reserves nothing, only a missing leg that was bought and not yet charged is still to be paid.
`NeverOverdrawn` isn't inductive: a report charges what it was told to, whatever is left.  `PaidFor`
adds that the leg to be charged is covered, as long as no other trade ran beside it; one that did is
what `excused` names.

### Settlement: a live trade, settled and put right

| variable | in the code |
|---|---|
| `entry`, `results` | the venues' ledgers; the `results` table |
| `row`, `disk` | the trade as last written, and as committed |
| `held` | `LiveTrader.open`, `.unpaid` |
| `realized`, `pnl`, `gday` | `LiveTrader.realized`, `LiveGuard.pnl_today` and its day |
| `payouts`, `kept`, `fresh` | `Moves.payouts`, `live_payouts` as committed, `Moves.fresh` |
| `reader` | `read_moves`, one venue at a time |
| `made`, `booked` | the day the trade under way was decided (its `ts`); history: the day this run counted its early loss |

`Decides` stamps the trade, `Opens` finishes it, on that day or after a rescue past midnight; `Settle`,
`TrueUp` (in `ReadEnds`), `Starts` change it; `Commits` is
the writer, at any later moment; `NextDay` midnight; `Ends` a stop or a kill.
`true_up` may fail (`Faults`).

`PnlAgrees`: realized and today's P&L, kept through openings, settlements, corrections and
midnights, are what a restart works out from the row, but for one gap, which the property states exactly
(`Tally`).  A row's `ts` is when the trade was decided (`paper.py:372`); its early loss is counted when it is
finished (`livetrade.py:930`), and a restart counts it by `ts >= midnight` (`livetrade.py:549`).  So for a trade
decided before midnight and finished after it, today's P&L has the early loss until the process is restarted
that day, and not after: `test_livetrade.py`'s "A restart counts it again from the record" holds of a trade
finished on the day it was decided.  A trade unwound altogether (`settled` at once) is not in this module;
the restart's sum has the same gap there.  `RecordedAsPaid`: a settled trade is at what the
ledgers say, unless something needed was not committed when it was read (`late`), until the next start.

**Finding** (run `payout_passed`, `PaidIsRecorded`, without faults): a payout found before the trade
settles is of no use to `true_up`, and is not offered again; settling a moment
later, before the payout's row is committed, the trade is settled at what the
market showed, and stays there until a restart.

Bounds: two days, a leg that pays half or all, a trade within and one past break-even.

**Proved** (`Money_proofs`), for any days, costs and payouts (`ValuesFit`): `LivePnlAgrees`, `MCSpec =>
[]PnlAgrees`, and `LiveRecordedAsPaid`, `MCSpec => []RecordedAsPaid`.  `SInv` is the two with the types and
`SettleHeld`: a trade is under way only in a process that runs and has no row of it yet, and was decided no later
than today; the guard's day is never ahead of the clock nor behind a trade or an early loss it counted, what the
trader holds as open or unpaid has the row it should have, and a trade settled on disk is settled in
memory: a restart that reads a disk the writer is behind on reads nothing that was taken back since.
`RecordedAsPaid` speaks of payouts that aren't in `fresh`; what a step has to show is that one that leaves
`fresh` was met by a settled row, or by a row or a disk not yet written, which is `late`.

### Ledgers: the owner's own moves

One market of Kalshi's: the owner buys, sells and is settled (`Trade`, `Settles`), entries show
up at once or late (`Shows`), and `Moves.refresh` reads position, ledger, position
in steps (`Begins` to `After`), or fails.  `RightUnlessCrossed`: what is
kept of an entry is what it moved, any netting of YES and NO included.  Excepted:
trades that came while it read, or that show late, and left the position as it was before.
An entry that is in the position and not yet in the ledger puts those before it wrong, and what
the next read does not go back to stays wrong.  Two fills and a settlement make every order of opening and
closing.

**Proved** (`Money_proofs`), for any number of fills, prices, lags and overlaps (`LedgerFits`):
`LedgerRightUnlessCrossed`, `MCSpec => []RightUnlessCrossed`.  `Moves.refresh` knows only the position it
ends with, and walks back from it; the invariant, `LInv`, is what makes that the walk the market made.
Some `k` entries were made, in order of time, a settlement last (`Order`); the position is the sum of the fills,
or nothing after a settlement of that sum (`Stands`); what a read has been told of are entries there are, from where
it began (`Told`); and what is kept is of one of them, and right unless the read was crossed (`Kept`).  A read that isn't
crossed was told of every entry after the first it was told of, so what it adds up from there to the end is what
the position changed (`SumSplit`).

Run `money` has all these parts: `NeverOverspent`, `RoundServes`, `AccountAgrees`, `NeverOverdrawn`,
`PnlAgrees`, `RecordedAsPaid`, `RightUnlessCrossed`.

### Watching, Results, Jobs: what must go on

Run `upkeep` asks for liveness, under fairness.

`Watching`: the tick reindexes when the file changed and starts a metadata refresh when one is wanted
and none runs; the refresh asks Kalshi, then Polymarket US, and answers may leave markets
out; lifecycle events come or are lost.  `PairsWatched`: in the end every pair in the
file is watched, retired if a market of its is over, and else shown as its
Kalshi market is; none is forgotten (`_meta_pending`) and an answer that leaves markets
out retires none.  Fair: the tick, the refresh's steps (requests have timeouts), the ageing of
metadata.  Changes, lost answers and failed requests are bounded together (`MaxTurns`, 2), so that "in the end" is
after the last; not bounded, a pair could be put in and taken out for ever.

`Results`: `Begins` and `Saves` a pass, beside `Lifecycle`.  `Judged`: every market's result comes
on record, and a live trade's as it was paid.  Fair: passes begin; and for each market, a pass that is to
look it up and begins again and again is at some time answered for it (`SF`): with a venue
that never answers there is no result.  Three markets and two requests a pass leave somebody
waiting.  One failing request loses both venues' rows of a pass, and a lifecycle event
puts a market at the end of the queue; neither starves one.

`Jobs`: `Schedule`, `Watch`, `Cancel`, `Cancelled` the scheduler, `Spawn`, `StageEnds` the
task, `Trigger` a refresh asked for by hand, `DaemonStarts` to `DaemonStops` the Daemon.  `Alive`: while the
service runs there is one refresh at a time; an idle refresh comes again and a child that
exited is started again; and a stop ends everything it waits for.  Fair: the event loop, and
processes that don't hang.  A stage that hangs holds the schedule up for good, and one that
was cancelled may run on after the service; both are allowed here.

Only `TypeOK` of each and the safety parts are invariants; the rest needs the fairness named.

**Proved** (`Upkeep_proofs`), for any pairs, markets, values, bounds and numbers of stages:

| theorem | states |
|---|---|
| `NoneForgottenOrLost` | `MCSpec => [](TypeOK /\ NoneForgotten /\ RetiredRightly)`, the safety part of `PairsWatched` |
| `NoResultInvented` | `MCSpec => []NothingInvented`: a result on record is one the venue has shown, and the one it shows if no live trade is on the market; a status of paid and a payout are from a venue that has paid |
| `OneAtATime` | `MCSpec => [](Job!TypeOK /\ Job!OneRefresh)`, the safety part of `Alive` |

The first rests on `WInv`.  `AskedAbout`: unless a refresh failed or one is wanted, a pair nothing is known of is asked
about by the one under way, or all will be by the next, since Kalshi's metadata is old.  `Learnt`: once Kalshi's answer
is in, something is known of each pair it was asked about, "missing" if nothing else, so that a refresh that
asked about every pair watched ends with none forgotten, even if one before it had failed.  `TakenForOver`: what
is known to be over is, whether it was asked, told or closed at Polymarket US, as a market that is over stays so
(`Answered` for what Kalshi has just said).  The second keeps `Borne` for the rows and for what Kalshi said to the pass
under way: a market goes on meanwhile, which only makes more of it true.  `Results`' own `TypeOK` is left to TLC, as
its `order` is made with `SelectSeq`, which the provers can't expand.

### Pairing and Discovery: how pairs come to be watched

`Pairing`: refresh and discovery approve by rule or on Jev's word, a person by hand
(`Look`, `Decide`, `AppendPair`, `End`), the refresh rechecks what code approved (`Recheck`,
`Replace`, `Revoke`), the dashboard takes pairs out (`Remove`), any of them is killed
(`Crash`), and the scanner reloads (`Reload`).  A file's mtime is of the kernel's clock, which advances in
ticks (`Ticks`), and the scanner compares it for equality (`pairs.py:101-104`): a line written in the
tick of the last one, as in `auto_approve`'s loop (`match.py:832-838`), leaves the mtime as it is (`Written`).  `held` are decisions in a transaction
not committed, `pend` what is committed and not appended, `cut` a rewrite of the
file under way.

`Backed`: no pair in the file without its decision.  `Agree`: decision and file agree once
nobody has the pair in hand; the exceptions, which nothing in the code prevents, are
those `excused` names: two who had it in hand at once, a line appended
between another's read and rewrite, a kill between two writes, a pair taken out by hand.
`SeesTheFile`: the scanner has what is in the file or will look again, unless it loaded the file in the tick
of its last write (`scanner.early`).  Then a line may have been added after the load that it sees only when the
file is next written, and "which the scanner picks up within a second" (`discover.py:13`) does not hold of it; without
that exception TLC finds the property violated.  A rewrite between the stat and the load is never missed.

A rewrite is one step of its tmp file and its replacing the other.  The refresh and the dashboard use one tmp name
(`pairs.py:84`); the milliseconds in which both have it open are not modelled.  `Watching` takes every rewrite for seen.

**Finding** (run `pairing_race`, `PersonStands`): a candidate that Jev has in hand, approved by a
person meanwhile, gets Jev's verdict over the person's.

`Discovery`: one venue's markets are listed, shown late, read by the catalog page by page
(`CatalogBegins`, `CatalogPage`, `CatalogEnds`), and by the service from its cursor on (`Poll`, `Match`), which dies
and starts anywhere.  A market may be halted and go on (`inactive`): the service and the catalog pass over it
then.  The service stores a market as of the answer it was in (`polled`), and asks for its event in between.  `NoneBetween`: a market listed before what the service will ask about again
is in the table, in the catalog under way, or one of those named in
`missed`: its event couldn't be read, it was halted or not yet open when it was come to, the catalog failed
before it, or `Older`: the service had the answer, a catalog began and came to the market or did not have it, and only then
did the service store it, as of before the catalog, which deletes it at its end (`catalog.py:123`).  Without `Older`
TLC finds `NoneBetween` violated.

Run `watchlist`: two pairs, two code processes, a person and the dashboard, of whom any two of the first
three decide at once (`MaxBusy`); two markets and three hours, with a lag and an overlap of one and no
margin.  Pairs are alike, and markets
are (`Alike`, the run's symmetry): no property of the run is temporal.

**Proved** (`Watchlist_proofs`), for any pairs, processes and markets:

| theorem | states |
|---|---|
| `EachLineDecided` | `Spec => []Backed` |
| `DecisionsAgree` | `Spec => []Agree` |
| `SeesUnlessLoadedEarly` | `Spec => []SeesTheFile` |
| `PersonOutdoneInHandOnly` | `Spec => PersonStandsAlone` |
| `NoMarketBetween` | `Listed!Spec => []NoneBetween` |
| `WatchlistTypes` | `MCSpec => []TypesOK` |

`Agree` speaks of pairs nobody has in hand.  Its invariant, `RightOnes`, says of each pair that isn't
excused where it can be: in one hand at most (`Sole`); undecided, or decided and about to be appended, or
being taken out (`Fresh`, `Going`); and decision and file agree once none of these (`Same`).  It
also gives what `pairing_race` leaves open: a person's decision is changed only for a
pair that is excused (`PersonStandsAlone`), so the race found there is the only kind there is.
`SeesTheFile` needs `Seen`: while the tick of the last write goes on and the mtime is the one the scanner saw,
the file it holds is one it loaded in that tick.
`Backed` needs `Behind`: what is yet to be appended, or stays in a rewritten file, has its decision.

`NoneBetween` needs, for each of the steps a market takes to the table, that it can't be
behind it without having been taken along: `Covered` and `Covering` for a catalog done and under way,
`Met` and `Asked` for the service's memory and its cursor.  It assumes what the cfg
does with small numbers: an overlap no less than the lag with which a market shows up.

### RateLimiter

`Acquire`, `Wakes` a caller under the lock; `Penalize` an answer that asks for quiet.  `Paced`: calls keep
`Interval`, and after such an answer at most one more goes, the one that already slept.
Run `records`, its third part: 8 ticks, penalties shorter and longer than the interval.

**Proved** (`Records_proofs`), for any interval and any waits asked for (`PaceFits`): `CallsPaced`, `MCSpec =>
Paced`.  The invariant, `TurnHeld`: the next turn is an interval after the last call and no sooner than the quiet
asked for; so is the caller's who sleeps, unless the quiet was asked for since, and then none has slipped through yet.

## 4. The runs

| run | parts | properties |
|---|---|---|
| `trade_orders`, `trade_crash`, `trade_units` | `LiveTrade` | see there |
| `trading` | `Windows`, `Limits`, `BookCheck`, `Pricing` | `TypesOK`, `RecordedOnce`, `WithinTheLimits`, `PricedRight`, `TakenWhenDue`, `Vouched` |
| `money` | `ShardCash`, `ShardPlan`, `PaperAccount`, `Settlement`, `Ledgers` | `TypeOK`, `NeverOverspent`, `RoundServes`, `AccountAgrees`, `NeverOverdrawn`, `PnlAgrees`, `RecordedAsPaid`, `RightUnlessCrossed` |
| `feeds` | `KalshiFeed`, `PMFeed` | `TypesOK`, `InLineUnlessIgnored`, `OneStream`, `Promised` |
| `watchlist` | `Pairing`, `Discovery` | `TypesOK`, `Backed`, `Agree`, `SeesTheFile`, `NoneBetween` |
| `upkeep` | `Watching`, `Results`, `Jobs` | `PairsWatched`, `Judged`, `Alive` |
| `records` | `Journal`, `Retention`, `RateLimiter` | `Exact`, `EachCutLosesOne`, `OldUnlessEmptied`, `PassEnds`, `Paced` |
| `trade_cut` | `LiveTrade` | `CrashMidTradeStops`: violated |
| `payout_passed` | `Settlement` | `PaidIsRecorded`: violated |
| `pairing_race` | `Pairing` | `PersonStands`: violated |

Runs of sums whose components may stop (a last tick, a service told to stop) don't check
for deadlock; `LiveTrade`'s and `feeds` do.

## 5. Not modelled, and why

The text matching over the catalog, the questions put to Jev, SQL, the web pages, reports, the
backtest and the Novig study are data and presentation: little control, nothing
concurrent of their own.  Signing, JSON and logging are left out everywhere.
Dry-run previews send nothing and change no account.  How demand splits the shards'
targets, and how a trader divides its money among picks, only change amounts that are free here.
`PROJECT.json` says for each component what of it is left out.

A statement SQLite refuses is logged and dropped while memory goes on as if it
was written: `Retention` has it, but no property here compares the trader's memory with such a disk.
The live account is marked read before the read; one that fails leaves a resumed trader without the market a
failed trade held, for 30 seconds (see `LiveTrade`).

Only model-checked: liveness under fairness (`TradeEnds`, `PassEnds`, `PairsWatched`, `Judged`, `Alive`), which is
outside the prover's reach.

The library's induction theorems take an operator as a parameter, which the provers installed here can't be given.
Two facts that are usually proved with them come from well-foundedness instead, in `Sums`: that a set of numbers
has a least element, and that every finite set of numbers has what an induction gives it, taking
the set of the counterexamples' sizes.  The latter gives that a sum over a finite set exists, doesn't depend on the
order, and changes with one element as that element does; `PaperAccount`, `Ledgers`, both feeds, `Discovery` and `Pricing`
rest on these.  A third, `Recursion`, that a function defined by recursion on something that falls exists and has its
equation, is what lets the loops of `ShardPlan` and `Pricing` be proved about.

## 6. Running it

    tlc -workers 2 -config LiveTrade.cfg LiveTrade      (a run's module and cfg)
    tlapm LiveTrade_proofs.tla                          (and each other *_proofs.tla)

`PROJECT.json` pairs each run with its module, cfg and properties, each property
with a mutation of the model that breaks it, and each definition with the lines
it stands for.
