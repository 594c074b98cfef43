# Verification of the Polymarket trading engine

TLA+ specifications of the trading engine under `src/polymarket_trading_engine/`: what its
processes, loops and threads may do to the positions, orders, settings, books and schema they
share, and the properties that must hold whatever the order. TLC checks them on small
instances; TLAPS proves the most important ones for every value of the constants.
`PROJECT.json` maps every definition to the source lines it stands for, and lists the runs, a
mutant of the code for each property, the hazards and the theorems.

Paths below are relative to the repository; `run.py` is `apps/daemon/run.py`, and the other
short names are the modules of the engine (`portfolio.py` is `engine/portfolio.py`).

    tlc -workers 2 -config PaperLifecycle_positions.cfg MCPaperLifecycle.tla
    tlapm PaperLifecycleProofs.tla

## 1. The system

### Processes and scheduling

The **daemon** (`run.py`, `Daemon`) is one asyncio loop with these long-lived tasks: the
discovery loop, the market subscriber (one websocket), the BTC stream, the heartbeat, two
freshness loops (market maker, follow makers), the settings reload and the maintenance loop.
**Decisions** ("ticks") are called back from the market stream or from the market-maker
freshness loop, always under one lock (`_decision_lock`). Around them, the **HTTP API** and
the **operator CLI** are processes of their own that meet the daemon only in one SQLite file,
in the JSONL journal and at the venue.

Three facts decide almost every interleaving:

1. Every call of the portfolio engine from the loop is an `await asyncio.to_thread(...)`: the
   loop is free while a worker thread works on the database.
2. A call of the portfolio engine is not one transaction. `partial_close_position` reads the
   open row on one connection and writes on another; so do `close_position` and others.
3. Cancelling a task does not stop the thread it awaits. `_restart_market_subscriber`
   (run.py:813-828) cancels the subscriber whenever the set of markets changes, and with it
   the tick the subscriber is running, at whatever `await` it is at.

### Components

For each: the state it keeps, what changes it, with whom it interacts, what is hard, and what
makes it correct.

**Paper positions of a directional strategy** (run.py:588-744, 1193-1870; portfolio.py). State:
table `positions`; in memory `_position_extras` (ladder and trail state), `_pending_sl_exits`
(a resting stop-loss limit), `_last_close_at` (entry cooldown). Changed by the decision tick
(entry, take-profit ladder, trailing stop, stop-loss limit-out, fixed take-profit, time
exits), by the discovery cycle (close of an orphaned position, pin of a dropped market) and by
the operator's manual close from another process. Hard: all three race on one row; memory is
keyed by market while rows come and go; crash and rehydration. Correct when a market has at
most one open row, no size appears or disappears, each ladder step is taken once, the memory
belongs to the open position, and every position of a resolved market is closed.

**Market-maker quotes** (run.py:746-811, 2000-2588; `market_maker/`). State: `_pending_mm_orders`,
`_mm_quote_accrual`, `_mm_market_ids`, legs in `positions`, `reward_accruals`. Ticks place,
keep, re-quote, fill and sweep; the discovery cycle moves markets in and out of the universe,
drops their quotes and closes legs of resolved markets. Hard: discovery drops quotes at its own
awaits while a tick is in the middle of filling or placing them. Correct when inventory
respects its cap, a quote fills once, a reward is banked once, a leg does not outlive its market.

**Follow-maker orders** (run.py:2590-2898, 3171-3297; `execution/paper_maker.py`). State:
`_pending_makers`, one order per market. The tick fills, expires, keeps, re-quotes and places;
the freshness sweep re-quotes beside it without the decision lock. Correct when an order fills
at most once, is never lost and never rests beside a position, and does not rest forever.

**Kill switch and risk gates** (run.py:3017-3111, 3519-3537; service.py:767-800; risk.py;
portfolio.py:198-332). State: `metrics.safety_stop_reason` and sums over `positions` and
`order_attempts`. The heartbeat polls; a tick refuses to start while the switch is on; entries
check the account. Hard: the account is read piece by piece and before the entry is booked. Correct
when a day's loss and the number of positions stay within limits and the stop ends entries.

**Runtime settings** (config.py:1182-1280; `settings_store.py`; run.py:3323-3462). State: table
`settings_changes`, append-only; in the daemon the cursor `_last_settings_id` and the engines
that hold a settings object. API and CLI append; the daemon polls the highest id, lists the new
rows, reads the effective settings and rebinds the holders one by one. Correct when no row is
passed without an event, the cursor never runs ahead of the settings, and an edit takes effect.
The profile of the market family (`build_risk_profile`) fills in the risk limits nobody set.

**Live execution** (service.py:215-459; execution/engine.py; connectors/polymarket.py:235-343;
portfolio.py:334-545). State: `live_orders` and the venue. Commands post, record, refresh and
prune in separate processes. Hard: venue and table are updated in two steps. Correct when the
table never ends an order that rests and every recorded order is followed to its end.

**Market books** (market_state.py; connectors/polymarket_ws.py; run.py:830-855). State: the YES
and NO `TokenBook` of a market. Snapshots replace, changes update, a broken stream starts
over. Correct when a book differs from the venue's by the messages under way only.

**Execution router and book walk** (router.py, engine.py:178-275, book_utils.py, quoter.py,
paper_maker.py). No state: entry and exit fills, followed limits, quote pairs, routed prices.
Correct when fills are the best the book gives and resting orders rest.

**Schema migrations** (migrations.py, `migrations/`). State: table `migrations`, the schema, and
the legacy file `runtime_settings.json`. Every process migrates when it boots. Correct when no
process comes up on half a schema and the seed is applied once.

**Event journal** (journal.py; run.py:3464-3517). State: `events.jsonl`, the copy of its tail a prune
writes beside it, and one write counter per process. Threads of the daemon, the API and the commands
append; a prune reads the tail, writes it beside and renames it over. Hard: nothing locks
either file. Correct when a line that was appended outside of a prune stays while the file is small.

**Market and BTC features** (btc_state.py, market_state.py, run.py:857-889). State: samples, minute
bars, mids. A REST price seeds them, the bars of the last day follow, then the stream, out of order
and broken at times. Correct when a return is measured from where its window starts.

**Scorers, research and decisions** (quant_scoring.py, adaptive_scoring.py, overreaction_scoring.py,
penny_scoring.py, scoring.py, regime.py, research.py, risk.py:31-326, run.py:1193-1290,
service.py:121-213). State: what a tick took at its start, used across its awaits. Hard: five
scorers judge one packet whose NO side is partly read and partly derived; the risk engine prices the
order again from another book. Correct when costs only take trades away, neither side is favoured,
and an approved edge is there at the price the order is sent with.

**Streams and connectors** (sockets and REST clients: modelled as far as a message can be lost or
late), **heartbeat file** (heartbeat.py: write and rename), **CLI/API** (front ends of the service:
what they change is in the models of what they change), **dashboard and scripts** (read-only).

## 2. Modules

| Module | Stands for | Theorems |
| --- | --- | --- |
| `PaperLifecycle` | a directional strategy's tick, the discovery cycle, operator, cancel, crash | `PaperLifecycleProofs` |
| `PositionBook` | abstract: what the positions table promises its readers | refined by `PaperLifecycle` |
| `MarketMaker` | quotes, legs, universe and rewards | `MarketMakerProofs` |
| `FollowMaker` | the resting order of a follow strategy, the freshness sweep | `FollowMakerProofs` |
| `KillSwitch` | kill switch, account checks of every kind of entry | `KillSwitchProofs` |
| `SettingsReload` | settings log, writers, start and reload of the daemon | `SettingsReloadProofs` |
| `LiveOrders` | live commands, venue, order table | `LiveOrdersProofs` |
| `MarketBook` | stream, books, and the prices made of them | `SignalsProofs` |
| `Migrations` | concurrent boots on one database | `StorageProofs` |
| `Journal` | appends and prunes of the event file by threads of several processes | `StorageProofs` |
| `RiskProfiles` | defaults, environment, settings rows and the family's profile | |
| `Feeds` | samples, minute bars and mids, their seed, backfill and stream | `SignalsProofs` |
| `Scorers` | the scorers as functions of a packet and the settings | `SignalsProofs` |
| `Decisions` | packets, the risk engine, a tick's strategies, an operator's command | `SignalsProofs` |

`MC<Module>` gives TLC the constants that a configuration cannot express (a ladder, a set of
skews, a symmetry). Three of them check components that share no variable in one run: a variable
`part`, chosen at the start, says which component moves while the others wait, so the states
of a run are the sum of theirs and not the product. `MCMakers` does so for the follow orders and
the market maker's legs, `MCStorage` for the schema and the journal, `MCSignals` for the books, the
price histories and the decisions.

The components meet as follows: `PaperLifecycle` manages the positions a
`FollowMaker` fill creates (`FollowMaker` keeps their number only, `PaperLifecycle` has
`TickMakerFill`); `KillSwitch` sees all kinds of entries as bookings of one stake; `MarketBook`
prices what the lifecycle modules treat as a level or a verdict; `Feeds` and `MarketBook` are what
`Decisions` reads as one sample; the approval of `Decisions` is the `TickApprove` of `PaperLifecycle`
and the verdict "maker" the order of `FollowMaker`; `Migrations` ends where `SettingsReload` begins,
with a seeded log, and `RiskProfiles` says what the settings of a version mean to the risk engine.

### PaperLifecycle and PositionBook

`rows` is the table, a row with its remaining size, what was split off and how often, and the
events that told of its close. `op[t]` is the portfolio call the worker thread `t` is executing
and whether it has read yet: a call is two steps, `ReadOpenRow` and one of `ClosePosition`,
`PartialClosePosition`, `RecordExecution`, so everything of fact 2 above can come between.
`tick` is the program counter of the pipeline (`_paper_execute_for_strategy`), one value for
each stretch between two awaits; `disc` is the discovery cycle, which walks the open rows and
passes, pins or closes each. `extras`, `stopRest`, `cooling` are the three dictionaries.

`TickManage` has one action per branch of the exit ladder, in the code's order: the ladder, the trail, the
resting stop (wait or post), then take-profit, stop and time exits, or hold. The price is drawn per tick from
`Prices`; the time to expiry is the one of the tick's start (`tick.far`, run.py:1268), also where the market
runs out before the tick's next step. `CancelTick` drops the tick and hands the call it awaited to a detached
thread; `Crash` empties the memory and keeps the table. The penny strategy (run.py:1872-1998) is the same
pipeline with fewer exits and has no module of its own.

`recent` and `abandoned` are history variables: markets the daemon closed less than a cooldown ago,
and markets on which a cancelled tick left a call behind. On an abandoned market a second row can
indeed be opened (section 6), so the properties about rows are stated for the others, and
`BookRefined`, which holds in all cases, is stated without that condition.

`PositionBook` says that rows are appended in order, that an open row is resized or closed together
with all that is open on its market, and that a closed row is final.

### MarketMaker

A quote has an id, which becomes the order id of its leg; `quotes`, `earning`, `rows`, `bank` are the
dictionaries and the two tables. `tick.loop` says which of the three passes of
`_handle_market_maker_strategy` (fill, place, sweep) runs and for which side. Prices and the
scorer are abstracted to the verdicts they lead to (crossed, drifted, halted, in the exit window).
The discovery cycle drops quotes, banks their rewards and closes legs of resolved markets. `stray`
are inserts left behind by cancelled ticks. History: `earned`, `cut` (quotes whose fill or reward
write a cancel or a crash cut short).

### FollowMaker

`slot` is `_pending_makers`, an order is its number. `tick` goes through read, manage or route, fill, gates and
put, or, where the scorer does not follow, through the approval and the insert of a taker entry (`TickApprove`,
`TickEnter`). Fills and taker entries are inserted in a thread: a cancel leaves the insert in `stray`, from
where it lands later. `blocked` are the markets whose events lead to no decision (kill switch, empty book).
`sweep` is `_refresh_pending_makers`, which takes an order out of its slot, loses the loop at the journal call
and puts a new one. `gone` collects the orders that left by a cancellation or because a position superseded
them. History: `swept`, and `cut`, the entries a cancel cut short, each with its market and its order (0 for a
taker entry).

### KillSwitch

Positions are worth one stake; a close wins or loses one. `closes` is ordered by the stamp of the rows, newest
first, because `get_consecutive_losses` orders by it and an orphan close is stamped in the past. A tick starts
only while the switch is off and runs through the strategies; a taker's open positions are counted in one step
(`TickCount`), the rest of its account is read and the entry decided in a second (`TickDecide`), and it is
booked in a third. The operator's desk decides on totals, which it reads at once, and books on the default
strategy. History: `late`, the entries of a strategy since the switch went on, and `extra`, which counts the
entries booked by the desk and by cancelled ticks, which no limit sees in time; the bounds are stated plus
these.

### SettingsReload

A holder of settings is known by the version it has: the length of the log it was built from.
A write is four accesses (highest id, effective settings, insert, the look at what was inserted); a
reload is three reads, an event, and one assignment for each holder of `_apply_settings`, in its
order. A read may fail, which the code turns into "no overrides" (version 0). The write of the event may
fail too, which the code logs before it goes on (run.py:3384-3387). History: `reported`, the rows that
were there at the start or are named in an event, and `unlogged`, those whose event was lost.

### LiveOrders

A trading command is preflight, post, record; a refreshing command lists rows and walks them, asks the
venue and writes back. The venue settles orders at any time, answers late, blank or not at all. A
post may be unseen by its command, or the command may die before it records; these orders are
`untracked`. `Local` is the id the engine makes up for an order the venue refused. `due` is what a pass
has to catch up with: the listed orders that were over when it began, less those it got no answer for
and those to which another pass writes an answer that is older than the one it wrote itself (`Undone`).

### MarketBook

`venue` is the YES book of the venue, whose NO book is its mirror; `wire` the messages under way; `books` the
two books of the daemon. A subscription gets its changes in one of two shapes (`shape`): a message per token
that names it at the top, or one for both whose changes name it inside, which the daemon drops. `begun`
(history) is the venue's book when the subscription began. Levels are ticks, sizes shares. The prices are
operators on `books`: `EntryFill` and `ExitFill` (the walks), `FollowLimit`, `QuotePair` (in fractions of a
tick, with the code's clamps), `RoutedPrice`. They are checked in every reachable state of the books, also those
between the YES and the NO half of one move. Constant slippage and `should_replace` (which has no caller) are
left out.

### Migrations

A boot reads which migrations are marked applied and runs the others, one transaction each:
`Begin`, `Look` (its first read fixes the snapshot), `Write`, `Commit`, or `Conflict`/`Raise`,
`Rollback`, `Fail`. SQLite in WAL mode is external: one writer, and a first write is refused when
somebody committed since the snapshot. `legacy` is the old settings file, which is not part of any
transaction. History: `torn`, a transaction that had unlinked the file did not commit.

### Journal

A file is a number with its contents; `events` and `beside` are the two names. A writer that opened a file goes
on with it when the name is given to another (`Open`, `WriteLine`); a prune is `Stat`, `ReadTail`, `OpenBeside`
(which empties what is there), `Fill`, `Rename`, and may die or fail between any two. A line is one unit.
History: the lines in their order, those appended during a prune (`exposed`), and whether a prune read, or left
behind, a file another one had emptied, or wrote a shorter tail over the start of a longer one (`spoiled`).

### RiskProfiles

`held` is a settings object: its values and the set of explicitly given fields, which is what
`build_risk_profile` asks for. Edits come to the environment file and to the table; the daemon
refreshes, a command builds its settings without the rows.

### Feeds

A price is the moment it is of. `stage` is the start of the BTC loop: seed, the two halves of the
backfill, connect, stream. A return is the pair of moments it is taken between;
`SampleReference`, `BarReference` and `MidReference` are the lookups of the code. History: `heard`.

### Scorers and Decisions

All numbers are integers: prices, edges and log-returns in 1/`One` of a dollar, the normal distribution
as a table of whole deviations that is symmetric, square roots of time as a table. Quotients round to
zero. What rounding does to the sixth decimal of an edge is not modelled; every comparison, gate and
order of precedence of the code is. A packet is what `build_from_features` makes of the features, or
`build_evidence_packet` of one answer of the venue. `tick` keeps the packet, the shared verdict of the
fair-value scorer and its shadow across the strategies of a tick, as `_process_market_tick` does; the
clock, the account and the universe are read when a strategy's turn comes.

## 3. Runs

Each property has a mutant in `PROJECT.json`: a plausible bug put into one mapped definition, under
which the same configuration finds the property violated. Deadlock is looked for except where a
system may really stop (all writers done, stream quiet, all processes up).

| Run | Properties | What it shows |
| --- | --- | --- |
| `positions` | `OneOpenPosition` `LadderStateFresh` `StopSizedToPosition` `EntryRespectsCooldown` | tick, discovery and operator interleaved at every portfolio call, one position after another |
| `book` | `OpenRowConserved` `TrancheAtMostOnce` `BookRefined` `ExpiredPositionCloses` `DroppedPositionReturns` | with cancelled ticks, their detached threads, the operator and a crash the table still implements `PositionBook`; positions come to an end or back under management |
| `split_race` | `SplitConserves`, violated | a manual close between the two halves of a partial close |
| `quotes` | `InventoryBounded` `FilledOnce` `RewardBankedOnce` | ticks of both callers beside the discovery cycle, cancelled anywhere, a crash |
| `makers` | `NoOrderBesidePosition` `NoOrderLost` `OneFillOnePosition` `OrderEnds` `ResolvedLegCloses` | the follow order and taker entries under tick, sweep, cancel and crash; a leg of a resolved market is closed, also after a crash |
| `settings_changes` | `EveryRowReported` `SettingsKeepUp` `EditTakesEffect` `TypeOK` | writer, reload, failing reads, a lost event and a stop |
| `kill_limits` | `DailyLossBounded` `ConcurrencyBounded` `StopEndsEntries` | all kinds of entries, closes, pruning, midnight, restart |
| `live_orders` | `TableIsTrue` `RestingIsTracked` `RefreshCatchesUp` | one trading and two refreshing commands, pruning, a venue that answers late |
| `books` | `BooksLagOnlyByTheWire` `FillsAreBest` `NoFreeMoney` `QuotesRest` `ReturnsStartRight` `CostsOnlyRemove` `VerdictsMirror` `ApprovedEdgeIsReal` | every book of three levels, a move, two breaks; samples, bars and mids through seed, backfill and stream; every decision of every strategy and of a command |
| `no_frame` | `TakerCrossesBestLevel`, violated | a routed NO entry priced in the YES frame |
| `boots` | `UpMeansMigrated` `SeededOnce` `OverridesKept` `FailuresHeal` `LinesKept` | two processes, two boots each, two faults; three threads of two processes on the journal |
| `family_profile` | `FamilyApplies`, violated | the profile of a market family once the settings table has a row |

`settings_changes` also checks `TypeOK`, the conclusion of a theorem; in the other modules `TypeOK` documents
the shapes of the variables and no configuration spends a run on it. `book` and `makers` share modules with
`positions` and `quotes` and exist for their liveness properties.

**Bounds and why they are enough.**

- `positions`: one market, two rows, one manual close, no crash and no detached thread. All interference is on
  one market: markets share nothing but the one tick and the one discovery cycle, and the proofs of section 4
  hold for any set of them, with crashes. Two rows let a second position follow the first, which is where stale
  memory bites. The ladder takes half of the entry and then a quarter and leaves a runner; prices are 0 (no
  bids), 1 (the stop) and 5 (above both steps); a stop limit waits two ticks, a trail is confirmed by two.
- `book`: one row, one crash, one manual close, one detached thread. A late insert, a late close and a late
  partial close are reached, and the ladder state is rebuilt from the table after the crash. The ladder has one
  step above the fixed take-profit, so that all of the exits occur.
- `split_race` needs one row, a partial close and a manual close.
- `quotes`: two quotes, so that a re-quote or the other side meets the first; `Size` 2 against `Cap` 2 puts the
  first fill at the cap. A crash or a second quote, not both (`MaxEvents`): after a crash nothing but the rows
  is left, and the quote placed next is as the first one.
- `makers`: two follow orders and at most two fills begun for each, one crash; the sweep's replacement is the
  second order. Of the inserts that cancels leave running for one entry, one at a time is counted. For the legs
  one quote and one crash.
- `settings_changes`: two fields, two values, three rows, one start and one lost event. A row before the start,
  one before and one after a reload's first read suffice for each hazard of the cursor; a second start would
  find what the first finds, as what the process holds goes with it (`Stop`), on a log with rows, which the
  first may have too.
- `kill_limits`: one strategy of each kind, all limits 1, bankroll 3, two closed rows kept, one extra
  entry. With limits of 1, one entry over the limit is one step away everywhere.
- `live_orders`: two posts, two watchers (answers of one pass overtake those of another), limit 2.
  The watchers are interchangeable, hence the symmetry; none of the properties is a liveness property.
- `books`: prices of 1.00 in four ticks, sizes up to two shares, two breaks, and any one move between two books,
  in both shapes of the changes. Levels of one share are too small to count for a followed order. Skews from -2
  to 2 half spreads pass the cap on both sides; targets of one and three shares need one level, several, or more
  than the book has. The histories have six moments of which two make a minute, three ticks up to one moment
  late, two samples, three bars and two mids kept: samples are thinned and dropped, mids leave for their age and
  for want of room, a minute is backfilled in full and in part. The decisions have four settings (the baseline;
  the gates with a fee and a ceiling; the inversions with the price and candle windows; the maker routes with
  the language model), six books (empty, balanced, a tail, its move, a rich one, one without asks), three moves
  of BTC, three accounts and three replies of the model: each gate blocks somewhere and passes somewhere else.
  The theorems of section 4 do not depend on any of these values.
- `boots`: two processes that boot twice and two faults (an upgrade that raises, a death), so that a failure can
  be followed by a failure of its retry. The journal holds two lines, a tail keeps two, a prune is due every two
  lines, and it takes six; one maintenance pass keeps all, one prune may die: two prunes of one process, and of
  two, overlap. With tails of one line the prunes that mix their tails lose nothing more: it takes tails of two
  and six lines to see it.
- `family_profile`: every field with its default and another value, two edits.

**Fairness.** Only what the scheduling gives:

- worker threads finish a call they began, and the asyncio loop resumes what it can (`WF` of
  `ThreadStep`, `DiscStep`, `TickStep`, `SweepStep`, `Reload`, `Booting(p)`): no code waits for
  anything but these;
- the loops that run for as long as the daemon does start again (`WF` of `DiscStart` and of
  `SweepStep`; settings poll);
- a REST fetch or a database read that is tried again every cycle succeeds in the end (`SF` of
  `DiscPin`, `DiscOrphan`, `ReloadList`), the assumption the retry in the code makes too;
- `FollowMaker`: events keep coming and one of them finds the lock free (`WF` of a tick starting on some
  market), and time passes (`WF` of `Age`). Nothing decides which market's: the interval between decisions is
  one for all, the switch may be on, and an event that finds the lock taken is dropped (run.py:889-915).
  `OrderEnds` therefore says what the code guarantees: while a market is the only active one and its events lead
  to decisions. Among several one may take every tick, and without ticks an order rests for as long as it likes,
  for its time to live is only looked at by one.

There is no fairness on exits, decisions, prices, operators, crashes or cancellations.

## 4. Proofs

The theorems hold for every value of the constants that satisfies the named assumptions (`ASSUME`)
of the modules: distinct threads, a ladder of naturals, `Size` positive, finite sets where a cardinality is
taken. Bounds stay in the guards as arbitrary naturals.

| Theorem | Statement |
| --- | --- |
| `PaperLifecycleProofs!TypeCorrect` | `Spec => []TypeOK` |
| `PaperLifecycleProofs!AtMostOneOpen` | `Spec => []OneOpenPosition` |
| `PaperLifecycleProofs!LadderStateIsOwn` | `Spec => []LadderStateFresh` |
| `PaperLifecycleProofs!StopLimitFits` | `Spec => []StopSizedToPosition` |
| `PaperLifecycleProofs!BookImplemented` | `Spec => BookRefined` |
| `PaperLifecycleProofs!StepsTakenOnce`, `SizesAddUp` | `Spec => []TrancheAtMostOnce`, `[]OpenRowConserved` |
| `PaperLifecycleProofs!CooldownHolds` | `RunnerLeft(taken)` implies `Spec => EntryRespectsCooldown` |
| `MarketMakerProofs!TypeCorrect` | `Spec => []TypeOK` |
| `MarketMakerProofs!OneQuoteOneLeg`, `OneQuoteOneReward` | `Spec => []FilledOnce`, `[]RewardBankedOnce` |
| `MarketMakerProofs!CapHolds` | `Spec => []InventoryBounded` |
| `SettingsReloadProofs!TypeCorrect`, `EveryRowIsReported`, `SettingsAreKept` | types, `[]EveryRowReported`, `SettingsKeepUp` |
| `KillSwitchProofs!TypeCorrect`, `DailyLossIsBounded` | types, `[]DailyLossBounded` |
| `KillSwitchProofs!ConcurrencyIsBounded`, `EntriesStop` | `[]ConcurrencyBounded`, `[]StopEndsEntries` |
| `FollowMakerProofs!TypeCorrect`, `EachOrderFillsOnce` | types, `[]OneFillOnePosition` |
| `FollowMakerProofs!PositionsSupersedeOrders`, `OrdersAreNotLost` | `[]NoOrderBesidePosition`, `[]NoOrderLost` |
| `LiveOrdersProofs!TypeCorrect`, `OverIsOver` | `Spec => []TypeOK`, `[]TableIsTrue` |
| `LiveOrdersProofs!RestingOrdersAreKnown`, `RefreshesCatchUp` | `Spec => []RestingIsTracked`, `RefreshCatchesUp` |
| `StorageProofs!UpIsMigrated`, `SeedsOnce`, `OverridesAreKept` | `Spec => []UpMeansMigrated`, `[]SeededOnce`, `[]OverridesKept` |
| `StorageProofs!LinesStay` | `JournalSpec => []LinesKept` |
| `SignalsProofs!ApprovalsAreReal` | `DecisionSpec => []ApprovedEdgeIsReal` |
| `SignalsProofs!FeesOnlyRemove`, `NoSideFavoured` | `[]CostsOnlyRemove`, `[]VerdictsMirror` |
| `SignalsProofs!BooksLag`, `OrdersRest` | `Spec => []BooksLagOnlyByTheWire`, `[]QuotesRest` |
| `SignalsProofs!MoneyIsNotFree`, `FillsBest` | `Spec => []NoFreeMoney`, `[]FillsAreBest` |
| `SignalsProofs!ReturnsRight` | `FeedSpec => []ReturnsStartRight` |

**PaperLifecycle.** `TypeOK` is not inductive: a tick may only be at "manage" with a row that exists, a
call may only have read a row that exists. `Typed` adds these (`RowsNamed`, `CallsNamed`, `TickNamed`,
`DiscNamed`). For the safety theorems the inductive invariant is `Owned`: on a market that no
cancelled tick abandoned, only the current tick inserts and splits (`OnlyTickInserts`); from its
look at the table to its insert nobody else opens a row, and when it manages a row the row still
has the size it read or is closed (`TickLooked`); the stop limit has the right size except between a
tranche and its bookkeeping (`StopSized`). The argument is that the discovery cycle and
the operator can only close, so what the tick read can only become closed, never different.
The proof has a step per action and under it one per conjunct it can disturb.

**The ladder.** The steps taken are counted twice, in the table (one row per tranche) and in the ladder state in
memory, and `TrancheAtMostOnce` and `OpenRowConserved` hold because the two counts agree when it matters.
`Laddered` says so: in the table the steps are the first ones and the parts add up (`Counted`); the two counts
differ only between the split of the row and the step of the tick that awaits it (`LadderKnown`); a split under
way is of the step after the last one in the table, and what it has read of the row still holds (`SplitSound`);
what a tick awaits in a tranche is a call on its own market (`TrancheCall`). A crash forgets the memory and not
the table, and the rehydration counts the rows; a manual close can only turn the split into none. It rests on
`TrancheAssumption`: no step of the ladder is for nothing, as `_parse_tp_ladder` keeps positive fractions only
(run.py:976-999). A step for nothing would leave no row to count after a crash, and be taken again; TLC finds
that behaviour when the assumption is dropped.

**The cooldown.** A close starts the cooldown in its caller, one step after the row is closed, and a tranche
starts none. So `EntryRespectsCooldown` holds only if a tranche never closes: `RunnerLeft` says so of the
ladder, as running totals (`taken`, given from outside because a sum over the ladder would be an induction over
data) that stay below the size. The default 0.20:0.25,0.40:0.25,0.60:0.25 takes three quarters; 0, 2 and 3 of 4
are the totals of the run's ladder. A ladder that takes everything ends in a close by a split, and no cooldown.
The invariant is `Cooling`: what was split off a position is the total of its steps (`SplitAdds`), and the split
under way takes the next one's part of what is left (`SplitFits`), which is therefore less than what is left;
the tick closes where it starts the cooldown next (`TickCloses`), or there is nothing left to close; the
discovery cycle closes on markets that have run out (`DiscCloses`); and a market with a recent close is cooling,
or about to be (`Cooled`). Between a close of the discovery cycle and its cooldown a tick that began before the
market ran out may still approve an entry, as it goes by the time to expiry of its start: the property excepts
that moment.

**Refinement.** `BookImplemented` maps the rows to `PositionBook`'s and needs `TailAbsent` (rows not yet
inserted are absent). Only `ClosePosition`, `PartialClosePosition` and `RecordExecution` touch the mapped
state (`TableSteps`); each is `CloseAll`, `Resize` or `Append`, or a stutter when the row it read was
closed meanwhile. It covers cancelled ticks.

**MarketMaker.** Only ticks place and fill, one at a time, and the discovery cycle can only take away: what a
tick knew of a quote before an `await` can have ceased to be, never become another. `Keyed` says that an id
rests where it was placed and nowhere else; `TickSound` and `DiscSound` what the two actors hold across their
awaits. `Unfilled`: what rests or is being filled has no leg. `Banked` counts the places a reward can be in (the
buffer, in the hands of the tick, of the cycle, the table): one from the first accrual on, none before. `Roomy`
strengthens the cap: wherever a quote rests, is being filled or may still be placed in this pass, the side is
below the cap, so the fill that passes it is the last one and passes it by less than its size. The only fill
this does not cover is one that a cancel or a crash cut short (`cut`).

**LiveOrders.** `Known`: the venue has the orders that were posted, and no others. `Carried`: an order between
its post and its record is known to its command alone, and what the post said of it is still true if it said it
is over. `Heard`: rows a refresh has listed and its answer were true once; an order that is over stays over, so
what ended it is not outdated by anything. `Catching` is about overlapping refreshes: an order a pass is to
catch up with is still to be asked for by that pass, or its answer is at hand and says that it is over, or the
table says so or has lost the row. An answer of another pass that is older can be written over it, and then the
order is not one the pass catches up with (`Undone`): the invariant holds because in every other case the write
comes before this pass's own, or says itself that the order is over (`Written`). `RefreshesCatchUp` is an action
property and follows from it at the step that ends a pass.

**Migrations.** The guard of an upgrade is read in the snapshot of its transaction. `GuardFresh`: it is true of
the database as it is now, or somebody committed since, in which case the first write is refused. With
`MarksReal` (what is marked applied, and what a boot passes over, is in effect) a boot that has nothing left has
everything in effect; `SeedCounted` ties the number of seeds to the effects, so that a second one would have to
get past a guard that is false.

**Journal.** What the journal owes its readers is `Owed`: the last lines that no prune was under way for. A
prune that has read them holds them (`TailsWhole`); the journal has them, or a prune has emptied it and is about
to write them (`Covered`), and the same is true of the file beside it while somebody may rename that
(`BesideCovered`). A line written while nobody prunes goes to the journal and to no file that was renamed away
(`WritersKnow`), and one written meanwhile is not owed. That a tail of `Kept` lines has the last `Kept` is not a
matter of course once tails are written over each other: it needs that between two lines of a file at least as
many were appended as lie between them in it (`Rising`), which a shorter tail over a longer one breaks
(`FillRises` says when). The attempt to prove the property without this exception showed that it does not hold:
with tails of two lines TLC finds two prunes that mix theirs in one file and a third that then loses lines
appended before it began.

**SettingsReload.** `Reports` says that the reload at "apply" has named the rows up to its maximum, or lost the
event that names them; `Kept` that the version it carries is at least that maximum, or a failed read. Both rest
on the log only growing, and on the maximum being read first: rows that arrive later can only make the other
reads newer. `Latest` uses a `CHOOSE`; that it is well defined is proved from the well-foundedness of finite
sets.

**FollowMaker.** The invariant is `IInv`. `SlotsApart`: an order rests on one market at most and was placed.
What is left running in a thread is of an entry that was cut short. `EntersOnce`: on a market with no such
entry, a tick that may still enter is right that there is no position. `FillsOnce`: of an order with no such
entry, what was filled rests no more, except while the tick that filled it goes on. Both hold with the sweep
running: it may take the order a tick is filling, or put another in its place, but the one it puts is new.
`Alone`: until the sweep's first run, the slot a tick emptied is empty when it puts an order there, which is
what `NoOrderLost` needs and what a sweep breaks.

**KillSwitch.** `Room`: for every taker, the day's profit less the open stakes leaves room for the entry it may
still book, and for every taker and penny strategy the open positions and that entry respect the limit, up to
`extra`. A taker is let through only while its loss is above the limit and a slot is free, one entry at a time,
and a close turns a stake already counted as lost into at most that loss. `Counts`: a taker whose tick has
counted its positions and not yet decided holds at most that count and what `extra` has since added, as only the
desk and inserts left behind open a position for it in between. `Spent`: a strategy that entered since the
switch went on is done with the tick the switch found, and no tick begins.

**Books.** `OnCourse`: while subscribed every book of the daemon has a `Course`, the books the messages under
way make of it one after the other, which ends at what it is told of the venue's and is crossed nowhere; without
a subscription nothing is under way. A move appends messages and their books (`CourseExtends`; one that names no
token leaves the book, `UnnamedStays`), a delivery takes the first of each, a break takes all. The property
speaks of a replay, a recursive function chosen by `CHOOSE`; `OneCourse` shows that it is the course, as there
is no first place where the two differ. That a set of naturals has a least element (`LeastExists`) is proved
from the well-foundedness of finite sets under inclusion, and stands in for induction wherever one is wanted.
Sums over prices are treated in the same way: a fact that holds for a set of prices whenever it holds for its
strict subsets holds for all (`AllSubsets`), and so a sum is linear, monotonic and additive over disjoint parts
(`Total...`), in whatever order the fold takes the prices. `FillsBest`: the walk takes from a price what the
better ones have left of the target, so there is a price at which it ends (`WalkEnds`); every share it takes is
at least as good as that and every share it leaves at most as good, so that another fill of as many shares
cannot cost less (`NoneBetter`). `MoneyIsNotFree` compares both walks with one price between the bids and the
asks of a book that is not crossed (`Between`). `OrdersRest` is arithmetic on the best levels and on those that
count, with a quote kept inside the spread whatever the skew is.

**Feeds.** The inductive invariant is `FeedsSound`. Samples lie apart, and what came in order is close behind
one of them (`SamplesApart`); a minute that was heard and is over has a bar, and no bar behind that is older,
unless both lie in the seam between the first bar and the fetch, which has no gaps (`BarsSewn`); mids in the
window are kept or there is no room for them (`MidsHeld`). A bounded history is the end of what was put in it
(`NewestIs`), and what drops out in front supports nothing that stays. Late ticks matter for the bars only: one
of an earlier minute changes nothing, as `_advance_minute_bar` returns, and one that reopened it would break
`BarsSewn` at once.

**Scorers and Decisions.** The first part is about the scorers as functions: the fair value is a probability for
any drift, clock and book (`FairValueInt`); the edge of a verdict is what its side is worth less the ask and the
costs (`VerdictEdge`); a fee lowers both edges by the same amount, so that the better side stays the better one
and a gate that stops an edge stops a smaller one (`GatesOfCostlier`, `CostlierVerdict`); and drift, tilt,
edges, gates and each scorer turn over when YES and NO change places (`QuantMirrors`, `AdaptiveMirrors`,
`OverreactionMirrors`, `PennyMirrors`), for which quotients must round to zero and the normal table be
symmetric. The second part carries this to every state: the inductive invariant `Inv` says that what was sampled
is readable by the scorers (`Sampled`), that the running tick has scored the books that are still there
(`Ticking`: books move between ticks only), and `ApprovedEdgeIsReal` itself, because a decision outlives the
tick it was made in. The heart is `LimitWithinAsk`: the limit the risk engine makes of the YES book is at most
the ask the scorer reckoned with, for NO as long as the NO book has no ask or none below what the YES bid gives.
A NO book behind its YES book may have one, and then the approved edge need not be there. The assumptions are
those of the venue: prices a cent away from 0 and 1, a bid and an ask on YES.

**Model-checked only.** All liveness properties (`ExpiredPositionCloses`, `DroppedPositionReturns`, `OrderEnds`,
`ResolvedLegCloses`, `EditTakesEffect`, `FailuresHeal`): liveness under fairness and `ENABLED` are out of the
provers' reach. Every safety invariant of a passing run, and every action property, is
the subject of a theorem.

## 5. Abstractions common to the modules

- One market has one price scale, in levels relative to the entry; in the lifecycle modules scorers and research
  may give any verdict at any time, so every approval, skip and side is a nondeterministic choice. Which
  verdicts they give is the subject of `Scorers` and `Decisions`, which in turn have no positions: whether a
  strategy holds one is a choice.
- Floating point is integer arithmetic in `Scorers`, `Decisions` and `MarketBook`; `Decisions` takes book, tape
  and BTC as they are between two ticks, since a tick reads them once.
- Times are ages: an order or a quote is young or past its time to live, a market is far, near or past its
  expiry, a close is within its cooldown or not; ageing is an action.
- Journal events appear where a property is about them (`position_closed`, `settings_changed`, the
  cancellation of an order); their wording, metrics and logs do not. The journal call itself always
  appears as a point where the loop is lost.
- A snapshot for entries keeps the ten best levels of a side (run.py:1653-1654); the grids of the runs have
  fewer. The theorems about walks are about a whole side.
- The account of a taker is read in two steps, its open positions first (portfolio.py:204); the three sums after
  them, and all of the account of the operator's desk, are read in one.
- The database is per table; a read and a write on separate connections are separate steps, and what the
  code does in one transaction is one step, except in `Migrations`, whose subject is the transaction.
- The venue, the worker threads and SQLite's locking are modelled from how the code uses them and marked
  external in `PROJECT.json`.

## 6. Where code and documentation or intention part

Three disagreements are runs of their own that TLC finds violated:

- `split_race`: `partial_close_position` (portfolio.py:827) promises to split the open row (:816). When a
  close commits between its read and its write, the `UPDATE` reaches no row, the tranche row is inserted
  all the same, and more is closed than was opened.
- `no_frame`: the router prices an entry into NO from the YES book (router.py:142), overwriting the risk
  engine's `1 - bid`; README.md:384 says it crosses the best opposite level. The same frame
  is used by the operator's paper share count, by the live `BUY` of NO posted at the YES ask, by the maker
  price for NO, which joins the YES bid, and by `build_close_decision` (risk.py:84-87), which closes NO at
  the YES ask; `tests/test_close_flow.py:80` asserts that last one.
- `family_profile`: the profile of a market family is to fill in what the operator did not set, and the operator
  sets fields in the table. Once the table has any row, which the seed sees to, the effective settings are built
  from all values of the old ones (config.py:1232): every field counts as set and no profile ever applies. A
  table that cannot be read brings it back. Commands build their settings without the rows (cli.py:24), so an
  operator's order passes other gates than the daemon's, contrary to service.py:36-42.

The following are part of the models, as what the code does; the properties are stated so as to say what does
hold, with the case named in their comment or by a history variable.

*Positions.* A ladder whose fractions add up to 1 closes the position through the partial-close path, with
neither cooldown nor `position_closed` event (run.py:1337 against README.md:252 and 255); the runs use a ladder
that leaves a runner. An insert left behind by a cancelled tick lands after the next tick has looked at the
table and opens a second row on the market (run.py:1642); nothing but the look guards against it. A tick goes by
the time to expiry of its start (run.py:1268): when the market runs out while it waits for the table, it may
still approve an entry, at the moment the discovery cycle closes the position and before it starts the cooldown.
`close_position` closes every open row of the market and computes the profit from one of them
(portfolio.py:723-750).

*Market maker.* A tick may place a quote while the universe exit is dropping the quotes of its market
(run.py:735 against :690); the quote then rests where no loop visits until its market is scanned again. A cancel
between a fill's insert and the removal of the quote fills it again (run.py:2294), which may pass the cap.
Routing reads the universe at the tick (run.py:652), so a market outside of it with legs still open is routed to
the directional strategies.

*Follow maker.* A taker entry whose tick is cancelled at its insert (run.py:1642) lands later, beside an order
the next tick placed or a position it opened. The sweep takes an order out of its slot and puts another after an
`await` (run.py:3280): a position that a tick opens in between leaves an order beside it, and an order placed in
between is overwritten. Both thresholds of the sweep are 0 by default, which switches it off. With
`paper_follow_min_level_size_shares` above 0 (the seed has 10, initial_settings.py:77; config.py has 0) the
limit comes from filtered quotes and the fill is checked against the raw ask (run.py:2650-2655,
paper_maker.py:67), so a small ask fills the order the moment it rests; `QuotesRest` says that no level large
enough to count does.

*Kill switch.* Config.py:99-101 says that after too many losses the daemon halts "until an operator reviews". It
does not: the heartbeat sets the switch to the reason it finds (run.py:3519-3537), so a close by the discovery
cycle that wins, a pruned row or a changed setting ends the stop with nobody looking. The model does the same
(`Heartbeat`), and no property asks for more or less; `StopEndsEntries` is about the time in between, when no
decision begins and only the tick the switch found under way may enter once for each strategy still to come.
There is no daemon-wide stop on the daily loss (service.py:784), which README.md:350 lists. While it is on, no
callback runs and so neither does any exit (run.py:896); only discovery closes positions. A follow maker's
entries look at neither limit (run.py:2673). Pruning removes rows whose realised profit the bankroll is computed
from (portfolio.py:126).

*Settings.* A row may be passed without an event when the journal does not take it: that is only logged and the
cursor goes on (run.py:3384-3387). The daemon's service keeps the settings of its start, as the reload does not
know of it (run.py:3406); the ladder of take-profits is read from the runner's settings at each tick
(run.py:1324). A row inserted between the start's read of the settings and its read of the cursor is passed
without effect (run.py:507). An unreadable database reads as "no overrides", so the daemon runs on the code's
defaults (config.py:1192). Two writers of the same change both record it (config.py:1213), and the CLI puts its
reason on rows of the other (cli.py:806).

*Live.* The id the engine gives a refused order repeats in the next command; the insert fails on the primary key
and takes the `order_attempts` row back with it, so the refusal is not counted. A posted close is not recorded
and the position stays open, so the next close posts another order (service.py:452). Rows beyond the limit of a
refresh are not looked at while the rows before them stay unfinished. Two refreshes that overlap may write in
the other order than they asked, and an answer without a status writes back the one that was listed
(service.py:315): an order that is over is then called unfinished again until a later pass. `record_live_fill`
has no caller (README.md:391-393 describes its effect).

*Books.* A `price_change` whose asset ids are inside its list, which the parser's test shows
(tests/test_polymarket_ws.py:6), has none at the top and is dropped (run.py:842-845): with a venue that sends
this shape the books stay at the snapshots of the subscription, and every price is made of them;
`BooksLagOnlyByTheWire` says so. A change without a side on a one-sided book is filed on the side the code
guesses (market_state.py:213-217); the venue of the model labels its changes. A paper fill on an empty book
fills the whole target at the quoted price (engine.py:205).

*Migrations.* The seed unlinks the legacy settings file before its transaction commits (migration file, line
61), although migrations.py:13 promises that none of a failed file's effects persist; `OverridesKept` is stated
without that case. A conflict in one process marks as failed what another has just applied (migrations.py:203);
a later boot runs it again over its own effects, which all upgrades allow (`FailuresHeal`).

*Decisions.* A YES book with bids and no asks: the fair-value scorer reckons with its mid, which is the bid; the
price gates of the risk engine skip an ask of 0 (risk.py:149), the limit is 0, and the paper fill falls back to
a cent (engine.py:203), a cheap entry that nobody offered. An order into NO has a limit of at least a cent, so
that with a YES bid above 0.99 it lies above the ask the scorer used; the assumption on prices leaves this out.
Between the two halves of a move the NO book may show an ask below what the YES bid gives: the scorer reckons
with the one and the order is sent with the other (quant_scoring.py against risk.py:136), and the edge that was
approved is not there. The `stale_data` gate never fires, as every snapshot is stamped with the moment it is
asked for (types.py:81 and 99; risk.py:116; README.md:27 and 323 promise the gate). The language model's edge is
that to the market's probability and overrides its own wish to abstain. The adaptive scorer's docstring follows
a trend where the code trades as the base does (adaptive_scoring.py:65-67). `max_concurrent_positions` is read
from the settings for penny and from the profile for the others. Closing a hedge can push the net exposure over
its cap (risk.py:194).

*Scheduling.* One interval between decisions for all markets lets a busy one starve the quiet (run.py:894),
against the purpose of the freshness loop (run.py:3113-3120); the heartbeat reads metrics in a thread while the
loop writes them (run.py:3105) and its authentication probe blocks the loop (run.py:3027).
`manage_open_positions` lists due positions of all strategies and closes on the default one
(service.py:376-393).

*Feeds.* A tick older than its minute is dropped, so the comments that the volatility is updated by it do not
hold (btc_state.py:128 and 166). The backfill appends the bar of the running minute behind the bar the seed
opened (run.py:866): the seam is `heard`'s exception in `ReturnsStartRight`. A one-sided book makes the mid jump
to its one price.

*Journal.* A line appended while a prune is under way is lost. Two prunes share the name of their copy: opening
it empties what the other one has renamed or is about to, so that `events.jsonl` can be empty for a moment, and
for good if the process dies there; the second rename raises out of `log_event`. `keep_tail_bytes` 0 keeps the
whole file in the maintenance and half of the limit elsewhere. Of two tails written into one file the shorter
leaves the end of the longer behind it (journal.py:132): the journal repeats lines, and the next tail has fewer
different ones than it should. `LinesKept` is about all other lines.

### Not modelled

The heartbeat file (one writer, write and rename, read by the dashboard alone), the sockets and REST clients
beyond the loss and the lateness of what they bring, the HTTP API and the CLI apart from the writes and commands
above (argument parsing and JSON), the dashboard and the analysis scripts (read-only), the reward estimates of
`maker_rewards.py` and the reports of `event_smart_money.py` (no decision reads them), wording and metrics. The
reasons of the switch that need no row (authentication, a stale heartbeat) are left out of `KillSwitch`.

## 7. Plan

The order was by what costs money first: positions (with the abstract table), the market maker, the follow
maker, the switch and its limits, the settings that steer them, live orders, the books all prices come from, the
migrations, then the journal, the price histories, the scorers and the decisions. All of that is on disk and
checked; proofs cover positions, the market maker, the follow maker, settings, switch, live orders, migrations,
books, price histories and decisions.

Left, in order:

1. An abstract specification of the quote's life (placed, filled or withdrawn, its reward banked) that
   `MarketMaker` and `FollowMaker` both implement.
2. The heartbeat file with its reader's idea of staleness.
