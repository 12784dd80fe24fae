# Lumitrade: specifications and proofs

TLA+ models of the trading engine of Lumitrade (`src/backend/lumitrade`), a Python
asyncio service that turns AI proposals into orders at OANDA and Capital.com and keeps
its book in the Supabase table `trades`.  TLC checks the models on small instances;
TLAPS proves their safety properties for every instance.

All paths below are relative to `src/backend/lumitrade` unless they start with `src/`.

## 1. Inventory

### 1.1 One engine process and its activities

`main.py` starts one engine process.  In it, on one event loop, run:

| activity | code | period | writes |
|---|---|---|---|
| signal loop: kill handling, pre-scan reconciliation, scan, risk gate, `execute_order` | `main.py` `_signal_to_trade_loop` | per scan | orders, rows of `trades`, circuit breaker, kill flag's copy, mode |
| position monitor: closed positions, max hold, trailing and partial closes | `execution_engine/engine.py` `position_monitor` | 60 s | closes rows, moves stops, books P&L |
| persist loop: resets, balance, save | `state/manager.py` `persist_loop` | 5 s | the whole `system_state` row, from memory |
| lock renewal | `state/lock.py` `renew_loop` | 60 s (lease 120 s) | the lease columns of the same row |
| watchdog | `infrastructure/watchdog.py` | 30 s, reconciles every 300 s | alerts; closes rows, books P&L |
| periodic reconciliation | `main.py` `_periodic_reconciliation` | 300 s | closes rows, does **not** book |
| price stream | `data_engine/engine.py` `stream_task` | ticks | latest prices, the validator's memory |
| risk monitor | `subagents/risk_monitor.py` | 1800 s | alerts; takes snapshots like the scan |
| lesson analysis | `ai_brain/lesson_analyzer.py` | a task per closed trade | rules of `trading_lessons` |
| weekly intelligence | `main.py` | weekly | reports |

Beside it: a health-server process (`infrastructure/health_server.py`: `/health`, kill switch
POST/DELETE, mode, `POST /reconcile`, `POST /trade/{id}/close`), the dashboard (writes the
settings and the kill switch), standby engine processes that poll for the lock every 15 s,
and the two brokers, which close positions on their own (stop loss, take profit).

There is no lock between the activities.  They meet in the tables (`trades` with
compare-and-set on `status = 'OPEN'`, the singleton row of `system_state`, `trading_lessons`)
and in memory (`StateManager`, the settings in `config`, the calendar's cache, the validator).
Whatever an activity read before an `await` may be stale when it acts.

### 1.2 Components, their state, what makes them correct

| component | state | operations | hard part | correct if |
|---|---|---|---|---|
| Trade ledger (`execution_engine/engine.py`, `state/reconciler.py`) | rows of `trades`, positions at the brokers | place, save, compare book with broker, close a row, insert an emergency row | five writers, stale snapshots, partial snapshots, lost replies, restarts | no row closed while its position is open; P&L counted once; every position has a row; one order per signal |
| Kill switch (`state/manager.py`, `main.py`, `engine.py` `close_all_positions`) | flag in the row, copy in memory, `_kill_switch_handled`, mode | activate, deactivate, refresh, save, sweep, two guards in `execute_order` | read-modify-write of the row, fail-closed reads, restart, mode changes | a requested kill is not lost, closes everything, and nothing opens behind it |
| Primary lock (`state/lock.py`) | `instance_id`, `lock_expires_at` | acquire, renew, halt, release | clocks, slow calls, lost replies, signals | at most one primary; a vacant lease is taken |
| Circuit breaker (`execution_engine/circuit_breaker.py`) | state, failures with their times | report success or failure, try again | late reports, the second place that looks at the state | trips on bursts and only then; is tried again |
| Loss limits and balance (`state/manager.py`, `risk_engine/state_machine.py`) | daily and weekly P&L, reset marks, balance, a breaker per account | book, reset, refresh, save, restore, evaluate | resets against bookings and restarts, accounts that do not answer | the counters agree; a loss of the period is not forgotten; nothing is approved past a limit; a halt ends |
| Signal loop and risk gate (`main.py`, `risk_engine/engine.py`) | the settings in `config`, reject cooldowns | hours, pairs in turn, settings, counts, cooldown, confidence, size, order | each query waits while rows, settings and hours change | no order breaks the limits its own evaluation read |
| Position sizing (`risk_engine/position_sizer.py`, `utils/pip_math.py`) | none | budget, units, correlation, cap, minimum | rounding and clamping in sequence | an order risks what its confidence allows |
| Order protection (`oanda_executor.py`, `fill_verifier.py`) | order in flight | submit, look up after a timeout, read back, repair, emergency close, save | dropped attachments, ambiguous reads | a position with a row is protected, or someone knows |
| Trailing stop (`engine.py` `_check_and_trail`) | stop at the broker, its copy in the row | break-even, trail | copy and original diverge | the stop does not move back; profit is secured |
| AI brain (`ai_brain/`) | one proposal; rules of `trading_lessons` | lessons, strategies, filters, model with retries, fallback, second opinion, analysis of closed trades | the direction changes between the checks; order of the adjustments; analyses overlap | every proposal passes the filters in its own direction; weak ones reach no order; rules have evidence |
| Calendar (`data_engine/calendar.py`, `risk_engine/calendar_guard.py`) | a cache with a lifetime, news in snapshots | fetch, filter, block | caches, minutes between snapshot and check, two users | nothing passes within a blackout the feed has told of |
| Price feed (`data_engine/engine.py`, `price_stream.py`, `validator.py`) | latest tick, price history, spike counter, fallback flag | ticks, spikes, snapshots | a spike is not remembered | a market that has moved is accepted again |
| Vital signs (`infrastructure/watchdog.py`, `/health`) | time of the last save, age of the row | alert, report | the watchdog waits for its own work; others refresh the row | silence is told of; a dead engine is reported |
| Orchestrator (`main.py`) | `_shutdown`, tasks | startup, loops, shutdown | SIGTERM at any point | ends without harm |

The rest (indicators, prompts and charts, analytics, event publisher, database client,
read-only API, the dashboard's pages, migrations, scripts) keeps no state that the trading
decisions above depend on.  `PROJECT.json` lists every part with its status, and the hazards
of the code at their lines.

## 2. Plan

Everything of the first plan is built: ledger, kill switch, lock, breaker, loss limits,
order protection with trailing stops (`Position`), and the risk gate (`SignalLoop`); then
the AI brain, the calendar, the price feed and the vital signs, which the first plan had
left out.  What a later step could add, in this order:

| step | modules | why |
|---|---|---|
| 1 | `Engines`: `DistributedLock` composed with the ledger's idempotency guard | what two primaries can do to one signal |
| 2 | partial closes of paper trades in `TradeLedger` | a row that is split |
| 3 | the repair endpoints (purge-ghosts, fix-breakeven) in `TradeLedger` | writers outside the engine |

The abstract specifications are `TradeBook` (a row is opened once, closed once, counted at
most once), which `TradeLedger` implements, and `Primacy` (the lease names one primary; who has
lost it never has it again, and who has stopped never works again), which `DistributedLock`
implements.

## 3. The modules

Each component has its module; an `MC` module beside it gives TLC its instances, and a
`_proofs` module holds its theorems (`Guards_proofs` those of the breaker, the calendar, the
price feed and the vital signs).  Modules that compose: `SignalLoop` extends
`PositionSizing`; `Scan` extends `Lessons`, which extends `Strategy`; `MCGuards` puts
`CircuitBreaker`, `Calendar`, `PriceFeed` and `Vitals` beside each other.  What a module needs of another
component and does not own (the kill switch in `LossLimits`, the loss limits in
`SignalLoop`) is an outcome it must cope with at any time.

### 3.1 `TradeLedger`: rows, positions, and everyone who compares them

`trades` is the table (per primary key a row with the status, the broker id, the mode and
who closed it); `broker` is the truth, per order, of what the broker holds.  An order
serves as its broker id: the broker's ids are unique, so nothing is lost.

- `exec` is `execute_order` (engine.py:83-440): `CheckSignal` (idempotency guard),
  `Place`, the broker's reply or its loss (`FillReported`, `OrderRejected`,
  `FillUnknown`), and the insert (`SaveTrade`, `SaveTradeFails`).
- `monitor` is a pass of `_check_closed_positions`: `MonitorReadRows`, `MonitorSnapshot`,
  then `MonitorRow` per row, which keeps it, closes it (`CloseGoneRow`), takes a paper
  exit, or handles a position past its maximum holding time (`MaxHold`).
- `recon[k]` is a pass of `PositionReconciler.reconcile` for the caller `k`:
  `ReconReadRows`, `ReconSnapshot`, `ReconRow` per row, `HandlePhantom` per position
  without a row, `ReconDone`.  What differs between the callers is whether they book the
  ghosts they are handed (`BookingReconcilers`: the callers through
  `StateManager.reconcile_positions`) and whether they run in the signal loop's own task
  (`LoopReconcilers`: the pre-scan call, which never overlaps `execute_order`).
- `booked[r]` counts how often the P&L of a row was added to the daily and weekly
  counters.  Amounts are not modelled: no property depends on them.
- `Crash` ends every activity and leaves the table and the broker.
- `MaxHold` takes a failing close for the proof that the trade is gone if its text has the
  digits 404 (engine.py:516).  It has them when OANDA answers 404, and, since the text
  carries the URL, whenever the broker id has them: `Looks404` are the orders with such an id.
  A row closed in this branch is `closed_by` `NotFound`.
- A failing UPDATE was not applied, or it was and only its reply is lost (`UpdateFails`, the
  last disjunct of `HandleGhost`): then the row is closed and the P&L it was closed with is not
  booked by anybody.

A step ends where the code awaits something and later acts on what it had read.  The two
OANDA accounts are fetched one after the other; a position is in one of them only, so one
step for both reads is enough.  The claim of a row (`UPDATE ... WHERE id = r AND status =
'OPEN'`) is atomic in the database; a row that is claimed and the counters' update that
follows are one step, because no property relates what lies between and the counters are
in the same task.  A paper fill stays "open" in `broker`: no broker holds it and its row
is closed by price.  A failing call, a partial snapshot, a closed market at the
maximum holding time and a crash count against `MaxFaults`.

### 3.2 `TradeBook`

What the table and the counters promise.  `TradeLedger!Abstract` is its instance with
`status` the rows' statuses and `counted` the bookings; `ImplementsTradeBook` is its
specification as a property of the ledger.

### 3.3 `KillSwitch`

`row`, `memory` and `saving` are the three copies of the flag: the database's, the
engine's, and the one an upsert in flight carries (`save` builds its dictionary before
the `await`).  `loop` is the signal loop, down to the two guards of `execute_order`
(engine.py:102-124 and 150-178).  `handled` is `_kill_switch_handled`; `dashboard` and
`mode` are the mode asked for and the mode in effect, which `RiskEngine` loads before it
evaluates a proposal.  `ReadRow` and `Refresh` are the two halves of
`refresh_kill_switch_from_db` around its `await`: `reading` holds the value that was read, and
the engine's copy is assigned later, or set if the read failed (it fails closed).
`Sweep` is `close_all_positions`, over both brokers; it is atomic because the signal loop
opens nothing while it sweeps and no property looks inside it.  The environment variable is at LIVE and
`FORCE_PAPER_MODE` is off: otherwise there is no live position and nothing to check.
`Events` names the faults of a run, so that each run says under which faults its
property holds or fails.

### 3.4 `DistributedLock`

A process stands for its lease id (a fresh uuid per start), so a restart is another
process.  Time advances by `Tick`, in units of at least the 15 s between polls; all
times are relative to the present: `row.left` until the lease ends (negative when
passed), `age` since a call's `now` was taken or since the lock was acquired, `timer`
until the next poll or renewal.  `acquire` (lock.py:80-233) is `Poll`, `Read`, then
`Update` (own or expired lease: a compare-and-swap on the *holder* only) or `Claim` and
`Confirm` (vacant row: an unconditional write, read back twice).  `renew_loop` is
`RenewalDue`, `Renew`.  `Terminate` is SIGTERM, whose effect depends on where the process
stands (section 5).  A missing row and a row without a holder behave alike and are one
state.

`slips` records the three things the mutual exclusion does not outlast, when they have
happened: the reply to a claim is "lost", a claim lands "late", on a row that has a primary, or
a lease runs out on the primary that has it ("overrun").  `Due` is how long a primary may go on
if no renewal succeeds any more, `Gap` how much longer than the lease that may be: two
intervals, three calls and a startup less the TTL.  At the code's 120 s and 60 s the intervals
use the lease up, and `Gap` is what calls and startup take.

`Primacy` is what the rest of the system relies on: a `role` per process, "standby",
"primary", "usurped" (it works on but has lost the lease) or "gone".
`DistributedLock!Abstract` is its instance with `Role`.

### 3.5 `CircuitBreaker`

The breaker's state, the age of each failing call's failure in units of 10 s (`Gone` when it
is not on record), and `order`, the signal loop's order on its way from the risk engine's
approval through the check in `execute_order` to its outcome.  `Approve` is the look of
`RiskEngine.evaluate` at the raw state (risk_engine/engine.py:918), `CheckBreaker` the
`check_and_transition` of `execute_order`.  `OtherCall` are the reports of the monitor and
the sweep, which come at any time.  Ages stop at `Window`, where a failure stays on record
until the next one cleans up, as in the code.

### 3.6 `LossLimits`

`daily` and `weekly` are the counters of `_state`, `dayReset` and `weekReset` the marks of
the last reset ("none" in a fresh process: they are not persisted), `row` the copy in
`system_state`, of which the day's part counts only if `updated_at` is of today.
`PersistReset` and `PersistSave` are the two halves of a round of `persist_loop` around its
awaits; `MonitorBooks` and `ReconcilerBooks` add a close, the latter by its date;
`Acquire` is what the acquisition of the lock does to the same row: it writes `updated_at`, so
that `Restore` (`restore()` with its reconciliation and its save) finds a row of today unless
midnight has passed since.  `account` is the breaker of
each OANDA account, `Merged` the sum over those that answered, with the sub-account that
falls back to the main one counted once.  The signal loop has two gates: its head
(`StartScan`) and the risk engine's (`ReadRiskState`), which reads the state once and lets
everything after it wait (`Conclude`).

### 3.7 `PositionSizing` and `SignalLoop`

`SignalLoop` is `_signal_to_trade_loop` with `RiskEngine.evaluate` inside: `TakePair` (hours,
market, reject cooldown), `Scan`, `Load` (`_load_user_settings`, which first falls back to
PAPER), `CountOpen`, `CountPair`, `CoolAndCheck`, `Size`, and `execute_order` by its outcomes.
A step ends where the code awaits a query; between two steps, positions close, the monitor
closes rows, a reconciler inserts a phantom's row of mode PAPER, the dashboard rewrites the
settings, and (outside an evaluation, which takes seconds) the clock ticks.  `trade` holds
position and row together, since the hazards are about the two disagreeing; `early` is the
hour as read at the head of the scan.  `PositionSizing` computes an order's size in integers:
risk in tenths of a percent, quantities in lots of a hundredth of a unit, with the code's
roundings (half-even for crypto, down elsewhere) at their places.

### 3.8 `Position`

One live order and what becomes of it, in prices relative to the entry and in the direction
of profit.  `pc` walks through `OandaExecutor.execute`: placing, the status lookup after a
lost reply, the read-back of stop and target, its repair, the emergency close, the save.
`monitor` walks through `_check_and_trail`: the row as read, the price, the modification at
the broker, the update of the row.  The broker moves the price, closes at stop and target,
and refuses a modification that the price has passed.

### 3.9 `Strategy`, `Lessons`, `Scan`

`Strategy` has the pure parts: the votes of the quantitative strategies (`Quant`), the
filters of the higher time frames (`Admits`), what makes an answer of the model valid, the
adjusted confidence, the fallback rules.  The code writes BUY and SELL out; here a quantity
is taken with the sign of the direction.  `Lessons` is the trading memory: trades close, each
starts an analysis that reads the history pattern by pattern (`Evaluate`) and writes rules
(`Write`, where the table's UNIQUE constraint keeps the first).  `Scan` is `execute_scan` from
the snapshot to the risk engine's look at the confidence: the lessons' two queries, the
decision, up to three calls of the model, which may answer anything, the fallback, the
filters again, the second opinion.

### 3.10 `Calendar`, `PriceFeed`, `Vitals`

`Calendar`: a fetch takes up to `MaxFetch`, its result is cached for `Ttl` counted from
before it, also the result of a failing one; the scan and the risk monitor share the cache,
and the scan's copy ages up to `MaxDelay` before the risk engine looks at it.  Time goes in
half minutes, because the guard truncates to minutes.  `PriceFeed`: ticks of the stream, its
REST fallback, and snapshots, all judged by one validator; a price is an integer, and mean
and deviation are compared as squares.  `Vitals`: the persist loop may hang, alerts may be
lost, the engine may die; the watchdog looks at the time of the last save, `/health` at the
age of the row, which the lock's renewals and the operator refresh too.

## 4. What the passing runs show

| run | distinct states | shows |
|---|---|---|
| `Ledger` | 888,282 | A live and a shadow order on the two OANDA accounts, the live one with a 404 in its id, the monitor, the watchdog and the pre-scan reconciler, one fault. `ClosedRowsAreGone`: no stale or partial snapshot makes anybody close the row of an open position, except the max-hold branch (section 5, `NotFoundMeansGone`). `BookedAtMostOnce` per row, and never for a shadow row; `ImplementsTradeBook`. `LossesAreBooked`: a P&L that anybody has learned, booking or not, is booked or held by a pass from the claim of its row on; a crash, the lost reply of that claim and the end of a pass that drops its ghosts are the only steps that lose it. |
| `LedgerLive` | 348,584 | A signal fed twice. `NoSecondLiveOrder`: once a live row of a signal was saved, the signal gets no second order, whatever became of the row and of the process. Under fairness rows of closed positions get closed (`GoneRowsAreClosed`) and positions get rows (`PositionsGetRows`). |
| `Limits` | 346,505 | Two accounts, a week of two days, two faults. `MondayAgrees`: no booking, reset or restore counts in one counter what belongs in both. `LossesStay`: only the first round of a day or a life forgets a loss. `NoApprovalPastLimit`, whichever accounts answered. `HaltIsLifted`, `BalanceRecovers` under fairness. |
| `Gate` | 382,871 | A forex and a crypto pair, two slots, three rows of settings that change at any time. `SlotsHold`, `CooldownHolds`, `OrdersInHours`, `NoStaleLive`: no live order breaks what its own evaluation read, whatever happened between its queries. `RiskIsBounded`: the size's risk, through all roundings, against the tiers of the code (3% and 2%; the documented ones are 1% and 0.5%: section 5, `DocumentedTiers`). |
| `Scan` | 574,256 | Five markets that set the strategies, filters and rules against each other. `FiltersHold`, also for a proposal the model has turned and for the fallback's. `WeakIsBarred`: nothing that is added after the cap lifts a weak proposal over 0.70. `BlocksHaveEvidence` over overlapping and failing analyses. |
| `Position` | 10,064 | A forex and a gold order, two faults. `UncoveredIsAlerted`: a position with a row has the protection the row shows, or someone was alerted. `StopsOnlyForward`, and under fairness `ProfitIsSecured`. |
| `Kill` | 461,952 | Every fault, any number of times, and reads and saves that end later than the operator writes; each property names the faults it gives way to. `HandledMeansFlat`: an order between its guards cannot slip in behind a sweep. `SettledKillStays`, `SettledKillBlocks`, and under fairness `KillCloses`. |
| `Guards` | 734,382 | The breaker: `ClosedIsQuiet`, `TripsOnBurst` over recoveries, restarts and late reports; `StrandedStays`: once it is open and no approved order is on its way, only a restart ends it. Two events in every order and distance; prices that jump by one and by eight; a hanging persist loop, a lost alert, a dead engine: `NewsRespected`, `SpikesEnd`, `StallIsTold`, `DeadIsReported`. |
| `Lock` | 798,157 | Three processes at the code's intervals, calls and startups of up to 30 s, every event. `LeaseCovers`: a lease runs out on a primary by `Gap` at most. `Exclusion`: two work at once only after a slip. `LosersHalt`: a primary that has lost the lease only counts down to its end. `ImplementsPrimacy`, and under fairness `LockTaken`: a waiting process means some process becomes primary. |

The type invariants are theorems (section 6), each of them; `Scan` checks its own too, and the
other runs pass with `TypeOK` (`GuardsTypeOK` in `Guards`) added to the configuration.

A kill is *settled* when the row and the copy are both TRUE and no save and no read of an older
FALSE is under way.  Both qualifications are needed: section 5, `KillLost` and `AgreedKillStays`.

Bounds.  *Ledger*: two orders are enough for one snapshot to mix accounts and modes and
for a signal fed twice; an interference of more orders would have to go through one row
or one pass, and a row has one order.  The rows suffice for each order's own row and one
emergency row per reconciler that can race with it.  `SYMMETRY` permutes the primary keys
only, which no definition tells apart, and only in the run without liveness.  *Loss limits*:
the equity is 16 and 4, so that the loss of one unit reaches the daily limit of 5 percent of
both accounts together, and of the main account alone overshoots it; two days make the first
day of a week different from the others; P&L between -2 and 1 passes both limits.  *Gate*:
two slots hold an order and the rival it is counted against, limits of one and two are both
reached, and a cooldown of two units separates "just closed" from "closed a while ago"; the
pairs have one crypto member, as hours and rounding differ, and two balances and stops that
make sizes round both ways, fall under the minimum, and are refused.  *Scan*: the
markets are picked so that every strategy, filter, adjustment and the fallback decides one
of them; two trades against a sample of two give blocks, boosts and neither.  *Position*:
two faults, because the repair's own failure needs one after the dropped attachment; prices
from one stop's distance below the entry to the target.  *Kill switch*: two positions (one
that closes, one that stays), two pairs per scan (a guard that fires in the middle); faults
are not bounded.  *Guards*: the breaker has the code's own
3 failures, 60 s, 30 s in units of 10 s, and four calls within a window are one more than the
threshold; the calendar's times keep the code's order (HIGH blocks longer than
MEDIUM, 4 hours reach beyond a blackout, a lifetime and a delay); of the starting distances
only the difference matters, since time passes; a memory of four ticks is judged from three,
three moves suffice to leave a level and its outlier behind; the four parts share no
variable, so a behaviour exercises one of them and the others stand still.  *Lock*: a TTL
of four units and an interval of two are the code's 120 s and 60 s in units of 30 s; calls and
startups take up to one unit, so that `Gap` is four units, and two faults let a lease run out,
change hands twice, or both.  Three processes let a dead holder and two rival claimants coexist.
The theorems of section 6 remove most of these bounds.

Fairness.  *Ledger*: weak fairness of the monitor and of every reconciler, which are
`while` loops around a `sleep` with an `except` for everything a pass may raise; none for
orders and brokers.  *Kill switch*: weak fairness of the persist loop and of the signal
loop, for the same reason.  *Loss limits*: of the supervisor's restart, the persist loop and
the calendar day.  *Position*: of the monitor, a loop of 60 s.  *Price feed*: of snapshots,
which every scan takes; not of the stream, which may hang for ever.  *Lock*: of each process
that polls, starts up or renews, and of time; faults and signals need not happen.  *Breaker*:
of the signal loop and time.  The faults of the liveness runs are bounded, or named in the
property: the properties say what happens once calls succeed again.

`CHECK_DEADLOCK` is on except in `Position`: the life of one order ends.  The other models
cannot come to a stop, since time, the operator or a reconciler always has a step.

## 5. Where the code does not do what it says

Every statement below is of a doc, a comment or a test of the repository, or what one would
expect beside it, and TLC finds a trace against it that the code can take too.  The sentence
it is taken from is in the comment of the property.  `KillLost`, `LockDelay` and `Ledger404` are
runs of `PROJECT.json`, and findings.
A name in the second column that is not the configuration of a passing run is a configuration
of its own, with as few faults as the trace needs; the others are checked by putting the
statement in place of the properties of that configuration.

| statement | configuration | what happens |
|---|---|---|
| `NotFoundMeansGone` | `Ledger404` | A max-hold close fails with 429 or 5xx; the text has the URL, the URL the trade id, the id the digits 404: the row of the open position is closed. |
| `LearnedIsBooked` | `Ledger` | The UPDATE that claims a row is applied and its reply lost: no retry finds the row open, and the P&L it was closed with is never booked. |
| `BookedOncePerTrade` | `LedgerDouble` | A reconciler whose rows were read before a fill was saved, and whose snapshot was taken after, inserts a second row for the same broker trade; at the close both rows are booked. |
| `ReconciledCloseIsBooked` | `LedgerUnbooked` | The periodic and the pre-scan reconciliation drop the ghosts they are handed, so a loss whose row they close never counts against the limits. |
| `ClosedRowsAreGoneEverywhere` | `LedgerCapital` | The row of an open Capital.com position is closed, because only OANDA's snapshot is consulted. |
| `RequestSurvives` | `KillLost` | The persist loop writes its copy back every 5 s and overwrites a request made since the last refresh. |
| `AgreedKillStays` | `Kill` | A failing read has set the copy. The next refresh has read FALSE when the operator activates; it assigns that FALSE afterwards, and the next save writes it to the row. |
| `BlipClears` | `KillBlip` | A failing refresh sets the copy; the persist loop makes it permanent. |
| `RestartKeepsKill` | `KillRestore` | `restore()` swallows a failing read, keeps FALSE, and saves it. |
| `HandledMeansFlatAlways` | `KillRestart`, `KillToggle` | After a restart the mode counts as PAPER until a proposal is evaluated, which the kill prevents; the sweep does nothing and counts as handled. So it does when the dashboard asks for PAPER: it looks at the mode of now, not of the positions. |
| `OnePrimary` | `LockDelay`, `LockStartup` | Two failed renewals are noticed no earlier than 2 x 60 s = the TTL after the last good one: any latency opens a gap in which a standby may take over. The first renewal is due 60 s after the *end* of startup, the lease counts from its beginning. |
| `ReleasedOnShutdown` | `LockStop` | SIGTERM ends the process before `release()` ran. During startup it does release the lock, and startup goes on beside whoever takes it. |
| `OpenEnds` | `Guards` | The risk engine rejects everything while OPEN, and only an approved order moves the breaker on. |
| `ClosedByBroker` | `Guards` | A simulated fill closes a half-open breaker. |
| `FailureReopens` | `Guards` | A failure in HALF_OPEN does not reopen the breaker if the earlier ones have left the window. |
| `RestartKeepsLosses` | `Limits` | The reset marks are not persisted: the first round after a restart zeroes the counters that `restore()` has just read. |
| `StaleBalanceAlerts` | `LimitsSilent` | The failing fetches are swallowed and counted per account; the counter that leads to the alert counts exceptions that cannot arrive there. |
| `ExposureWithinLimit` | `Gate` | A live position without a row, or with a phantom's row of mode PAPER, takes no slot. |
| `DocumentedTiers` | `Gate` | The docstring of `_determine_risk_pct` says 1.0% from a confidence of 0.80 on and 0.5% below; the code returns 3% and 2%. |
| `CryptoRiskCapped` | `Gate` | Half-even rounding lets a crypto order risk half a lot more than its cap. |
| `CautionAdmits` | `Gate` | Raised by 0.10, the default threshold of 0.70 meets the ceiling of 0.80, and a minimum above 0.70 admits nothing. |
| `StopNeverBackwards` | `Position` | After a failing update the row shows an older stop than the broker's; from it the monitor computes one behind. |
| `NoCloseOnDoubt` | `Position` | A correction whose reply is lost ends in the emergency close of a position that may be protected by now. |
| `DistanceIsKept` | `PositionLegacy` | Without `initial_stop_loss` the distance is taken from the moved stop, and shrinks. |
| `NoBlockedDirection` | `Scan` | The rules are looked up for the strategies' direction; the model may turn it. |
| `QuantDecides` | `Scan` | The model's direction, not the strategies', is traded. |
| `BuyOnlyHolds` | `Scan` | `BUY_ONLY_MODE` is looked at only in the trend check of a call without a chart. |
| `OverconfidenceIsRejected` | `Scan` | A second opinion lowers a confidence above the ceiling to below it; agreement caps it at the ceiling. |
| `RulesKeepUp` | `ScanFrozen` | The upsert names no conflict target and the table refuses a second row of a pattern: a rule stays as it was first written. |
| `OneSessionPerHour` | `Scan` | Trades are remembered under other session hours than those rules are looked up under. |
| `HeardNewsRespected` | `Guards` | Any failing refresh forgets the events that were known for a whole TTL. |
| `ResetKeepsPrice` | `Guards` | The reset empties the memory; the accepted price is not put in. |
| `DeadIsReportedAtOnce` | `Guards` | The operator's kill switch refreshes the row of a dead engine. |
| `ReportedIsSaved` | `Guards` | The lock's renewals refresh it while the persist loop hangs. |
| `FeedIsReported` | `Guards` | The row's age speaks for the prices, whether or not the stream's task still runs. |

Seen while modelling, without a statement of its own:

- Signal loop: orders of mode PAPER_SHADOW cannot come out of `evaluate`, whose allow-list
  admits only live pairs in LIVE mode (risk_engine/engine.py:559).  Raising a BTC order to the
  minimum size almost never applies: the gate before it asks for more risk.
- Position: a position that has lost its target and passed it cannot get any stop, since each
  modification names the target again.  A stop for a trade that has just closed is answered
  with 404 and counts as a failure of the broker.  For positions at Capital.com the monitor
  asks OANDA, always in vain.
- Scan: with three recent trades looked up, neither the tier of five losses nor the pair's
  performance ever applies; the first listed event that is near counts, not the nearest one;
  a rule past its age is not learnt again; `seed_initial_rules` is never called.
- Calendar: `calendar_guard.py:34-35` says that without a calendar no blackout is assumed;
  the code blocks the hours of US releases.  `_fetch_pair_calendar` is never called.
- Price feed: after the fallback to REST the stream is not tried again; a stream that ends
  without an error reconnects at once, uncounted, and one that hangs has no timeout; nobody
  notices the end of `stream_task`; `is_fresh` of a snapshot cannot be false; after a memory
  of equal prices the second tick of any move is a spike.
- Vital signs: `circuit_breaker_state` is never written, so `/health` always says CLOSED;
  failing saves are never told of, since the time in memory is set before the upsert
  (manager.py:466).

## 6. What is proved

The proofs hold for every value of the constants that satisfies the modules' assumptions;
`tlapm` checks each to the last leaf.

`TradeLedger_proofs`.  `ClosedRowsAreGone` is not inductive: what a pass is about to do
depends on what it read long ago.  The strengthening `GoneInv` has `TypeOK`; `ExecInv`
(an order that is "filled" is held, or was, by the broker); `RowInv` (so is the order of
every row); and, for each pass in progress, `PassInv`: *a row of the pass whose position
is missing from its complete snapshot belongs to a closed position*.  That holds because
the rows are read before the snapshot, a row exists only for an order that was filled,
and a position never reopens; the lemmas `BrokerGoesForward` and `TradesGoForward` state
the last two once, `PassStays` uses them for the monitor and the reconcilers alike.
Theorems `Typing`, `ClosedIsGone`, and from them `OneOrderPerSignal` (`NoSecondLiveOrder`, with
`SignalInv`: an order that passed the guard and has not been sent still satisfies it).

Bookings, in the same module: every step is one of five kinds (`StepKinds`: nothing, a
row opened, the monitor closes and may book, a reconciler closes and may remember, a
reconciler books what it remembers).  `BookInv` says that a remembered row was closed by
the caller that remembers it, hence by nobody else, and is not booked yet.  Theorems
`BookedOnce`, and `Refinement`: `Spec => ImplementsTradeBook`, with the same kinds mapped
to `Open`, `Close`, `CountLater` or a stutter.

`NoLossIsLost` (`LossesAreBooked`) is the other side of `BookedOnce`, for every caller: what
anybody has claimed with a known P&L is booked or stays in the hands of its pass.  It needs
`HandInv`: only a pass that compares has ghosts in its hands, so none is dropped where a pass
begins anew or ends early.  The proof goes through the actions once more (`MonitorLosesNone`,
`ReconLosesNone`, `PassEndLosesNone`, `OpeningLosesNone`): a claimed row is booked in the same
step or added to the ghosts, or the reply of the claim was lost, which shows in the step
(`ReplyLost`: the claim is applied and a fault counted); a ghost leaves a pass by its booking, or
with a caller that drops it (`Dropped`), or by a crash.

`KillSwitch_proofs`.  `Typing`; `KillBlocksOrders` from `PlacingInv` (when the loop stands
at `Place`, the copy is FALSE: so the kill is not settled), under every fault;
`KillStays`, from the moment no older read or save is under way until a `restore` whose read
fails; `HandledIsFlat` from `FlatInv`, until a
restart, mode change, failing settings read or failing close.  The properties name these
faults themselves, so the theorems have no assumption about them; they are those under which
section 5 refutes the properties, plus the failing close and the failing settings read, which
leave positions behind by design.

`DistributedLock_proofs`.  No theorem assumes anything of the intervals but `Margin`, which is
about them; processes crash, calls fail, are slow or unanswered, and SIGTERM comes at any point.
`StepMoves` says once what a step does to the row: it goes to the process that steps or from it,
and a primary that has lost it leaves it alone.  `LosersEnd` (`LosersHalt`): `Due` of a usurped
primary never grows, and shrinks with time.  `LeaseHolds` (`LeaseCovers`): a lease counts from
the `now` taken before its call, so a fresh one is short of what its primary may take by `Gap` at
most, and later steps take from both sides alike; `CoverInv` adds the lease of a claim that is
not confirmed yet.  `MutualExclusion` (`Exclusion`): `OwnerInv` holds until a slip, and says that
who works has the row, that the row's holder has claimed it, is primary or is dead, and that a
takeover starts from the expired lease of a dead process, which is why a swap that compares the
holder only is enough.  `Margin`: a lease with `Gap <= 0` never runs out on its primary, so that
only lost replies and late claims make two; with the code's own numbers that asks for calls and a
startup that take no time, and `LockDelay` shows the rest.  `Refinement` (`Spec =>
ImplementsPrimacy`): every step of a process is a `Take`, `Lose`, `Leave` or a stutter
(`RoleStep`), since a process becomes primary only as the holder and a usurped one never writes
the row.

`LossLimits_proofs`.  `Typing`; `CountersAgree` from an invariant that also says that the
reset marks belong to a life (there are none while the engine is down) and are set together on
the first day of a week; `LossesRemain` needs the types only; `LimitsHold` follows from the
bound on the balance: whatever accounts were asked and answered, the balance is never more
than everything held (`MergedBounded`), so a percentage of it is the stricter limit.

`Scan_proofs`.  `IInv` says that a proposal passes the filters from the moment it is made, and
that a weak one has at most 0.64 before the second opinion and 0.69 after it (`Capped`).  The
lemmas compute through the adjustments: the cap comes last, the fallback proposes nothing
weak (its two conditions are two confirmations), and the second opinion adds at most 0.05.
Theorems `FiltersAlwaysHold` and `WeakIsAlwaysBarred`, for all markets, answers and memories.
`EvidenceInv` is about the memory beside the scan: a rule that blocks has its evidence when it is
computed (`JudgedOnEvidence`), while it waits to be written, in the table, and when it has been
looked up.  Trades close and rules change between any two of these steps; the evidence stays,
since closed trades only become more (`ClosedGrows`, `EvidenceStays`).  Theorems
`BlocksAreEvident` and `Typing`.

`SignalLoop_proofs`.  `GateInv` follows an evaluation through its queries.  `HourInv`: the hour
of the evaluation still holds, since the clock stands still for its seconds.  `ModeInv`: the
mode is PAPER until a row of settings has been read, so LIVE has been read.  `CountInv`: what
was counted below a limit stays below it, because nothing but this loop inserts a live row and
everybody else only closes (`FewerLiveRows`).  `CoolInv`: with one position per pair, the two
counts and the cooldown together leave no live row of the pair; rows close between the
queries, but a row that closes after the cooldown's query was counted before it.  Theorems
`LimitsOfPositionsHold`, `CooldownsHold`, `HoursHold`, `LiveIsRead`.  The size: lemmas say what
a rounding down (`Quotient`), a half-even rounding (`HalfEvenDoubles`: it at most doubles) and
a maximum over a set give; from them, each stage of the computation is at most the one before
(`BaseBounded`, `ReducedBounded`, `SizeBounded`), and `SizeInv` carries the numbers from the
queries to the order.  Theorems `RisksAreBounded` and, since the types need the size, `Typing`.

`Position_proofs`.  `UncoveredIsAlerted` is strengthened by `UnsavedInv` (until the row is saved,
only the order's own task is at work, and an order about to be saved without an alert has its
stop and target), `StopsOnlyForward` by `MonitorInv` (what the monitor has read is what the row
says, its new stop is ahead of it, and what it is about to write is what the broker has).
Theorems `Typing`, `ProtectedOrAlerted`, `StopsAdvance`.

`Guards_proofs`.  *Breaker*: the failures of the window are part of the record and equal to it
after every new failure (`CountedIsRecent`); time only takes them out (`TickForgets`).
Theorems `BreakerTyping`, `NoBurstUnnoticed`, `BurstsTrip`.  `StrandedForGood` proves the deadlock
that section 5 shows on one trace: `Stranded` is kept by every step but a restart, hence by any
number of reports, failures and waiting, for every threshold and window.  *Calendar*: the *reach* of a cache
is how far off an event may be and still be in it: `Ahead` when it is filled, one less with
every unit of its age, hence at least `Ahead - Ttl` as long as it is valid (`CacheReaches`); a
snapshot inherits it and loses up to `MaxDelay` more (`NewsReach`).  An event within its
blackout is nearer than that by `CalendarAssumption`, and truncation to minutes keeps it within
the window (`MinutesStayWithin`).  Theorems `CalendarTyping`, `NewsIsRespected`.  *Price feed*: `PriceFeedTyping` (the
memory never outgrows its deque, through refusals and resets), and `RefusalsAreCounted`, the
safety half of `SpikesEnd`: a refused price is counted, the count stays below the threshold, and
an accepted one ends it, so of that many prices in a row one is accepted, whoever asked.  *Vital signs*: `StallInv` adds
the watchdog's wait to the silence: until the stall is told of, the age of the last save and
the time to the next check sum up to at most `Beat` and a round, with its reconciliation, for
each alert lost so far and one more.  `DeadInv`: since an engine died only the operator has
touched its row.  Theorems `VitalsTyping`, `StallsAreTold`, `DeadEnginesAreReported`.

## 7. What is only model-checked

- Liveness: `GoneRowsAreClosed`, `PositionsGetRows`, `KillCloses`, `LockTaken`,
  `HaltIsLifted`, `BalanceRecovers`, `ProfitIsSecured`, `SpikesEnd`.  The prover does not
  reason about fairness and ENABLED.
- Everything in section 5: a refutation is a trace.

## 8. What is not modelled

- Indicators, regimes, prompts, charts, sentiment: a market of `Strategy` is any combination
  of their results, and the model's answer is any answer.
- The partial close of paper trades, rows without a broker id, and the operator's repair
  endpoints (purge-ghosts, fix-breakeven, fix-timestamps).
- The sessions of Capital.com's client: I/O.
- Two engines at once on one ledger: the lock's runs say when that happens; what it does
  to the ledger is step 1 of the plan.
- The subagents other than the risk monitor, and the analytics: they write reports.
- The dashboard beyond what it writes for the engine; the backtests, which reimplement the
  strategy; the migrations.

## 9. Running it

    tlc -config Ledger.cfg MCTradeLedger.tla
    tlapm TradeLedger_proofs.tla

and likewise for the others.  A `.cfg` file belongs to an MC module by its prefix: `Ledger` to
`MCTradeLedger`, `Kill` to `MCKillSwitch`, `Lock` to `MCDistributedLock`, `Limits` to `MCLossLimits`, `Gate` to `MCSignalLoop`, `Position` to
`MCPosition`, `Scan` to `MCScan`, `Guards` to `MCGuards`.
