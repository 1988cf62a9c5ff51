# Nexus Core Meta Trading V4 in TLA+

A verification project for the program in `src/`: TLA+ modules of its core logic, TLC
configurations that check them on small instances, and theorems that TLAPS proves for
every instance. Paths are relative to the repository's root, `src/`.

## 1. The system

The program trades forex, metals, indices and crypto through a MetaTrader 5 terminal.
A feature pump fills PostgreSQL with H1 bars and indicators; a k-NN memory in a vector
store judges the current bar; one single-threaded loop (`src/live/live_trader.py run`)
enters positions, manages them and keeps the books. Nothing in the loop runs
concurrently with itself. What runs concurrently is everything around it: the broker,
which fills stops and targets at any time, the clock, the operator, the maintenance
subprocess, and the operating system, which may kill the process between any two lines.

| component | state it keeps | operations | talks to |
|---|---|---|---|
| Live trader loop (`live/live_trader.py`) | `state` dict, timers, `last_entry_hour` | run, setup, `_manage`, `_entry_cycle`, `_execute_entry`, `_apply_actions`, `_close_all_for_day`, `_recheck_target_lock`, heartbeat, EOD, maintenance | everything below |
| Reconciler (`live/reconciler.py`) | none of its own | `reconcile`, `adopt_position`, `finalize_close` | broker, state, journal |
| State file (`live/state.py`) | `live_state.json` | `load_state`, `save_state` | file system |
| Trade journal (`live/journal.py`) | `trades` rows | `journal_open`, `journal_close` | PostgreSQL |
| Daily guards and breaker (`live/risk_engine.py`) | `state["day"]`, `halted_drawdown`, `peak_equity` | `refresh_daily_guards`, `entries_allowed` | account readings |
| Portfolio risk engine (`live/risk_engine.py`) | `perf`, `cooldowns` | `check_entry`, `currency_exposure`, `symbol_perf_verdict` | tracked positions |
| Exit stack (`live/position_manager.py`) | peaks, flags, stop and volume of `ManagedPosition` | `evaluate` | ticks |
| MT5 connector (`mt5_client/connector.py`) | cached symbol names and filling modes | positions, orders, brackets, deal history, account | terminal |
| Backtest engine and simulation (`backtester/`) | one simulated trade, cooldowns, bans, verdict window | `simulate_trade`, the walk-forward loop | bars, memory |
| Feature pump (`ingestion/`) | `market_data_1h`, `feature_cache_1h` | backfill, top-up, recompute | terminal, PostgreSQL |
| Vector memory (`memory/`) | encoder file, collection, the brain cached by the trader | build, recall | PostgreSQL, vector store |
| Configuration, logging, Telegram, schema, scripts | – | – | – |

What makes it hard, component by component, and what would make it right:

* **Loop, reconciler, state file, journal.** Four records of the same trade (broker,
  memory, file, database row) are written one after the other. A crash, an exception, a
  lost reply or a broker-side fill may come between any two. Right means: no close is
  booked twice or never, no position stays unmanaged, no symbol is doubled, and a restart
  never takes back what was booked.
* **Daily guards.** One account reading is used for a whole cycle while closes are
  filled, prices move, midnight passes and the operator changes the account. Right means:
  a halt closes the book and stays until its anchor changes, no halt on another account's
  money, and the target lock goes when the day stays short of the targets.
* **Exit stack.** A list of orders is computed from one snapshot and executed one by one
  against a moving market; what was executed reaches the file only at the end of the
  cycle. Right means: stops only improve, every partial close happens once and leaves a
  runner, every position ends.
* **Portfolio risk engine, cooldowns.** Counters and caps are fed by the same
  bookkeeping, by positions nobody checked when they were adopted, and by closes that are
  booked late, in any order, in another clock or by guess. Right means: an entry leaves
  the whole book within the caps, and nothing is entered against a ban or the record.
* **Sizing and placement.** A size goes through three limits and two roundings, and an
  order is sent again on new ticks and in other filling modes until one is taken. Right
  means: the size is what the limits allow, no more and no less, and no order or close is
  given up for a filling mode alone.
* **Schedule, state file, DRY_RUN.** The hour's cycle, its retries and the daily
  maintenance are driven by fields of a file whose write may fail or tear. Right means:
  no bar is missed, no maintenance runs twice, no close hits another position's row.
* **Backtest.** Windows, pauses, bans and a bar-by-bar exit stack jump over one another.
  Right means: nothing is decided with knowledge of the future or inside a ban, a trade is
  sold exactly once and keeps what its ladder locked.
* **Pump and memory.** Writers and the trader share tables and files with no lock, and
  all symbols share one transaction. Right means: no holes in the bars, features that
  follow the bars, and vectors compared with vectors of the same encoder.

`PROJECT.json` lists each hazard with its line, and the properties that watch it. A
hazard no property watches says why.

## 2. Modules

| module | models | role |
|---|---|---|
| `TradeLedger` | what the bookkeeping promises: open once, close once, count once, after the close, for good | abstract specification |
| `PositionBook` | loop, reconciler, state file, journal and broker around the book of positions | detailed specification, refines `TradeLedger` |
| `PositionBookProofs` | – | proofs |
| `DailyGuards` | `refresh_daily_guards`, `entries_allowed`, the close-out, the recheck, and when the loop calls them | specification |
| `DailyGuardsProofs` | – | proofs |
| `ExitStack` | `evaluate`, `_apply_actions`, `_manage` and the re-judgement for one real position | specification |
| `ExitStackProofs` | – | proofs |
| `EntryGates` | `RiskEngine.check_entry`, currency exposure, cooldowns, loss bans, performance pauses, and what feeds them | specification |
| `EntryGatesProofs` | – | proofs |
| `OrderPlacement` | sizing, placement gates, `place_market_order` attempt by attempt, filling modes, `close_position` | specification |
| `OrderPlacementProofs` | – | proofs |
| `TraderLoop` | when `run` starts a cycle, a retry, the maintenance; the state file with its torn write; virtual positions and their journal rows | specification |
| `TraderLoopProofs` | – | proofs |
| `TradeSim` | `simulate_trade` and the fill rules of the costs, bar by bar, as operators | used by `Backtest` |
| `Backtest` | the walk-forward loop of the engine around the trades of `TradeSim` | specification |
| `BacktestProofs` | – | proofs |
| `DataPump` | pump, backfill, tables and the shared transaction | used by `CaseMemory` |
| `CaseMemory` | the memory builder and the trader's brain, composed with `DataPump` | specification |
| `CaseMemoryProofs` | – | proofs, of `DataPump` too |
| `MCPositionBook`, `MCDailyGuards`, `MCExitStack`, `MCEntryGates`, `MCOrderPlacement`, `MCBacktest`, `MCCaseMemory` | – | instances for TLC (`TraderLoop` needs none) |

### PositionBook

`deals` and `symOf` are the broker: a ticket is unused, open ("in") or closed ("out"), in
a symbol. `journal` is the row of the ticket and where its closing figures come from.
`mem` and `disk` are the state dict and its file, reduced to the tracked tickets (`pos`)
and to how often `finalize_close` ran for each (`booked`, which stands for every counter
it bumps). `pc`, `ret`, `snap`, `todo`, `cur` are the loop: where it is, who called
`reconcile`, reconcile's snapshot of the broker, the symbols the entry cycle may still
enter, and the order being recorded.

An action is one stretch of code between two calls whose order matters: `ReadPositions`,
`Settle` and `Adopt` are `reconcile`; `CloseAll` is the CLOSE_ALL branch of
`_apply_actions` with `finalize_close` in it; `Order`, `Record`, `JournalOpen` are
`place_market_order`, the save of `_execute_entry`, and `journal_open`, in the code's
order; `Save`, `Stop`, `CycleError` are the ends of a cycle. Failures are alternatives
inside the action they strike, enabled by `FaultKinds` and limited by `MaxFaults`: the
process dies, a save returns False, the database is away for one call, deal history is
unreachable or has no exit deal yet, an order's reply is lost, an order is partly filled and sent again, an
exception ends the cycle, the position read raises or comes back empty. After a failed
save the file is as before; the file torn by the in-place fallback of `save_state`, and
DRY_RUN, are in `TraderLoop`. An order the broker has only placed (TRADE_RETCODE_PLACED,
which the connector accepts as well) is taken to be filled at once, and a save that fails to
leave the old file. Tickets are never reused, as at the broker.

### DailyGuards

Money is an integer. The broker holds `open` with floating profit `flo` in total; a close
realizes an arbitrary share of it (the last one the rest), and may slip by one unit. The
loop's `GuardPass` reads the account (`seen` keeps the equity read, 0 when the read
failed), applies `Refreshed` - rollover, loss, target and drawdown in the code's order,
with the percentage tests multiplied out - and puts the positions to close into `todo`.
`CloseFilled`, `CloseFailed` are the closes; on the event's own cycle the code goes
through the list twice, and the first rejection is then a stutter. `FastPath` and
`ManageDue` are the recheck on the two branches of the loop. `book` lags behind `open`
until `Manage` reconciles. `CycleError` is the except clause of `run`.

### ExitStack

One position. All prices are profits, `s * (price - entry)`, in twentieths of the ATR at
entry, so LONG and SHORT are one model. Volumes are in hundredths of a volume step (`Step`),
since a part is asked for in full precision and rounded twice: by `_apply_actions`
(`Rounded`), which skips what is not less than the tracked volume, and by `close_position`
(`Sold`), which takes the whole position when rounding leaves nothing. Without
the symbol's specs the first rounding does not happen. `FallsShort` are the volumes whose
quotient by the step lies below the whole number in floating point (0.3 by 0.1), so that
rounding loses a step. `bvol` and `bsl` are the broker's volume and stop; `mem`, `disk`, `pos`
are the tracked position in the dict, in the file, and in the copy the code works on.
`Evaluate` returns the list of the code, in its order, with its early returns, the one for a
position whose ATR is unknown among them; `Apply` executes it order by order; `Adopt` takes
up what a close has left. The market is not a variable, a read returns any price inside the
bracket. The broker may reject any order, so "the stop is on the wrong side of the market"
needs no rule of its own. `sold` is a ghost that counts executed partial closes, and `faults`
keeps the kinds of the failures so far: a lost reply, a blind resync, a missing tick or
missing specs leave the trader with a stop or a volume that are not the broker's, and
`LadderOnlyImproves` and `PartialKeepsRunner` are about the runs without one (`Answered`). The
virtual bracket of DRY_RUN is not in the model.

### EntryGates

Risk is counted in units of the account's risk; a position is its symbol, side and the
distance of its stop, negative when the stop is in profit. `book` is `state["positions"]`,
`gone` what the broker closed and nobody booked yet, `engine` the `RiskEngine` of the
running cycle, `held` its `open_symbols`. `FinalizeClose` is the part of `finalize_close`
that later entries depend on; it is a step of `Reconcile` (with the deal, or with the guess
made without one), of `OwnExit` and of `FlipExit`. `FlipTighten` is the rest of the
re-judgement, which moves a stop while the engine keeps the old one; `stale` marks a cycle
in which either has happened. An entry is filled at the price it was sized for. `Enter` is a candidate that passes
`Admitted` and `CheckEntry`; that the brain, the bar gates, the sizing (`OrderPlacement`) and
the broker also have to agree is the choice to take the action. `closes` is a ghost that keeps every
close, so that properties can be stated against the whole record instead of the lists the
code prunes. Deals carry the broker's clock, `Offset` hours ahead.

### OrderPlacement

One symbol. Prices are moves from the close of the signal bar in the trade's direction,
volumes are steps, money is in fixed fractions of a dollar chosen so that every
percentage is an integer. `Propose` is `_execute_entry` up to the sized order: the drift
gate, the slice and the ceiling, `Sized` with `_round_volume` on both sides of the notional
cap. `Drop` is whatever ends it early (zero lots, a veto, no tick, a refusal not worth a
retry). `Send` picks the filling mode, `Fill` and `Refused` are the attempts, each on a new
tick with the size and the stop of the first; `Refused` rotates the mode and keeps it in
`cache`. `Close` is `close_position`, which tries once and does not rotate. `takes` and
`announced` are the broker: the modes it accepts and the one its symbol information asks
for, which need not agree. `learnt` is a ghost. Lost replies and partial fills are in
`PositionBook`.

### TraderLoop

The loop with DRY_RUN on. An hour has three slots (before the entry delay, inside the
retry window, after it), and `clock` counts slots. One iteration is `Wake`, closes of
virtual positions, `Managed`, then `NoCycle`, `NoAccount`, `Blocked` or `BeginCycle` with
flips and entries up to `EndCycle`, then `Schedulers` and `Save`; `ReadBars` decides whose
bars a cycle gets, and `Stop` is a signal, on which the loop saves once more. `mem` and `disk` are
the fields of the state dict this depends on: positions, the ticket counter,
`last_entry_hour` and the maintenance date. `SaveState` is `save_state` of a process that
lives on: the file is replaced, or left as it was, or torn; `TornSave` is the death in the
middle of the direct write. `LoadState` answers with defaults for a torn file. `rows` is
the trades table with the prefix match of `notes LIKE 'ticket:<t>%'`: tickets are digits
in base `Base`. The maintenance process is a Boolean, since a second start is skipped
while it runs; a new process knows nothing of the one its predecessor started. Two ghosts
keep account of the hour's bars: `judged` has the symbols whose bar was out and looked at,
`skipped` those the code gives up without a look, for the reasons `NoBarMissed` lists.

### TradeSim and Backtest

`NextBar` is one pass of the loop of `simulate_trade`, in its order: swap, stop, target,
scale-outs, locks, retracement, time partial, time stop, Friday. Prices are profits in
twentieths of an ATR, the position is counted in 1/`Whole`. `spread` and `swaps` count what
the code charges, not its money. A bar is chosen when the walk reads it, out of `Shapes`.
`Backtest` is `SymbolBacktester.run`: `Refill` asks the brain for a window, `Skip` and
`Enter` judge one bar, `WalkBar` and `WalkEnd` simulate, `Book` keeps the cooldowns and
bans. Verdicts and the gates that look at feature values are the choice between `Skip` and
`Enter`; the session hours are in the model, with the thin hours of a symbol without an
Asian currency and the Sunday opening. The calendar decides what an hour guard and a bar label have to do with each other.

### DataPump and CaseMemory

Hours stand for bars. A table is the set of hours held and, among them, those whose row
was written while the bar was forming; features are computed from the whole table, so they
are the table they were computed from. `tx` is what the running transaction sees, `Commit`
is `get_conn` - a rollback when a statement has failed. Pump and backfill exclude each
other in time only as far as one starts after the other has ended: the trader's
maintenance never starts a second process, and an operator's backfill and the scheduled pump
are taken to wait, which no code enforces. An exception in the middle of a backfill leaves what
its earlier requests brought in the transaction, one in the indicators the bars without rows.
`Outrun` is what the broker's clock costs: the hours after a stored bar by which the
offset exceeds the headroom of a top-up.
`CaseMemory` adds the builder, in the code's order (fetch, fit and save the encoder,
recreate the collection, write in batches by time), and the trader's brain, which is
loaded once and kept. An encoder is the number of the build that made it. One `LabelBars`
stands for the label a build fetches on (4 hours) and the horizon a recall filters by: they
agree as shipped, where `BRAIN_LABEL_HORIZON` is 4h.

### Slips

Some definitions are marked `Slip` and used by nothing. Each is the definition after it,
changed the way a plausible regression would change it. Putting it in the place of the
original must break the property it is listed with in `PROJECT.json`, in the property's
own run: it shows that the run can see that mistake.

## 3. Runs

| run | instance | states | shows |
|---|---|---|---|
| `book` | 3 tickets, 2 symbols, 2 failures out of crash, lost reply, missing history, lost journal write, exception | 341 988 | a close is counted once, one position per symbol, no open position's row is closed, journaled trades survive, a failure spoils the row of at most one trade; `PositionBook` implements `TradeLedger` |
| `book_faults` | 2 tickets, 2 symbols, 2 failures out of all nine kinds | 93 808 | one failure overcounts by at most one; every position is managed and every close counted in the end, whatever fails |
| `guards` | 2 accounts ($10 000 and $4 000, unit $100), 2 slots, 2 orders, 2 days, readings may fail | 369 413 | no phantom halt, a lost day is over, a halted book gets flat, a close-out short of both targets resumes |
| `exits` | one position of 4 steps with or without a known ATR, shipped thresholds, 2 prices, 1 hour, 1 failure out of all six kinds | 798 567 | while the connector answers truly, ladder and trailing never loosen the broker's stop and partial closes keep a runner; a failure costs at most one repeated partial close; the time stop ends a position with an ATR |
| `gates` | 2 pairs that share a currency, 3 positions, 3 hours, broker clock 1 hour ahead, deal history may be missing | 2 791 712 | no entry past a cap on the number of positions or their risk, past a currency cap when the re-judgement changed nothing, or against the symbol's record |
| `orders` | 4 symbols (small steps, a large smallest order, a small notional cap, no contract size), 2 accounts, 3 tiers, 4 prices, 3 attempts | 21 735 | the size is the largest the limits allow, no order dies of its filling mode alone, the mode that worked is kept |
| `loop` | 2 symbols, 3 positions, 2 hours of 3 slots, a day of 2 hours, 1 failure out of all eight kinds, tickets in base 2 | 635 790 | no bar missed in the retry window but for the named reasons, maintenance once a day and failure, a close closes its own row, the file catches up |
| `backtest` | crypto calendar of 13 hours around a Sunday midnight, forex calendar from Friday evening to Monday, 6 bar shapes, shipped thresholds, 3 patterns of missing data | 49 704 | a trade adds up and keeps its locks, trades and bans keep their distance, no verdict is missed |
| `pump` | 2 symbols, 8 hours with the market closed in one, broker clock 3 hours ahead, 1 failure out of four kinds, 2 builds from 8 rows up | 265 432 | holes come from skipped requests and the broker's clock only, features follow the bars, the pump and the backfill repair, a fresh brain matches its collection |
| `blind_read`, `weekend_label`, `flip_hedge` | | | violated: see the findings |

Why the bounds are enough to be of use:

* Three tickets in two symbols are one more than the symbols, so a symbol is used again
  after a close while the other one is still open; two failures allow a crash in the
  recovery from the first. Every failure kind is struck by some run, and the two tickets
  of `book_faults` still meet in one symbol.
* With unit $100 the dollar limits (2) bite no later than the percentage limits (target 2 %,
  loss 5 %) on the large account, and the target of 2 % bites before the dollars on the small one,
  so that a lock set for the percentage meets the recheck for the dollars; `MaxMove` 1 per position keeps every
  limit within reach through two trades. Two days are one midnight; `MaxDay` only ends
  the behaviour, it blocks no action but `Midnight`.
* `exits`: the price 4 is below every rung and 44 beyond all of them; what lies between is
  reached where the broker rejects a part of a list. One hour reaches both the time partial
  and the time stop, since their bars are set to 1. Of four steps, three fall short: the
  first part sold leaves three, and a close of those leaves one to be adopted. The rung between
  1.5 and 1.75 ATR alone is not visited by these prices; in `backtest` the bar that closes
  at 19 after 36 visits it.
* `gates`: two pairs with the dollar on opposite sides make hedges, and three positions
  are one more than `MaxPositions`, so an adoption can overfill the book. Bans (1 and 2
  hours) end within the three hours, so that an entry after a ban occurs; the repeat ban
  and the pause need two closes of one symbol, which three tickets allow.
* `orders`: with slices of $80 and $500 and steps that lose $0.20 to $3, each of risk,
  ceiling, notional cap, largest and smallest order decides a size somewhere, and the
  notional cap also cuts a size below the smallest order. The ceiling is 0.3 % of equity
  there: the shipped 0.5 % never binds, since a slice of 20 % risks 0.4 % at most. Three
  attempts are the shipped number and the number of filling modes; prices lie on both
  sides of the drift gate.
* `loop`: six slots are two hours, one midnight and one maintenance hour; base 2 makes
  ticket 1 a prefix of 2 and 3, as ticket 1 is of 10 to 19. One failure, of any kind, is
  the limit of what holds: with two, see the observations and `ClosesAreOwn`.
* `backtest`: the bans (3 and 4 hours) and the pause are shorter than the calendars, the
  window of 4 bars is shorter than a trade and a pause together, and both calendars have
  a bar at the rollover hour; 11 to 13 bars hold up to three trades.
* `pump`: offset 3 is the broker's summer time (`live_trader.py:83,108`), one more than the
  headroom of a top-up: a top-up after one hour leaves a hole, and a bar stored while it was
  forming at hour 1 lies inside the window of a backfill at hour 4. The gap in the market lies
  inside the reach of the guard and of a top-up, recalled states have outcome windows that do
  not cross it, and two builds are the rebuild.
* There is no symmetry in the configurations: most of them check liveness, and the two
  symbols of `gates` and `pump` are not interchangeable.

Deadlock is checked in `book`, `book_faults`, `guards` and `orders`. In the other runs the system may
stop: a position is closed, booked and saved; a backtest has ended; a clock has reached its
bound.

**Fairness.** `PositionBook`: weak fairness of the loop's own steps, one for each part of
the cycle, and of the restart (an unattended process is restarted by whoever runs it; the
code has the recovery, not the supervisor, so this is an assumption about operations).
Crashes and failures are bounded, and no fairness asks the broker or a failing call for
anything. `DailyGuards`: weak fairness of the loop; strong fairness of the manage pass,
because a cycle that finds it due runs it (`LIVE_MANAGE_EVERY_SECONDS` is compared with a
monotonic clock, so it cannot be put off for ever) and not every pass raises; strong
fairness of a close, because it is asked for on every cycle and a broker does not reject
for ever. `ExitStack`: time passes, the loop goes on, and the same about a close. `TraderLoop`: weak
fairness of the iteration and of the restart, for the reasons given for `PositionBook`.
`CaseMemory`:
weak fairness of the clock and of the running job (a job does not hang: connector and
driver calls return), strong fairness of starting the pump, which the operator schedules
hourly and the maintenance daily; no fairness for backfill, builder or trader. `EntryGates`,
`OrderPlacement` and `Backtest` state no fairness: their properties are about states and
steps.

## 4. Findings

1. `blind_read`: `connector.positions` turns MT5's "read failed" (None) into an empty list,
   so reconcile books every open position as closed, and adopts it again a minute later.
2. `weekend_label`: the look-ahead guard of the backtest counts hours, the label counts bars.
   Across a weekend a decision recalls outcomes of bars that have not closed. It bites
   symbols with an Asian currency; the thin hours keep the others out until later on Monday.
3. `flip_hedge`: the risk engine of a cycle is built before its flip exits and is never told
   of them. A closed leg of a hedge keeps netting the other one, and a later entry of the
   cycle takes a currency over its cap.

Behaviours met while modelling that no run claims anything of. Where a property is named
it is defined in the module, and TLC finds it violated in the circumstances given:

* `journal.py:14-16` (and 79-80) says the next reconcile pass re-attempts a failed close write;
  `finalize_close` ignores the result and drops the ticket, so the row stays open for ever
  (`RowEventuallyClosed` with the failure `journal`).
* `journal.py:7-8` says an exit is journaled "with the broker's truth [...] never our
  estimates"; without deal history the row is closed with an estimate, and with an exit deal
  that is late with the entry deal (`NeverEstimates` with `history`). `RowsTellTruth` says what
  does hold: one failure spoils the row of one trade at most.
* An order that returns 10010 (partially filled) is sent again at full size: two positions
  in one symbol (`OnePerSymbol` with `partial`).
* The target lock is rechecked with the account reading from before the close-out, or with
  none, so it can be released although the target has been banked (`ReleasedOnlyShort`), where
  `live_trader.py:714` says "Only evaluated when flat (equity == balance = truly banked)".
* The recheck knows the dollar target only. A lock set by `settings.py:325`, "+2% day -> stop
  opening new trades", is released by the next recheck and set again by the next guard
  (`ReleasedBelowPercent`). `ShortfallResumes` therefore speaks of an account short of both.
* `evaluate` judges every stop against the same snapshot, so `flip_tighten` (-0.75 ATR) can
  follow `breakeven_lock` (+0.10 ATR) in one list and undo it (`StopOnlyImproves`).
* A position skipped for want of a tick on the manage pass is not resynced (`continue`
  precedes the write-back), and the entry cycle's re-judgement then works with the stale
  volume and stop. This is why `LadderOnlyImproves` and `PartialKeepsRunner` ask
  for true answers.
* When `symbol_info` returns nothing, a part reaches `close_position` unrounded: half of the last
  step is less than the position, rounds to nothing there, and closes all of it
  (`RunnerWithoutSpecs`).
* A close of a volume whose quotient by the step falls short in floating point leaves a step at
  the broker. `_apply_actions` finalizes the trade all the same ("position is gone"), and the rest
  is adopted as a new position in the next cycle (`FinalizedIsGone`).
* A position adopted without stop and without bars for an ATR gets no exits at all, the time
  stop included (`TimeStopClosesAll`); `ADOPTED_TIME_LIMIT_ENABLED` (`settings.py:319`) is read
  nowhere.
* With the broker's clock 3 hours ahead, its summer time, a top-up after one hour leaves out the
  first new bar, and no later top-up fetches it (`HolesOnlyFromSkips`): the headroom is two
  bars, and an hourly pump then gets three bars every fourth hour, since the table is ahead of
  the UTC hour in between, and loses the fourth. `run_pump.py:5` says that it tops up "raw bars since the newest stored
  bar". A bar stored while it was forming is never refreshed by the pump
  (`OnlyNewestIsPartial`), since the stored bar is not newer.
* `backfill_history.py:6-7` says "the ON CONFLICT clause makes repeats a no-op" and
  `docs/SETUP.md:174` that a re-run ignores duplicates; the clause is DO UPDATE, and a
  re-run replaces the rows. `BackfillRepairs` holds because of that: with the documented behaviour
  a half-formed bar would stay.
* After a database error the pump's transaction is aborted, and symbols it reports as done
  are lost with it (`ReportedMeansStored`).
* Until a rebuild ends, or after one that died, the trader compares vectors of two encoders
  (`BrainMatchesMemory`); the hour guard of `recall` has the weekend gap of finding 2
  (`RecalledOutcomesKnown`).
* A gap through the stop is filled at the stop, a price the bar never traded
  (`StopFillsAreReachable`), and small scale-outs can leave a walk with nothing to sell
  (`RunnerLeft`). The entry bar itself is never examined for stop or target.
* The hour counts as done after a cycle that got no account reading, and the retry set is
  lost by a restart; a symbol whose bars cannot be read is not put into the set, one that is held
  is not put there when its bar is late, and while a guard forbids entries nothing is retried.
  `NoBarMissed` names all five reasons. The late bar of a held symbol needs no failure
  (`HeldRejudged`), where `settings.py:300` says "the brain re-judges every open position each
  cycle". A maintenance that could not be started is not tried again that day.
* A state file that cannot be parsed is replaced by defaults and the virtual tickets start
  again at -1. Together with one lost journal write a close can then hit another position's
  row (`ClosesOwnRow` with `MaxFaults = 2`).
* A close uses the cached filling mode, or after a restart the announced one, and neither
  rotates nor retries: where the broker does not take the mode it announces, a position
  held over a restart is not closed by the trader (`HeldCanBeClosed`) until an order of the
  new process has rotated.
* The attempts after a refusal keep size, stop and drift check of the first tick. An order
  can fill beyond the gate that settings.py:218 calls "skip if the live price moved more
  than this" (`NoChasing`), and lose more at its stop than it was sized for
  (`LossWithinRisk`), which settings.py:197 calls a hard ceiling.
* A stop in profit counts as risk by its distance to the entry, and an adopted position
  without stop and ATR counts as none; without deal history every close is taken for a
  stop-out; bans of booked deals last longer by the broker's offset. `gates` takes the code
  as it is: the caps and bans hold with these rules.

## 5. Proofs

The proofs hold for every value of the constants that the modules' named assumptions allow.
Every invariant and every action property of the passing runs is the conclusion of a theorem.

`PositionBookProofs`, for any tickets, symbols, failures and bound on their number:

* `TypeCorrect`. `TypeOK` is inductive with one more fact (an order being recorded has a
  ticket).
* `BookedAtMostOnce`, `ClosedRowsAreTrue`, assuming `NoBlindReads` (finding 1 shows it is
  needed). `CountedOnce` alone is not inductive: reconcile books from a snapshot taken
  earlier. `CountInv` adds that what is in the snapshot is not booked, that what it lacks
  is closed, that memory is never behind the file, and that only issued tickets are held.
* `BookImplementsLedger`, from the same invariant: every step maps to a step of
  `TradeLedger` or to a stutter. A save maps to `Count` of all closes booked since the
  last one, which is where "memory is never behind the file" is used.
* `OnePositionPerSymbol`, assuming `HonestReads` (no blind or failed position reads, no
  partial fills). The entry cycle looks only at its own book, so the invariant
  `CoverInv` says that the snapshot and then the book cover the broker's positions up to
  the start of the entry cycle, and that no symbol still to be entered has a position at
  the broker, whoever learnt of it.
* `JournaledTradesAreDurable`, from `DurableInv`: when `JournalOpen` is due the ticket is
  already in the file, and memory knows every ticket that the file knows, as tracked or as
  booked. The property itself makes failed saves the excuse.
* `OvercountIsBounded`, with no assumption on failures, blind reads included. A ticket that
  can still be booked (held in memory or in the file, open at the broker, or in the
  snapshot of a reconcile under way) has had at most one booking per failure so far
  (`OvercountInv`): a blind read is the failure that pays for finalizing an open position.
* `RowsTellTheTruth`, assuming `NoBlindReads`. A step that fails spoils one row and counts one
  failure, a step that does not fail spoils none: `RowInv` says that the order being recorded
  is not booked before its row is written, and that there is no other.

`DailyGuardsProofs`, for any accounts, slots, balances and limits:

* `TypeCorrect`.
* `LossCapsTheDay`. The entry cycle does not ask the guard again before each order, so the
  invariant `EntryInv` ties the program counter to the guard that let it in.
* `BreakerKeepsOut` (`BreakerHolds`, which no run checks), from the same invariant: once the
  drawdown breaker has fired, no order is sent before the next anchor.
* `NoHaltOnPhantomProfit`. `PhantomInv` says that an account on which nothing was traded
  has its start balance and nothing open (`UntouchedAccounts`), and that a guard anchored
  to it has exactly that balance as anchor and peak (`QuietGuard`); no limit fires then,
  which needs a small lemma on products of positive integers.

`ExitStackProofs`, for any prices, sizes, thresholds, failures and volumes that fall
short; the rungs of the ladder are in order, as shipped (`LadderAssumption`), and the smallest
volume does not fall short (`SizeAssumption`). All follow from one invariant (`ListsInOrder`):

* `LadderNeverLoosens` and `RunnerIsKept`. The code computes a whole list of orders from one
  snapshot, so what matters is what is left of the list after each order. While every answer
  was true (`Truthful`), the working copy has the broker's stop and volume (`CopyTrue`), and
  the stops left in the list start no lower than the broker's and never fall
  (`ListClimbs`). The tightening of a flip, which may lower the stop, is the last of a
  list, so it cannot be followed by a rung that was judged against a higher one.
  For the runner both roundings count: a rounded part is a whole number of steps, rounding it
  again loses a step at most and never all of it (`RoundedAgain`), the broker's volume stays
  whole (`WholeVolume`), and while every answer was true the copy takes the volume for no more
  than it is (`CopyTrue`).
* `PartialsOnce`, whatever fails. A list asks for each partial close once, and for none
  whose flag is set (`AskedOnce`); a flag is missing after the close only where a failure
  lost it, and each repetition has a failure of its own (`SoldOnce`), or where a close has left
  one step, of which no part can be sold (`LastStep`).

`EntryGatesProofs`, for any symbols and currencies, caps, bans, clock offset and any entries,
adoptions, stop moves and closes. The offset is at most the performance window
(`OffsetAssumption`; hours against thirty days). The invariant (`RecordKept`):

* `RecordHeeded`. The code keeps one ban per symbol and prunes its lists as they grow,
  while `NoEntryAgainstRecord` looks at all closes ever. `BanInv` says that the stored
  cooldown and ban end no earlier than what each close, and each pair of stop-outs close to
  each other, asks for. `PerfInv` says that the list of a symbol has lost only
  closes too old for any window to come.
* `CapsKept` and `FreshCapKept`. `EngineInv` says that the engine of the cycle counts every
  position of the book with no less than its risk, and, while the re-judgement has changed
  nothing, exactly the book. A flip exit leaves the engine with a position too many, which is
  safe for sums of risk and not for net exposure: this is finding 3. The facts about
  sums (adding a term, leaving one out, smaller terms) are proved with the recursive function
  behind `MapThenSumSet`, by taking a smallest set on which two sums differ.

`CaseMemoryProofs`, of `DataPump` and `CaseMemory` together, for any market, clock offset,
chunk size, failures and builds (`MemoryKept` is the invariant):

* `RowsFollowBars` and `WindowRepaired`. Nothing is visible before the job commits, and a job
  may be followed by one that sees half of what it needs. `WorkInv` says what a job
  owes each symbol it has finished: its rows are its bars and, for a backfill, its window is
  whole; a backfill computes no features, so `WindowRepaired` is about bars alone. `FeedInv` says
  that no table is ahead of the terminal and no rows are ahead of their bars, `GrowInv` that a
  transaction only adds.
* `HolesExplained`, for any clock offset, assuming `Reach`: the modelled history is no longer
  than a backfill reaches. An outage longer than that leaves a hole as well, so the assumption is
  needed. `HoleInv` says, in the tables and in the open transaction, that every bar from hour 1
  up to a stored one is stored, was skipped, or follows a stored bar by no more than the offset
  exceeds the headroom (`HolesIn`). `HolesAtTwo` is what follows for a clock at most two hours
  ahead: holes come from skipped requests only.
* `FreshBrainFits`, from `BuildInv` and `PointsInv`: a build that keeps the collection has
  fetched every point in it, because a state once labelled stays labelled.
* `OutcomesWereKnown`: without gaps the hours of the guard are as good as the bars of the
  label, for any number of them.

`TraderLoopProofs`, for any symbols, any base of the tickets, any length of the day, any
failures and any bound on them:

* `TypeCorrect`.
* `MaintenanceIsRare`. The date that keeps the maintenance from starting again is set in
  memory and saved later, so `MaintInv` counts: when the memory of a running process, or
  the file a new one will read, does not have today's date, there were no more starts
  than failures. A date is lost only by a crash before the save, or by a torn file.
* `EveryBarIsJudged`. `BarInv` says that, once the hour is marked as done in memory or in the
  file, every symbol was judged with a bar that was out, is left to be retried, or was given up
  for one of the reasons of `NoBarMissed` (`Known`), that a cycle works through all the symbols
  it is for, and that neither file nor memory is ahead of the clock.
* `ClosesAreOwn`, assuming `FilesKept` (no save of the state file fails or tears; every other
  failure any number of times). The row is found by the prefix of its ticket and the newest
  one wins, so `RowInv` says that no row of a symbol with a remembered position has a later
  ticket, that a symbol has one remembered position, and that memory and file agree on
  the next ticket. The run covers one failed save in addition; a file lost together with a
  journal write breaks the property (see the observations), so the assumption cannot be
  dropped.

`BacktestProofs`, for any calendar, window, ban and threshold:

* `TypeCorrect`, with `WalkInv`: a simulated trade starts on the bar after its decision,
  stays inside the calendar, and was decided outside every pause and ban.
* `TradesAreApart` and `BansAreKept`. `RecordInv` says that the pause and the list of
  stop-outs the loop goes by say no less than the trades it has made: the pause covers the
  last one, every stop-out is in the list, and the ban outlasts what each of them asks for.
* `EveryCandidateIsAsked`, from `VerdictInv`: every candidate in what is left of the window
  has been asked about.
* `LocksAreKept`, assuming `LadderFits` (no rung is armed from the start and no lock lies
  above the target, as shipped). `LockInv` says that the stop a bar starts with is no lower
  than what the peak of the earlier bars promised.
* `TradesAddUp`, assuming `RungFits` (two scale-outs are no more than the position; shipped
  0.33 each). The code does not cap the first scale-out by what a time partial has left, so
  a larger share would sell more than there is. `AddsInv` carries the sum of the pieces and
  the number of rollover dates up to the bar reached, for which dates must not fall.
* `TradesEndInTime` (`EndsInTime` of `Backtest`, which no run checks), for any positive
  time limit.

`OrderPlacementProofs`, for any symbols, accounts, tiers, limits, prices and brokers, and any
number of attempts from three up:

* `TypeCorrect`.
* `SizeIsRight`. `k * b <= a` exactly when `k <= a \div b` (`FitsQuotient`), and rounding keeps
  every size within the symbol's limits that is not above what was asked (`RoundedFacts`);
  with both, cutting a rounded size and rounding again loses no step (`SizedIsLargest`).
* `EveryModeIsTried`. `RotationInv` says that, while the mode alone was refused, the next
  modes in turn lead back to ones already refused; a third such refusal would leave the
  broker no mode at all.
* `LessonIsKept`, from the invariant that an order is sent in the mode of the cache.

Only model-checked: liveness, which TLAPS does not prove (`EventuallyManaged`,
`EventuallyCounted`, `HaltedGetsFlat`, `ShortfallResumes`, `TimeStopCloses`,
`FileCatchesUp`, `PumpCatchesUp`); `ClosesOwnRow` with one failed save. Of the properties that
the findings and observations break, those with a theorem have it under the assumption named there.

## 6. Not modelled, and the plan

`PROJECT.json` gives the status of every component. Left out of modelled components:

* the gates of the entry cycle and of the engine that look at feature values, and the
  brain's verdict: floating-point functions of market data whose result is a free choice of
  `EntryGates`, `TraderLoop` and `Backtest`, so what is shown holds for each; the lot sizing of
  the backtest, which repeats the one in `OrderPlacement` without steps and limits;
* heartbeat and end-of-day report: messages, with one date in the state that nothing else
  reads; `_lock_breakeven`, which replaces the close-out when `DAILY_TARGET_CLOSE_ALL` is off
  (it is on); the virtual bracket of DRY_RUN, which is one more exit of `TraderLoop`;
* money amounts of the backtest, its metrics and reports; connecting, symbol resolution and magic
  numbers of the connector; the symbol registry of the pump.

What is left to do, most important first:

1. `ClosesOwnRow` after one failed save, for any number of symbols and hours: the theorem
   excludes what the run shows for two symbols.
2. The virtual bracket of DRY_RUN in `ExitStack`, symbol resolution of the connector.

Out of scope: indicator and similarity arithmetic (floating point), reports, logging,
Telegram, schema and scripts (output and declarations only), the empty packages of later
phases, and the terminal and the broker themselves, which appear as far as the connector
shows them and are marked external in the map.

Checking: `tlc -workers 2 -config X.cfg M` for a run, `tlapm M.tla` for the proofs.
