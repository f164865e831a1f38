# A verification project for Nifty-Guardian

Nifty-Guardian is a paper-trading platform for the NIFTY index: a Python/FastAPI
backend (`src/backend/app`) that replays or receives candles, runs a breakout
strategy on them under risk limits, and keeps a simulated book; a research side
that backtests, optimises, validates and simulates the same strategy; and a React
dashboard (`src/frontend`) that starts, pauses and watches it. This directory
holds TLA+ modules that model the parts of it where order, state and concurrency
decide whether it is right, TLC configurations that check them on small
instances, and proofs, checked by TLAPS, of what holds for every instance.

`PROJECT.json` lists, for every definition, the lines of the source it models
(`map`), the runs, the hazards the properties are aimed at, and, for every
property of a passing run, a mutant of the model that the property catches.

Contents: 1 the system, 2 the modules, 3 the runs with their bounds and fairness,
4 what is proved, 5 what is abstracted or left out, 6 findings and
observations, 7 the plan.

## 1. The system

| component | state it keeps | operations | what makes it correct |
|---|---|---|---|
| Trading cycle: `runtime/event_processor.py`, with `trading/conditions`, `trading/risk`, `trading/decision` | open position id, stop, target, last exit, trades and losses of the day, current date | `process_candle`: day roll, warm-up, exit check, entry check, marking | one trade at a time; loss per trade and per day bounded; trade count, cooldown and hours respected; exits at the close |
| Market reading: `trading/indicators`, `context`, `strategy` | none: functions of the history | indicators, classifications, the vote, the recommendation | bullish and bearish rules mirror each other; a recommendation fits the context shown with it |
| Position book: `paper_trading/position_manager.py` | positions | open, mark, exit, list | a closed position never changes; realized P&L is what exits realized |
| Paper account: `portfolio_manager.py`, `performance_monitor.py` | cash, daily P&L, peak equity; wins, losses, drawdown, latencies | record a cash change, snapshot; event handlers | figures kept incrementally by different objects agree with the book |
| Orders and broker: `order_manager.py`, `paper_broker.py` | orders and their states | create, validate, submit, cancel | legal transitions only; one fill per order |
| Runtime engine: `runtime_engine.py`, `session_controller.py`, `scheduler.py` | session state, iterator, history, processed count | `run`, `_step`, auto-stop, start/pause/resume/stop | no candle lost or repeated; states move legally; a RUNNING session is driven |
| Dashboard runtime service: `api/dashboard/dashboard_service.py` | one session, one lock, an observer of events | start, pause, resume, stop, replay; read-only reports | stop and replay take effect; a report fits together |
| Event bus, journal, health: `event_bus.py`, `execution_journal.py`, `health.py` | subscribers, entries, counts | subscribe, publish, record | synchronous, in order; counts are those of the book |
| Live orders: `live/order_executor.py`, `brokers/` | order ids, last known statuses | submit with retry, cancel | what is recorded of an order is true at the broker |
| Live session: `live/live_session.py`, `live_market_feed.py`, `reconnect.py`, `live_runtime.py` | session state, feed flags, queue | connect, pause, resume, stop, emergency stop, reconnect | a stop disconnects and is final; the engine's thread ends |
| Live safety: `live/safety_manager.py` | orders and loss of the day, open positions, failures, switches | check before an order; record; trip, reset | limits of a day hold for a caller that obeys |
| Signal engine: `signals/`, `notifications/`, `api/signals` | dummy trades and their positions, cooldown and count of the day, sent ids, last report | handlers of market data, fills and positions; notify; start/stop | each trade announced once, paired with its position, ended for the true reason; alerts limited; the day's report complete |
| Data platform: `data/` | datasets, instruments, cached queries | import, append, query | a cached answer is never staler than the import; what is not forced is clean |
| Backtest and analytics: `trading/backtest/`, `trading/analytics/` | none between calls | run over a history, report | the same limits as the live cycle; figures computed twice agree |
| Monte Carlo: `monte_carlo/` | none between calls | perturb, simulate, measure | a perturbation changes what it says and no more; tails in order |
| Walk-forward, optimisation, research: `validation/`, `optimization/`, `research/` | none between calls | windows, grid search, ranking, reports | training and test data disjoint; the best is what is tested; counts add up |
| Configuration: `config/`, `paper_trading/market_session.py` | none: models, constants, a catalogue | validate, describe, sweep | the catalogue tells what the validators do; a sweep stays legal |
| Frontend services: `restDashboardService.ts`, `signalEngineService.ts` | the snapshot shown | poll, act | bounded staleness; a button's effect is shown; in the end the display is right |

How they interact. One candle is one synchronous call chain, without awaits:
`RuntimeEngine._step` → `EventProcessor.process_candle` → conditions, risk and
strategy → `OrderManager` → `PaperBroker` → `PositionManager` →
`PortfolioManager`, and every manager publishes events which `EventBus` hands to
its subscribers (journal, monitors, observer, signal service) before the publishing call
returns. The concurrency is around that chain. FastAPI runs the (synchronous)
action endpoints in a thread pool; `DashboardRuntimeService` serialises them
with a lock; `start`, `resume` and `replay` each spawn a daemon thread that runs
the engine and takes no lock. Read-only endpoints read the same objects, also
without a lock. The signal engine drives a second engine from a live session: one
thread pushes the feed's candles into a queue, another takes them out, and
whoever has the session may stop or reconnect it. Two browser services poll the
backend on a timer and act on it, and never wait for each other or for themselves.

What is hard, then, is (a) the arithmetic of limits over days, since counters
are reset by the day roll while a position is held across it; (b) a candle that
closes a trade and may open the next in the same call; (c) figures kept apart by
objects that only hear of each other through events; (d) threads that act on a
session state they read before another thread or request changed it; (e) the
broker connection, its retries and reconnection; (f) clocks: naive time stamps
meeting the host's time zone; (g) requests and their answers out of order; (h) on the
research side, boundaries: the candle a window begins on, the metric that is missing, the
range that is mirrored by hand. `PROJECT.json` lists each such place ("hazards")
with the properties on it.

## 2. The modules

| module | models | extends |
|---|---|---|
| `TradingPromise` | what a session promises, abstractly | |
| `TradeCycle` | `process_candle` and all it calls, one candle a step; implements `TradingPromise` | |
| `TradeCycleProofs` | the invariants of `TradeCycle`, its hours and setups, and the refinement, proved | `TradeCycle` |
| `PaperAccount` | the cycle with cash, equity, monitors, journal, observer and what a GET shows | `TradeCycle` |
| `SumLemmas` | sums, products and maxima over finite sets: the facts the proofs about money cite | |
| `TradeSteps` | one candle at the grain of single accesses, with GET requests in between | |
| `RuntimeHost` | the service, its lock, the session machine, the engine threads | |
| `RuntimeHostProofs` | a RUNNING session is driven, candles are accounted for; what holds without `resume` | `RuntimeHost` |
| `LiveOrders` | an entry on a real broker that fails and fills in its own time | |
| `SignalEngine` | the cycle with the signal service, its filter, its trades and the messages sent | `TradeCycle` |
| `MCSignals` | its instance: fewer candles on a later day | `SignalEngine` |
| `ListenerProofs` | what listens to the cycle, against the book: the account's counters, drawdown and monitors, and the signal engine, proved | `PaperAccount`, `SignalEngine`, `TradeCycleProofs`, `SumLemmas` |
| `LiveSession` | live sessions: state machine, feed, queue, engine, service, operators | |
| `LiveProofs` | the safety of `LiveOrders` and of `LiveSession`, proved | `LiveOrders`, `LiveSession` |
| `SafetyGates` | the safety manager and the caller it is written for | |
| `DashboardClient` | the two polling services of the browser, over one backend | |
| `DashboardProofs` | what a GET may see in the middle of a candle, and what of it a page shows, proved | `TradeSteps`, `DashboardClient`, `SumLemmas` |
| `DataPlatform` | import, append and query over a cache | |
| `MarketReading` | indicators, context, the strategy's vote | |
| `Backtest` | `run_backtest`, one candle a step, and its report | |
| `Analytics` | the analytics of a finished backtest | `Backtest` |
| `MonteCarlo` | simulations of a finished backtest | `Analytics` |
| `WalkForward` | windows, grid search, ranking, validation | |
| `Parameters` | validators, catalogue, parameter space, market calendar | `WalkForward` |
| `Research` | one specification in which each of the seven jobs above runs by itself | `MonteCarlo`, `Parameters`, `DataPlatform`, `MarketReading`, `SafetyGates` |
| `MCResearch` | its instance | `Research` |
| `ResearchProofs` | the gates, the windows and searches of a validation, the store, the configuration, the trades and books of a backtest, proved along every job | `Research`, `SumLemmas` |
| `FigureProofs` | what is computed of candles and trades, proved: readings, a backtest's figures, simulations | `ResearchProofs` |

### TradeCycle

One step is one call of `process_candle`. This is exact when one thread drives
the engine; `RuntimeHost` is about when it does not. The step is one of
`WarmupCandle` (returns early), `HoldPosition` (the open position survives the
exit check and is marked) and `FlatCandle` (no position is open once the exit
check is over, so the entry check runs on the same candle). The last is one
action because the code runs both checks in one call: the exit's loss, cash
change, clearing of the pointer and time of closing are all in place when the
entry check reads them (`ClosedAtAfterExit`, `LossAfterExit`).

| variable | code |
|---|---|
| `seen`, `now` | length of the history; time stamp of the last candle |
| `currentDate`, `tradesTakenToday`, `realizedLossToday` | the fields of that name |
| `openId`, `stopLoss`, `target`, `lastTradeClosedAt` | `_open_position_id`, `_open_position_stop_loss`, `_open_position_target`, `_last_trade_closed_at` |
| `positions` | `PositionManager._positions` |
| `ledger` | history variable: when each position was opened and closed |

Abstracted: prices and money are whole units, ticks for one (the code uses floats, rounds
nothing in these paths; proportions and comparisons are kept, and the position
size is the code's floor division); the strategy and market context are a choice of the
candle (`signal`), since no property of the cycle depends on why a breakout was seen
(`MarketReading` is about that); the
decision's score is not used by the processor and is left out. The clock is kept: a
candle carries a day and a minute, and `HostLag` is how far the host's clock is
behind market time, because `MarketSessionService` converts a naive stamp as if it
were in the host's zone while all other conditions read it as market time. Candles
come in increasing time order, as in the data sets the repository ships; the loader keeps the file's order.

### PaperAccount

Each step is a `ProcessCandle` step of `TradeCycle` joined with everything else that happens
inside the call: `RecordCashChange` (called by the exit check), `OnPositionUpdated` (the
performance monitor's handler), `Snapshot` (cash plus open marks, peak, drawdown; skipped
while warming up), `Publish` (what the monitors count and the journal records, per type of
event) and `Observe` (the dashboard's observer, which keeps the candles and the last approved risk
decision). `Response` is what `dashboard_snapshot` makes of all this between two candles, and
`EmptyResponse` what it answers without a session. `equities` is a history variable.
The levels of a decision that no order follows are kept only as "some decision" (`Unfollowed`).

### TradeSteps

The other half of the dashboard: a `GET /dashboard` runs in a request thread
while the engine's thread is somewhere in a candle, and it writes too, since
`PortfolioManager.snapshot()` moves the peak. A step reads or writes one
shared thing; a loop over `_positions.values()` is one step per position and raises if the book
has grown under it. What a candle decides (exit, entry, mark) is a choice here; `ForgetPosition`
leads to the snapshot and not to the entry check because of the cooldown that `TradeCycleProofs` shows at
work. The fields of the response are filled in the order `dashboard_snapshot` evaluates them, on
which `ResponseCoherent` depends.

### RuntimeHost

`sessions` holds every session ever built, the last being the service's
`_session`: replay drops a session but its thread goes on with it. `runners`
holds every thread spawned, with the point of `run()`/`_step()` it has reached.
`lock` is held across two steps only in `replay()`; in the other endpoints
whatever is done under the lock that concerns the model is one step, and an
endpoint that is refused changes nothing.

*What a step is.* CPython switches threads at calls of Python functions and at
backward jumps. `SessionController._transition` looks the target up and assigns
it with no such point in between, and neither the iterator's `next()`, nor
`list.append`, nor `_processed_count += 1` has one, so each is one step. Between
them, everything is a switch point: `run()` reads the state in one step and acts on
it in another.

*Inside `process_candle`.* A thread closes its position (`ClosePosition`), forgets
it (`ForgetPosition`), opens one (`OpenPosition`), or none of these, and counts the
candle. What it decides is `TradeCycle`'s. With two threads inside at
once, a thread may find the position it is about to exit or mark already CLOSED,
its pointer None, or the book growing under its iteration, and `PositionManager`
then raises. `beaten` says that another thread has changed the book since this
one entered; a beaten thread, or one that sees another between closing and
forgetting, may raise (`LoseRace`) or may be lucky. A thread that nobody beat cannot
raise, and whoever changed the book last is not beaten; `RunningIsDriven`
depends on that.

### LiveOrders

One thread makes all the calls, so what interleaves is that thread and the
broker. A step is one broker call with what the code does about its outcome, or
one move of the broker's own.

| variable | code |
|---|---|
| `orders`, `opened` | `OrderManager._orders`; the quantity passed to `PositionManager.open` for each |
| `holding` | `EventProcessor._open_position_id` is set |
| `point`, `attempt` | the place inside `submit()`; `attempt` in `OrderExecutor._with_retry` |
| `kiteId`, `lastKnown` | the id `place_order` returned; `OrderExecutor._last_known_status` |
| `placed` | the broker's book (external) |

The broker's client is outside the repository. It is taken to do what the code
allows for: a call may be answered, raise an error the executor retries, raise
another, and in both failing cases a placement may have been accepted. An accepted
order is filled in part or in whole, rejected or cancelled at any time, and a
finished one does not change. An exception that leaves `submit()` leaves
`process_candle()`, which catches nothing, and ends the engine's thread: `halted`.

What is *not* there is not in the code: `cancel` has no caller in the application,
nor have `SafetyManager`'s checks a place in the order path, and `_check_exit`
closes the position in the book without sending the broker anything, so `Exit`
leaves `placed` alone. The configurations in the repository run live
sessions on `PaperBroker`; `ZerodhaBroker` behind `OrderExecutor` is what a deployment would plug in.

### SignalEngine

The signal service never calls the cycle and is never called by it:
it learns of candles, fills and positions from events, delivered inside `process_candle`. So
one candle is one step of both, and the order inside it is the order of publication,
which the operators keep: `OnMarketData` (the candle, before anything has been done about
it) reads the trades as they were; `CloseTrade` and `ExitMessage` (the exit's
`PositionUpdatedEvent`) come next; `Emits`, `OpenTrade`, `EntryMessage` and `RecordEmitted` (the
fill) see the exit; `BindTrade` (the open position's `PositionUpdatedEvent`) comes last.

| variable | code |
|---|---|
| `dummies` | `DummyTradeTracker._trades` |
| `tradeOf` | `SignalService._position_id_to_trade_id`; the pending slot is filled and emptied within a step |
| `lastSignalAt`, `signalsToday`, `filterDay` | `SignalFilter`'s three fields, for the one strategy that runs |
| `lastNoTradeAt`, `openSeenOn` | `_last_no_trade_notified_at`, `_market_open_seen_on_date` |
| `sentLog` | `NotificationService.sent_log`, with the trade and the candle of each message |
| `reports` | the reports sent; the last one's day is `_report_generated_for_date` |
| `closingDays` | history variable: the days with a candle between the close and the time of the summary |

The score of an evaluation is the code's, from a strength that is a choice and the
reward-to-risk ratio the two multipliers give. `InferExitPrice` and `InferExitReason` are
the code's arithmetic. Prices are integers in a unit the constant `UnitsPerPoint` names (20 to the point: ticks of 0.05), and
`Tolerance`, 2 % of the target's distance or a hundredth of a point, is kept in hundredths of that unit. Whether Telegram accepts a
message returns to no handler; that it may be retried is in `LiveSession`.

### LiveSession

Every call of `LiveSession` is, in `call[c].todo`, the list of steps it still has to
take, and a step reads or writes one thing: `_transition` is a check and, after a log
line, an assignment (`Transition`); `connect` and `disconnect` of the feed are two flag writes each
(`Connect`, `Disconnect`). Callers are the service, which calls `stop()` under
its lock, and operators, which call the methods the configuration lists in any order, refused ones included:
a refused call raises and leaves its caller. When the service's own call returns, the context is given up
(`Return`); when it raises, the context stays.

| variable | code |
|---|---|
| `context`, `born` | `SignalEngineRuntimeService._context`; sessions started |
| `state` | `LiveSession._state` |
| `connected`, `stopRequested` | `ReplayMarketFeed._connected`, `_stop_requested` |
| `feeder`, `pushed` | the thread in `ReplayMarketFeed.run`; what it has put on the queue |
| `engine`, `taken`, `attempted` | the thread in `LiveFeedMarketDataSource.__iter__` and `RuntimeEngine.run`; what it has taken; the attempt at a notification |
| `downAt`, `halted` | history: what was pushed at the last disconnection; sessions whose `emergency_stop` has returned |

`start()` is one step, since it holds the lock and shows the session to nobody before its end. A feed behind the
interface may fail to connect (`TryConnect`, `TryReconnect`), with the retries of `ReconnectManager`.

### SafetyGates

`SafetyManager.check_before_order` with all its gates in their order (`AllGatesPass`), what is
recorded afterwards, the kill switch and the emergency stop, around a caller that asks before each order and
reports its fate, which is the caller `LIVE_TRADING_GUIDE.md` describes. In the application nobody calls the
gates: the runtime constructs the manager and only its emergency stop is used. The
module says what the manager gives to the caller it is written for.

### DashboardClient

The two services of the browser: each polls on an interval whether or not its last poll was
answered, shows what comes back, and after a button's POSTs, however they end, polls once more. A response
is reduced to the version of the backend it was read from; the five requests of a signals
refresh, shown together or not at all, to the oldest of theirs. The backend is the two runtime
services as a caller sees them: which POST is a 409 (`Allowed`) and what the others do
(`Process`). Requests age in intervals, are aborted at the timeout, and a POST given up may
still arrive (`orphans`).

### The jobs that run by themselves

`Research` runs one of seven jobs, chosen at the start; they share no state, and are put under
one specification so that one run checks them and no more.

- *Import* (`DataPlatform`). The validator's checks, `_store`, append (validated together with what is
  stored) and the query's binary searches are operators; a step is a call of the import or the
  query service, in any order, forced or not, from a provider, from a stub (which raises) or direct.
  `outcome` is what the call answered. Nothing calls the platform from two threads.
- *Reading* (`MarketReading`). A step adds a candle past the warm-up and reads the whole history
  again, as the engines do: EMA, RSI, ATR, VWAP, volume, SuperTrend with its ratcheting bands, the trend, bias,
  momentum and volatility made of them, the strategy's checks, the direction and strength of its vote and
  the recommendation. An average is a fraction, so that nothing is rounded, and what the code accumulates in a loop is
  a recursive function of the length read; a candle that makes the code raise ends the reading. `left` is no field of the
  code's SuperTrend: it remembers that some close has been beyond exactly one of the bands.
- *Parameters* (`Parameters`). A step gives one more argument of a configuration a value around the
  ends of its range, or adds an axis to the parameter space, or builds a market calendar from a choice of
  windows. `Accepted` is the models' validators; `Catalogue` the descriptions that are kept by hand beside
  them; `GenerateGrid` and `ApplyCombination` what a sweep makes of them.
- *Backtest* (`Backtest`, `Analytics`). A step is one candle of `run_backtest`, with its day roll, exit,
  conditions, risk and sizing on the running capital; whether the strategy sees a setup, in an acceptable session and at an
  acceptable volume, is a choice. Data that is too short is refused, and the end closes what is open. Stamps are taken to rise (`NextCandles`):
  an assumption about the data, which neither `run_backtest` nor the loader checks. The report and the analytics are operators over
  the finished trades and curve.
- *Simulation* (`MonteCarlo`). A step applies one perturbation of one simulation, in the fixed order of
  the code, each an operator on a list of trades; a draw is a choice. The baseline is a finished history, whose trades are
  as a backtest leaves them (`IsHistory`). A percentage of a price is exact when the price is a whole number of hundreds, and rounded
  down otherwise. Outcomes are sorted stably, as `sorted()` does. `MonteCarloAssumption` asks for what the configurations refuse to be
  without, and for three things nothing in the code refuses to break: a slippage and a confidence level above 100 %, and a
  report of no cases.
- *Validation* (`WalkForward`). A step generates the windows or validates one: candles of both
  ranges, search, ranking, test, rules. What a backtest says of a configuration is one of a few outcomes; weighted scores
  are kept over a common denominator, so that they compare exactly.
- *Gates* (`SafetyGates`), above.

## 3. The runs

Passing:

| run | checks | shows |
|---|---|---|
| `account` (`PaperAccount.cfg`) | `RiskPerTradeBounded`, `DailyLossBounded`, `CountersReconcile`, `HoursKept`, `DrawdownIsExact`, `MonitorMatchesBook`, `SetupsTaken`, `KeepsPromise` | whatever prices and the clock do, no trade loses more than its risk; a day's loss exceeds its limit by less than one trade's risk; cash, loss counter and trade counter are what the book says, with positions held over a night; entries keep to hours and cooldown and nothing is open at the close; the running drawdown is the true maximum fall; monitors, journal and observer, and what a GET shows of them, agree with the book; a setup that passes its gates is taken; the cycle implements `TradingPromise` |
| `steps` (`TradeSteps.cfg`) | `BoundaryReconciles`, `ResponseCoherent`, `NoPositionMissed` | a GET at any point of a candle does the books no harm, answers with counters that fit each other, and misses no position |
| `host` (`RuntimeHost.cfg`) | `CandlesAccounted`, `RunningIsDriven`, and, live, `DiscardedSettles`, `ResumeTakesEffect` | under all orders of five kinds of request and up to three threads: candles are neither lost nor duplicated, a RUNNING session has a living thread, discarded sessions stop for good, and an accepted resume moves the session out of PAUSED |
| `signals` (`MCSignals.cfg`) | `TradesMirrorPositions`, `HitsAreNamed`, `AlertsMatchTrades`, `AlertsSpaced`, `ReportsComplete` | hearing of trades through events alone, the signal service pairs each of its trades with one position, whatever was suppressed in between; a target or stop-loss that was hit is named as the reason of the exit, and one that was not only at the close, by a price within 2 % of the target's distance of it; each trade and its end are announced once; alerts are a cooldown apart and limited per day; a day is reported once, completely if it had a candle between close and summary |
| `live_orders` (`LiveOrders.cfg`) | `RecordIsTrue`, `PlacedOnceReconciles` | whatever fails when: what the application records of a finished order is final and true at the broker, and an order placed once is on the book with exactly what was filled |
| `live` (`LiveSession.cfg`) | `StopDrains`, `EndsForAReason`, `StoppedForGood`, and, live, `EngineEnds` | after a stop at most one more candle reaches the queue; a slow feed never ends the engine; every engine thread ends but for a feed connected again after its thread has gone; a session that has stopped and been left alone stays stopped |
| `research` (`Research.cfg`) | `BooksAgree`, `TradesWithinLimits`, `FiguresAgree`, `SimulationsTrusted`, `NothingSeenTwice`, `TestedWhatWasBest`, `SearchesAddUp`, `StoreTrusted`, `ReadingsTrusted`, `ConfigurationTrusted`, `SafetyHolds` | the jobs that run by themselves: see below |
| `dashboard` (`DashboardClient.cfg`) | `ShowsRecent`, `ReflectsClick`, and, live, `ShownCatchesUp` | the page goes back in time at most by a timeout, shows after a button what the button did, and in the end what is there |

Several properties are conjunctions of facts that only mean something together, named in the module next to them:

- `CountersReconcile` is `CashReconciles`, `LossCounterIsReal` and `TradeCounterIsReal`; with the last, and the
  gate of the entry check, the number of entries a day is bounded. `HoursKept` is
  `EntryHours`, `CooldownRespected` and `FlatAfterClose`. `MonitorMatchesBook` is `CountsMatch` (counts heard
  through events), `ShownDecisionIsTheTrade` and `GetsAreQuiet`.
- `FiguresAgree`: the deepest fall of the report, of the drawdown episodes and of the curve's own definition; the two
  walks over streaks; every grouping (hour, weekday, session, expiry, direction, reason, regime, month, year) a
  partition of the trades; the best hour and weekday no worse than the average one; the strategy's two grosses; the shares of the exits, which leave out the forced close alone; and the shortest and longest holding. The regimes are a partition only
  if they insist on no more candles than the backtest warmed up with. `TradesWithinLimits`: trades do not overlap and risk their share (`TradesSound`); days keep their limits
  although the engine counts a trade on the day it closes (`DayLimitsHold`). `BooksAgree`: capital, trades, curve and
  daily figures add up.
- `SimulationsTrusted`: `SimulationsBounded` (what each perturbation may change, and that each simulation starts
  from the backtest's own trades; that unperturbed trades, one closed after another, fall no further than the backtest's curve did)
  and `TailsOrdered` (expected shortfall, value at risk, interval; no outcome is beyond the extreme cases that are shown).
- `SearchesAddUp`: by a score that gives each metric some weight, a combination at least as good on every metric, with none
  missing, is never ranked behind (`RanksDominance`), and reports count each window and combination once (`ReportsAddUp`); a
  validation passes on a window that passed, if it asks for some robustness. `TestedWhatWasBest` connects a window's search with its test.
- `StoreTrusted`: `QueriesAreCurrent`, `CleanUnlessForced`. `ReadingsTrusted`: `MarketsMirrored` (a market turned upside down is
  read as the opposite, once the price has moved and left the SuperTrend's bands, which begin bullish in any market, and with RSI thresholds
  symmetric around 50) and `SignalsFitContext` (a vote that leaves at most one check out, the SuperTrend's voting, and RSI
  thresholds on either side of 50, as by default: with fewer checks a signal may contradict the context shown beside it). `ConfigurationTrusted`: `CatalogueTells`, `GridIsLegal`, `EveryAxisCounts`, `CalendarInOrder`.

A module's `TypeOK` is part of one of its run's properties (`HoursKept`, `StopDrains`, `BoundaryReconciles`, `ShowsRecent`) rather
than a property of its own; in `TradeCycle`, `RuntimeHost`, `LiveOrders`, `LiveSession`, `TradeSteps` and `DashboardClient` it is proved.

Finding a violation, each of one statement the repository makes:

| run | statement | what the code does |
|---|---|---|
| `cycle_utc_host` | `SetupsTaken`: candle stamps are naive market time (`signals/signal_filter.py:14-16`) | `MarketSessionService.get_status` reads them in the host's zone; on a UTC host, which is what `python:3.12-slim` gives, setups after 10:00 are refused as after the close |
| `host_two_threads` | `OneCandleAtATime`: "One background thread per session" (`README.md:2352`) | `resume()` spawns a thread without waiting for the paused one to leave; if that one next looks when the state is RUNNING again, both step the engine |
| `live_emergency` | `EmergencyStopHolds`: "always disconnects the market feed, and always drives the session to `Stopped`" (`docs/LIVE_TRADING_GUIDE.md:125-129`) | a reconnection that has passed its check goes on after the emergency stop has returned, connects the feed and assigns Connected |
| `dashboard_start` | `StartReachesEngine`: "Start/Stop call the backend directly" (`signalEngineService.ts:91`, and its test at 185) | `start()` awaits `/runtime/start` first, which is a 409 once a runtime session exists, and then never sends `/signals/start` |

### Bounds

*PaperAccount.* `MaxCandles` = 5 over three days, one of them a weekend: enough for a trade to be
opened, held over a night, closed with a loss, followed by another entry on the
next candle, and the daily limits (1 trade, a loss of 3) to be reached and passed; one winning and
one losing trade fit, which drawdown and counts need. Three prices, a stop and a target 2 away
and a risk of 5 make a size of 2, which rounds down: a stop loses 4, within the risk but above the
day's limit, and a close at the end of the day may lose 2, which leaves the day open. The
minutes are those around the boundaries: 569/570 the opening range, 570/575 a cooldown of 5 that is just over, 580
an entry that only the trades-per-day limit refuses, 930 the close, in the no-trade zone. Positions
are within `MaxExposure` here; the limit binds in *SignalEngine*.

*SignalEngine.* Signals are 4 minutes apart, trades 1 (so that a trade can be suppressed between two
announced ones), two signals a day against three possible trades, of the three strengths one below the
threshold of 65, one exactly at it and one above, five candles over two days; 930 is the close, 931 the summary.
Prices are 100, 149 and 150 ticks of 0.05: with an ATR of 50 ticks a target or stop-loss is 150 for an entry at 100, the tolerance is exactly one tick, and a
close at 149 misses the level and is named for it, long as a target, short as a stop-loss. `MaxExposure` = 200
restricts entries to 100, and `MaxDailyLoss` = 90 ends a day with its first loss, for size; and `MCSignals` gives the second day only
three of the seven minutes: the limit of signals needs three trades on one day, and what another day adds (the filter's roll, a
position held over the night, a report of its own) does not.

*TradeSteps.* One reader, four candles: two trades, so that a loop can find a closed and an open position and one
that closes or opens under it. The reader reads each thing once.

*RuntimeHost.* `MaxRequests` = 4 accepted requests are the shortest sequences with a
second pause or a replay after a resume, and give up to three threads on one
session. Data of length 0 ends at once; of length 2 leaves a candle to be
taken while another is in process. Two sessions are one replay. Refused requests change nothing and are
not counted.

*LiveOrders.* Two orders (one finished or lost while the next is placed), of two units (so that
a fill may be partial), two retries: each call may fail once more often than it is retried, with up to three
placements of an order alive at the broker.

*LiveSession.* One session (the service starts another only when the context of the first is gone, and they
share nothing), two candles, one retry, a notification sent in at most two attempts. The service's stop and two calls by an
operator give, besides the feed's and engine's threads, every pair of calls that race; the violation needs two operators and three calls,
of the three kinds listed in its configuration.

*DashboardClient.* A timeout of one interval, so that two polls overlap and an answer may be
overtaken; one button, which may be two POSTs, on either page; one change the engines make by themselves, for a poll to be stale
about; a backend in any state at the start, so that every POST can be refused.

*Research.* `MCResearch` gives the values: histories of up to seven candles for readings and five for backtests; at most three stored
candles, each kind of issue among those offered; two simulations of up to three trades, nine sets of perturbations;
a week of data with and without a hole, windows of three days and two; two changes of a configuration around the ends of every range and up to two
axes; five questions to the gates, limits from 1 to 3.

`CHECK_DEADLOCK FALSE` in all runs but `dashboard`: the system may stop, when the data is over
and nobody calls, or when an exception has ended the engine's thread. A timer never stops.

### Fairness

- `RuntimeHost`: every thread that can take a step takes one in
  the end (`WF(Proceed(r))` for each thread; the operating system's scheduler, and no
  lock is taken by them), and a `replay()` handler that has read the state goes on
  (`WF(ReplayStops)`, same reason). Nothing obliges a client to send any request. `DiscardedSettles`
  holds because data is finite and no endpoint reaches a discarded session to pause it;
  `ResumeTakesEffect`
  because a thread still to read PAUSED will resume, unless something else moves the session first.
- `LiveSession`: a call that has begun goes on (`WF(Proceed(c))`), and so do the feed's thread and the
  engine's. Nobody has to start, stop, pause or reconnect anything, and a notification may fail every time.
- `DashboardClient`: the timer fires (`WF(Tick)`); the event loop handles timeouts and answers to POSTs; and,
  an assumption about the environment, the network is not down for ever: if refreshes can be answered, and answers shown, again and
  again, some are (`SF`). Polls can be aborted for any finite time.

## 4. What is proved

All proofs are of the modules the runs check, with no definition replaced, for every
value of the constants that satisfies the modules' named assumptions (`ClockAssumption`, `RiskAssumption`,
`SignalAssumption`, `LiveAssumption`, ...): what those ask for is what the code's validators or constants give.
Besides the host theorems that say "without resume", two have a hypothesis, stated with them below.

`TradeCycleProofs` (for all days, minutes, prices, ATRs and limits):

- `CycleInvariant`: the inductive invariant `CycleInv`, which no checked invariant is by
  itself. To `TypeOK`, `OnePosition`, `RiskPerTradeBounded`, `DailyLossBounded` and `CooldownRespected`
  it adds `OpenPositionCovered`: the open position's quantity times the distance to its stop-loss is within
  `RiskAmount`, its target is on the winning side, and it was entered below the day's loss limit.
  Hence an exit at the stop loses at most the risk, an exit elsewhere happens on a candle that did not
  reach the stop, and the day's loss is passed by that one trade at most. And `LedgerFollowsBook`: the
  open position is the newest, every other has its time of closing, and the cooldown is measured from the newest of these.
- From it: `TypeCorrect`, `AtMostOnePosition`, `RiskPerTradeHolds`, `DailyLossHolds`, `CooldownHolds`,
  `ClosedTradesStay` (an action property).
- `HoursAreKept`: `HoursKept` in full. `FlatAfterClose` is about a whole candle: one at or
  after the close exits, and the entry check on the same candle is outside the hours, whatever the host's clock says.
- `SetupsAreTaken`, under `HostLag = 0`. Without the hypothesis it is false, which is the finding
  `cycle_utc_host`: the theorem says that the host's zone is the only thing in the way.
- `CycleKeepsPromise`: `Spec => Promised!Promise`. Initial states map to `Begin`; a warm-up or held candle
  is `Idle`, a flat one `Idle`, `Open` or `Close`. An exit and an entry on one candle
  would be none of them: that they cannot coincide is the cooldown being at
  least a minute (`Cooldown \in Nat \ {0}` in `ClockAssumption`), since the exit has
  just set the time of closing. The code does not validate `cooldown_minutes`; it always runs with the
  default, 5. At 0 the promise would be broken. `DateFollows` is what the mapping of the day needs.
- `BookInvariant`: `CycleInv` with the times (`BookTimes`: no time of the ledger is ahead of the clock, nothing is opened
  while warming up, only the open position has no time of closing). Every candle is one of four moves of the book,
  `Untouched`, `Remarked`, `Closed` or `Opened` (lemma `BookStep`), and the proofs about those who watch the book split on these.

`ListenerProofs`, of `PaperAccount` (`AccountRunsCycle`: an account is a cycle, so all of the above holds of it):

- `CountersStayReconciled`: cash and both counters of the day against sums and counts over the book. It needs no
  more than `BookInv`: a move changes one position, and with it one term of each sum.
- `DrawInvariant` and `DrawdownStaysExact`: the curve is what the snapshots saw; the peak kept is its
  maximum and the drawdown kept its largest fall, with no bound on its length. `IsPeak` and `IsDrawdown` say so by
  comparison with every point, so that a snapshot adds one.
- `MonitorAgrees`, from `MonitorInv`: every count in terms of the book's size, and the last equity within
  the peak and the drawdown, from which a GET between two candles moves neither.

and of `SignalEngine` (`SignalsRunCycle`: listening changes nothing, so what is proved of the cycle holds here):

- `SignalInvariant`: `BookInv` with four parts, each about one thing the service keeps. `TradesInv`: a dummy trade
  belongs to one position and is open exactly while the service's map leads from the open position to it. `AlertsInv`: each trade has its
  messages, once. `FilterInv`: the cooldown is measured from the newest alert and the count of the day is that of the
  log. `ReportsInv`: reports in order of days, each with its figures, complete when its day had a candle between close and summary.
- `TradesMirror`, `AlertsStaySpaced`, `AlertsMatch`, and `ReportsStayComplete` under `IsFiniteSet(Days)`: the
  property begins at the first day there is and compares the sums up to the last. Any run has finitely many days.
- `HitsStayNamed`, for all prices, units and multipliers: `HitsAreNamed` in full. The price is recovered exactly from the P&L
  (`ReasonsInv`), so that what the service knows of a price can be said of the P&L of the position (`WorthApart`, `NearInWorth`). A position that
  was stopped out or reached its target says so, and only an exit at the close can be given the name of a level it missed, if
  its price is within the tolerance of that level. With targets tens of points away that tolerance is many ticks, so the
  exact statement, that the reason is always the real one, is false of the code (section 6).

`DashboardProofs`, of `TradeSteps` (for every number of readers and candles):

- `StepsInvariant`: `EngineInv` tells, for each point of `process_candle`, which book is behind which
  (the pointer, the cash, the orders, the counters); `ReaderInv` what a request has gathered at each of its points;
  `Grows`, that a step of the engine never shrinks the book, reopens a position or takes a count back, is why the latter
  outlives the engine's steps.
- `BoundariesReconcile`, `ResponsesCohere`, `NoneMissed`: the three checked invariants. The second depends on the order
  of the reads: what is advanced first is read last. The third on the order of the lists: open positions first, so
  that one closing in between is in both and not in neither.

and of `DashboardClient` (for every timeout and every number of clicks and of requests in flight):

- `ClientInvariant`: `RequestsOK` says that an answer is not older than the tick before its request was sent nor newer than the
  backend; `PostsOK`, that a button which is not through waits for exactly one POST, the one it has come to; `RefreshesOK`, that
  its refresh is sent after its last answer. `VersionOK` is what the type of `version` needs: a POST changes the backend once at
  most, whether it is answered, given up or arrives after that, so states beyond the first are at most the engines' own changes and the
  POSTs that are spent (`Spent`), and there are two places for those per click. The proof takes `None` to be no reply (`NoneAssumption`).
- `PagesShowRecent` and `ClicksAreReflected`: the two safety properties of the run, from `RequestsOK` and `RefreshesOK`.

`RuntimeHostProofs` (for every set of endpoints, data sizes and bounds):

- `HostInvariant`: types, `Driven` and that only threads inside `process_candle` are beaten. `Driven`
  strengthens `RunningIsDriven`, which is not inductive (the living thread might be
  about to raise): a RUNNING session has a thread that nothing it has read can make fail, so that
  it will reach the auto-stop or a check of the state. When such a thread is beaten, the one that beat it takes its
  place.
- `HostTypeCorrect`, `RunningStaysDriven`.
- `CandlesStayAccounted`: with any number of threads on a session, each candle its source
  gave is in the history once or in one thread's hands, and the processed count lags by what is in process or was lost by a thread that raised.
- Four theorems say what is the matter with `resume`. Under `"resume" \notin Endpoints`, the
  invariant `Solo` (session *r* is stepped by thread *r* alone) gives `OneThreadPerSession`,
  `OneCandleWithoutResume`, `HistoryInOrderWithoutResume` and
  `StopIsFinalWithoutResume`: the violation `host_two_threads`, a stopped session that is revived and disorder
  in the history all take a resume.

`LiveProofs`, of `LiveOrders` (for every quantity, retry limit and number of orders):

- `OrdersInvariant`: `OrdersInv` adds three facts to the checked invariants. `Submitting`: the order
  being submitted has at most as many placements as calls have failed for it so far, one more while its
  history is being read; this is what bounds placements. `Settled`: every
  order that did not end the engine has a finished placement of its own from which the position's quantity was taken.
  `Known`: the broker holds no order that was never created, hence a new one starts with no placement.
- From it: `OrdersTypeCorrect`, `RecordStaysTrue`, `PlacementsStayBounded` and `PlacedOnceStaysReconciled`. They
  say what the trouble with retries is: only a repeated placement lets fills arrive that the
  book does not have. An exception has the same effect, but no trading follows it.

and of `LiveSession` (for every number of sessions, candles, operators and retries, whatever methods they call):

- `LiveInvariant`: `CallsOK` says that a call which has steps left belongs to a session, `FlowOK` what the feed's and the engine's threads rely
  on: a disconnected feed's thread has pushed at most one candle more than at the disconnection, and none more if it
  is still about to; a born session that is not connected was disconnected by somebody; an engine that
  is done has taken everything, or such a disconnection has happened.
- `StopsDrain`, `EnginesEndForAReason`, and `StoppedStaysStopped` (`StoppedForGood`, a temporal formula: from "stopped, disconnected and no call
  left inside" no step leads out, since each method checks the state before it changes anything).

`ResearchProofs` (an invariant of one job is carried through the steps of the others, which leave its variables alone):

- `GatesInvariant` and `GatesHold`: `SafetyHolds` is not inductive, because a limit may be reached by the order that
  was allowed and is not yet reported; `GatesInv` counts that order in. For all limits, losses and breaker thresholds.
- `WindowsInvariant` and `NothingIsSeenTwice`: what is validated followed by what waits is what was
  generated, and windows are disjoint, inside the data, moving forward and complete, for every size, step and type of window and
  every set of candles.
- `BestInvariant` and `BestIsTested`: `TestedWhatWasBest` for every finite set of metrics, outcomes, weights, parameter space and
  ranking. `Rank` puts a result at the number of results it is behind (ties in the order of the search, as Python's stable
  sort does), so the first place is one that no completed result outranks. The grid is a fold of `Crossed`
  over the axes; its steps are a sequence of lists, each the last one crossed with an axis, so the search
  is a list, with one result per combination. Assumed are what `ParameterSpace` and `RankBy` accept (`SpaceAccepted`,
  `SearchAccepted`).
- `StoreInvariant` and `StoreIsTrusted`: `StoreTrusted` for every file, range, key and order of calls. `Placed` sorts as the stable sort
  does, by counting who comes before, and `SortedByTime` is shown to be in order; a
  valid file rises strictly, so that sorting leaves it alone. In a list in order, the candles before a stamp are a prefix,
  so the two counts that stand for the binary searches cut out what a scan would find. A cached answer is still what the query gives because
  every call that stores a key drops that key's answers.
- `BacktestInvariant` and `TradesStayWithinLimits`: `TradesWithinLimits` for all bars, stamps, sizes and limits, under
  `BacktestAssumption` (a bar's low is at most its close, as `data/validation/validator.py:141` checks; the ranges of the
  configuration's validators). The property speaks of finished trades and is not inductive: the limits are checked when a position is
  entered, and counted when it is closed. `BacktestInv` adds that an open position has outlived the last candle or was
  entered on it (`HeldThrough`), that it leaves room for its trade on the day of its entry and on the day that counts it
  (`RoomForTrade`), that trades follow one another (`InOrder`), and that the running capital, the day's count and the day's loss are sums over the list of
  trades (`Counted`). What makes it work is that a candle's exit comes before its entry: all that was entered today
  and is no longer open was also counted today, so the count at an entry bounds both.
- `CurveInvariant` and `BooksStayAgreed`: `BooksAgree`. The running capital is a sum (`BacktestInv`); `CurveInv` adds that the last
  point of the curve is the marked equity, so the capital when nothing is open or all has been closed, and that the day of every
  trade has a point (`DaysDrawn`), the forced close's being a second one for the last candle. That the same total comes out in the order
  of the list, as gains less losses, and day by day is `PnlParts`, from the lemmas on sums.
- `SearchInvariant` and `SearchesDoAddUp`: `SearchesAddUp` for every space, ranking, weighting and set of rules. The invariant says that what
  a search lists is measured and on the grid, and that a window reported has exactly one of the three fates. Dominance is
  inherited by a score because each metric is normalised by the same rising (or falling) function for all results, and because
  scores over a common denominator differ by a sum of terms none of which is negative and one positive.
- `ParametersInvariant` and `ConfigurationIsTrusted`: `ConfigurationTrusted`, whatever arguments are tried and axes added. The invariant keeps
  that a configuration is accepted exactly when its validators accept its arguments, that names no step probes are at their
  defaults, and that every axis is well-formed. That each axis counts is a product: the size of the grid is that of its axes multiplied.

`FigureProofs` (what the code computes in loops over candles and trades). Folds and recursion are where the prover has no
induction to offer; `IntervalInduction` gets it from sets, as below, for a set of numbers: one that has 1 and, with each number, the next, has all up to a
bound. `TypedRecursion` makes of it what a recursive function of the lengths 1 to n is, and `FoldExists` what a fold is:
the last of a sequence of accumulators, each made of the one before. Every loop is then a lemma on one step.

- `ReadingInvariant` and `ReadingsAreTrusted`: `ReadingsTrusted` for every history, period, threshold and multiplier. Turning the market
  upside down turns each reading: the averages and VWAP with their prices (`EmaMirrored`, `VwapMirrored`), ATR and volume
  not at all, RSI about 50, the SuperTrend's two bands into each other (`SupertrendMirrored`, which carries both bands and, from the
  first close beyond one of them, the direction). Each check then votes the other way, and the vote counts are swapped.
  `StrictVotesFit` is about one market: with one check left out at most, the price is on the signal's side of its average and SuperTrend.
- `FiguresInvariant` and `FiguresStayAgreed`: `FiguresAgree` for every finished backtest. The invariant adds to `BacktestInv` and `CurveInv`
  that candles rise, that each trade was entered on one of them after the warm-up, and that only the end of the data ends the last one.
  `DrawdownIs`: the scan over the curve finds the deepest fall between two points, in that order; `EpisodesAre`: the
  deepest of its episodes is as deep as that, and only the last may not have recovered. The two walks over streaks are shown to go
  together, step by step (`StreaksGoOn`, `StreaksAre`). A grouping is a partition because a trade has one label, and its totals are then sums by parts;
  the best bucket has an average no lower than the whole's, because the whole's is a mean of theirs.
- `SimulationsInvariant` and `SimulationsAreTrusted`: `SimulationsTrusted` for every history, set of perturbations and number of simulations. `SimulationInv`
  says what a list half perturbed is: `Image`, each trade left stands for one of the backtest's, no two for the same, unchanged or
  no better as far as only such perturbations are on; and `Fixed`, that what nothing is drawn for is the same list each time. An outcome is then
  what is `Expected`. That no path falls further than all losses together is `PathFalls`. `TracedInvariant` is about the backtest: its curve
  passes, in order, what the capital was after each closed trade (`Milestones`), so closed trades by themselves fall no further
  (`ClosedFallsLess`). For the tails, a stable order exists, by inserting one outcome after another (`OneMoreSorted`, `OrderIs`), and
  interpolation stays within the outcomes and rises with the percentage (`PercentileWithin`, `PercentileRises`).

`SumLemmas`: the folds of the community modules are recursive functions on subsets, and
the library's induction theorems take an operator, which the provers cannot instantiate. But that strict inclusion on a
finite set is well-founded is a statement about sets: a non-empty set of counterexamples has a smallest member (`SmallestSet`).
From this come existence and uniqueness of the function behind a sum or a product, and the facts the other modules cite: a sum over a union, after a
change of one term, of zeros, of ones, by parts, term by term (`SumPlus`, `SumOrdered`), or under other names (`SumRenamed`); and that a finite
set of integers has a greatest and a least member.

`AtMostOnePosition`, `ClosedTradesStay`, `CooldownHolds`, `PlacementsStayBounded` and the theorems under
"without resume" state facts that no run checks separately; the inductive invariants are stronger than what the runs check.

*Only model-checked.* Every safety property of the passing runs is proved. Liveness under fairness
(`DiscardedSettles`, `ResumeTakesEffect`, `EngineEnds`, `ShownCatchesUp`) is out of TLAPS's reach and stays with TLC, and so do
the four violations, which are counterexamples. That a proof is about states that exist is TLC's part too: each property has been seen to fail when
the code modelled is given a plausible bug (`mutants` in `PROJECT.json`).

## 5. What is abstracted or left out, and why

- *Within modelled components.* Partial exits (`exit()` with less than the whole quantity) are
  implemented but nothing in the runtime asks for one. Order cancellation has no caller. Latencies
  have no bearing on any property. `maximum_candles` and
  `auto_stop_on_completion` are at the values the dashboard gives them.
- *The daily summary.* `ReportsComplete` has a condition, because the code has: the summary is made when a
  candle at or after `summary_time` (15:31) is published, before that candle's exit check. If no
  candle falls between 15:30 and then, the trade this candle closes is missing from the
  report, and if none comes after (the sample data ends at 15:15) no report is made.
- *SHORT signals.* The guide and `signal_service.py`'s docstring still say that only LONG orders are submitted;
  the processor submits both, and the model follows the code. Backtests are long-only, and so are the
  models built on them.
- *Evaluations that trade nothing.* A candle's signal is the direction of a valid evaluation or `NONE`, which stands for a direction
  without a valid setup too; the published risk assessment of such a candle is then that of no direction (`RiskApproved`).
- *Inputs of one kind.* Aware stamps are of one offset (`Sortable`): those of two, which the validator flags and a forced import
  sorts, are left out. The ends and steps of an axis are whole (`Values`), so the rounding of an INT axis, which can give one value twice when they are
  fractions, is not represented.
- *Two threads inside `process_candle`* are in `RuntimeHost`, with what they do to each other reduced to being
  beaten; `TradeSteps` has one engine and is about its readers.
- *Parts of responses.* The fields of `CurrentSignalState` come from one moment; the parts of a signals refresh need not, and
  the client model takes the oldest.
- *Numbers.* Values of Sharpe, Sortino, Calmar and the other ratios (the models keep when they are defined, and their sign), the
  distributions of further metrics, rounding to display digits: single-valued functions with no state. Put-call ratio and open interest
  are constants of a run and enter no rule that is modelled.
- *Not modelled.* Startup, replay script and shutdown (single-threaded wiring and printing); the Kite login and
  token (one stored session around an external exchange); heartbeats (time stamps nothing decides on); routes, logging,
  metrics and the database session (adapters); exports and the experiment store (files); market
  holidays (`ConfigurableCalendar` is used by nothing in the application); React components and the mapping of the wire format (rendering).

## 6. Findings and observations

The four violation runs of section 3 are statements of the repository that its code does not keep;
`PROJECT.json` quotes the sentences and gives the lines. What else was met while modelling, and is
in the models as it is in the code:

*Engine and dashboard.* `run()` reads PAUSED, the session is stopped, and `run()` resumes it: a stop is not
final (`runtime_engine.py:60`; `docs/ENGINE_RUNTIME.md:120-122` says only `replay()` re-enters Running). A session
dropped by `replay()` before its thread has left NOT_STARTED is not stopped, and runs on unreachable
(`dashboard_service.py:237`; `docs/API_GUIDE.md:24`). Nothing calls `reset_daily_pnl`, so daily P&L and daily
return are totals since the start (`portfolio_manager.py:37,41`). Two `snapshot()`s may write the peak over each other,
and a GET during an exit may count a trade twice in it (`portfolio_manager.py:51`; `docs/PAPER_TRADING_GUIDE.md:139-141`).
A position that closes between the two listings is listed twice, and a position that opens during one makes the GET
raise. `max_daily_loss` = 0 is accepted and means that no trade is ever made. A stop fills at the
stop's price even when the candle has jumped past it.

*Live trading.* The executor's retry repeats a placement whose outcome is unknown, also when only the reading of the
history failed (`order_executor.py:90`; `LIVE_TRADING_GUIDE.md:152-157` says orders are not replayed). After an
emergency stop the engine still trades the candles in its queue (the guide's line 179). `stop()` of the service on a session already
Stopped raises and keeps the context, so that every later `start()` is a conflict. The gates of `SafetyManager` are
called by demos and tests only; a tripped breaker never resets for a caller that obeys it (line 178); `trading_start` and
`trading_end` are not validated. `state()` and `performance()` read `_context` twice, without the lock, and use the wall clock while trades
carry candle stamps; `signals_sent_today` is yesterday's until the next fill. `stopPolling` is called by nothing.
A trade that ends at the close within 2 % of its target's distance of a level is named, announced and reported as having hit that level
(`dummy_trade_tracker.py:75`; the method's docstring speaks of floating-point and tick noise): 0.8 of a point for a target 40 points away.

*Backtest and research.* The last candle of the data is never tested on (ranges are half-open). A result without a losing trade has no profit
factor, ranks low for it and fails `min_profit_factor`; when no combination differs in its drawdown, the
inverted metric gives all of them full weight. The regimes of the analytics insist on 20 candles and the
default EMA, whatever the backtest used; a month's return leaves out its first candle's exit. Execution delay and position variation compute the P&L again and lose a commission charged before
(`execution_delay.py:66`, `position_variation.py:54`; `MONTE_CARLO_GUIDE.md:51-53`). An axis whose range is no multiple of its step may pass its
maximum (1 to 4 by 2 gives 5). `model_copy` runs no validator: a stop of 5.0 times a ratio of 2.5 gives a target of 12.5, above
its range. A space may sweep a name the executor ignores. The catalogue calls `max_trades_per_day` unsafe to optimise and the
parameter space sweeps it; it claims ranges for indicator periods that no code checks. An `ema_period` beyond the warm-up fails at the first candle.

*Data and indicators.* Forced import of a mixture of naive and aware stamps raises (`repository.py:79`). Writing to the repository directly leaves the
cache stale, and a cached list is the caller's own. SuperTrend begins bullish in any market, its bands may cross, and the RSI of a
flat market is 100; candles without volume make VWAP raise, which ends the run.

## 7. Plan

The model is as wide as its sources' behaviour, and its safety is proved. What would come next:

1. `RuntimeHost` and `LiveSession`: liveness, once a prover can reason about `ENABLED`; `Driven` and `FlowOK` are
   the invariants such proofs would start from.
2. Partial exits, cancellation and short trades in backtests, once something in the application asks for them: the actions belong in
   `TradeCycle`, `LiveOrders` and `Backtest`, and the invariants above say what they have to keep.
3. `SafetyGates` in the path of `LiveOrders`, once the application calls them.

Runs stay few: one passing run per module or family of jobs, with a small instance of
its own, and a violation run only for a statement the repository makes.
