# KiwoomDayTrader in TLA+

KiwoomDayTrader is a Python/PyQt5 program that trades Korean stocks through the
Kiwoom OpenAPI+ control. This directory holds TLA+ models of its core, the TLC
runs that check them and TLAPS proofs about them. `PROJECT.json` says which
definition models which lines.

## 1. The system

Everything that trades runs on **one Qt main thread**. The OCX control raises
events (login, TR response, real-time tick, chejan report); each is handled to
its end before the next. There is hardly any shared-memory
concurrency: a simulation's worker thread is the one exception, and the `RLock` that
`order_manager.py` takes around its dictionaries (lines 62, 119, 180) has only the main
thread to serve, so each handler is one step of the models. What is hard is
the asynchrony of the far side. `SendOrder` returns
"received", and what became of an order comes later, in reports that may cross
further submissions, cancels, ticks, a lost connection, or orders of another
terminal of the same account.

| component (`src/kiwoom_trader/...`) | state it keeps | operations | what makes it correct |
|---|---|---|---|
| `core/order_manager.py` | `_pending_orders` by temporary id, `_orders` by number, `Order.state`, `filled_qty`, `_account_no` | submit, cancel, order chejan, balance chejan, active orders | every report reaches its order; transitions stay in the table; what is shown agrees with the exchange in the end |
| `core/risk_manager.py` | `_daily_buy_blocked` | validate, price tick (stops, daily limit, liquidation), splits, closing time | the limits hold, stops fire and do not loosen, the daily block lasts |
| `core/position_tracker.py` | `_positions`, `_daily_realized_pnl` | balance report, price, limit checks, profit of the day | agrees with the account |
| `core/market_hours.py` | previous state (polled), callbacks | state of the time of day, transition poll | each transition noticed once, what each state permits |
| `core/strategy_manager.py`, `condition_engine.py` | indicator instances, previous values, cooldowns, market context | candle complete, conflict resolution, cooldown, execute | one side per candle, cooldown respected, warm-up |
| `api/real_data.py`, `core/candle_aggregator.py` | subscriptions; the candle being built per code | tick, slot, finalize, flush | every tick in exactly one candle, candles of distinct minutes, volume conserved |
| `api/session_manager.py`, `tr_request_queue.py`, `balance_query.py`, `event_handler.py` | retry count, timers, tracked subscriptions; TR queue; rows read so far; handler per request name | connect, heartbeat, backoff, restore; enqueue, timer; query, page, complete | reconnects or gives up, the tracker equals the broker after a reload |
| `core/paper_trader.py`, `backtest/*` | capital, virtual positions, trades, equity, day's loss | buy, sell, risk triggers, forced close | money conserved with costs, limits, exits |
| `core/day_strategies.py` | per-code phase of each intraday strategy | on_candle | what is held will be sold by someone, and before the close |
| `backtest/backtest_worker.py`, `performance.py` | the thread, what it publishes, the metrics | run, finished, error; compute | nothing that was published is missed; metrics are what they are called |
| `scripts/collector.py` | page, candles, open files, transaction | fetch pages, store ticks, commit, clean up | nothing stored twice, bounded loss |
| `main.py` | the wiring, selected account, mode, simulation worker | login, account switch, mode switch, strategy reload, simulation, manual order, timers | the parts above still hold when wired |
| `gui/dashboard_tab.py` | the connections and states of its buttons, a timer | mode, simulation, watch list, manual order | the window follows the worker |
| other windows, notifications, settings, indicators | - | - | not state machines of interest |

How they interact: `RealDataManager.on_real_data` calls `RiskManager.on_price_update`
and `CandleAggregator.on_tick` for each tick (in that order); a finished candle calls
`StrategyManager.on_candle_complete`, whose live signals pass
`RiskManager.validate_order` on the way to `OrderManager.submit_order`. The stops of
the risk manager and manual orders call `submit_order` directly. Chejan reports with
gubun 0 move orders; those with gubun 1 go through `position_updated` to
`PositionTracker.update_from_chejan`. A login, and a change of account in the
dashboard or of the mode, query the balance and replace the tracker's content, stops and
high water marks included.

## 2. The plan

| order | modules | question |
|---|---|---|
| 1 (done) | `OrderModels`, `OrderData`, `OrderProtocol`, `OrderManager`, `Exchange`, `OrderSystem`, `OrderProofs` | do reports reach their orders, and is the manager an implementation of the order life cycle? |
| 2 (done) | `MarketHours`, `TradingData`, `PositionTracker`, `RiskManager`, `Broker`, `TradingSystem`, `TradingProofs` | do limits, stops and the daily block hold against a broker that answers late? |
| 3 (done) | `TRRequestQueue`, `SessionManager`, `AccountServer`, `AccountSession`, `SessionProofs` | does a reload leave the tracker equal to the account? does the session recover? |
| 4 (done) | `CandleAggregator`, `RealData`, `FeedSystem`; `ConditionEngine`, `CashAccount`, `PaperTrader`, `StrategyManager`, `SignalSystem`; `FeedProofs`, `SignalProofs` | is every tick in one candle, do streams come back, does at most one side win, is the cooldown kept, does paper money add up? |
| 5 (done) | `CostModel`, `BacktestEngine`, `DayStrategies`, `ReplayEngine`, `Performance`, `Simulation`, `SimulationProofs` | is money conserved with costs, are exits skipped, does the window see everything? |
| 6 (done) | `Collector`, `FoldTheorems`, `CollectorProofs` | what is stored after a crash, a lost answer, a restart? |
| 7 | the order manager with the account switch (a cancel names the account of now); the dashboard's two-step order confirmation | whose order is cancelled; what does the second click send? |

Every invariant and every action property that a passing run checks is a theorem too;
what the plan has left to prove comes with its last row.

Abstract specifications: `OrderProtocol`, implemented by `OrderSystem`;
`CashAccount`, an account that only exchanges cash for shares at prices seen,
implemented by `SignalSystem` (the paper trader loses nothing: `LossRate` is 0) and by
`Simulation` (both engines, which lose the costs of at most three trades to a candle:
`LossRate` is three times `TradeRate`); `CandlesOf`, the reference for
the candles of a sequence of ticks; for the account session, a tracker that jumps
to the account's content, which `TrackerIsAccount` states as an invariant.

## 3. What is modelled

### Orders

`OrderModels` holds the eight states of `OrderState` and `VALID_TRANSITIONS`.
`OrderData` holds ids, numbers and reports, with the FIDs the handler reads.

`OrderManager` has one variable per field. An order is its internal counter
value, which it keeps for life; `number` is its order number (0 while it is
temporary), `pending` the keys of `_pending_orders`, `index` the dictionary
`_orders`. `SubmitAll` is `submit_order` called for each order of one handler;
`HandleOrderChejan` is the order part of `handle_chejan_data`, with its three
branches (known number; unknown number and a waiting order of the stock code, the
oldest first as dictionaries keep insertion order; untracked). `ApplyReport` is
the tail: an illegal transition changes nothing, the fill data included.

`Exchange` is external: orders are answered in the order they were sent, execute
in parts, are cancelled, and each step raises one report; reports arrive in
order. Its two faults, an order of another terminal and a lost report, are
bounded and counted, and the properties say which of them they survive.

`OrderSystem` composes the two. `OrderProtocol` is what the manager promises
without any of this: states move along the table, executed quantities never
shrink, a finished order does not move.

### Trading and risk

`MarketHours` divides a day into the seven intervals of the configuration.
`PositionTracker` maps each code to a position or `NoPosition`; percentages are
whole numbers and `\div` is the truncation of `int(...)`. `RiskManager` has the
gate (`ValidateOrder`) and the tick handler, in two operators: `Exits` is the set
of codes the tick sells, `OnPriceUpdate` what it does to positions and to the
block; both follow the early returns of `on_price_update` in their order. `Broker`
is external: the price of each code, the shares held, orders at the exchange
(counted by kind, since identity does not matter here) and balance reports under
way. `TradingSystem` has the strategy's order through the gate, the manual order
past it, ticks, reports, executions, the clock, and the balance query. A query
begins (`QueryBalance`), reads rows in any pages while the account moves on (`ReadPage`), and with the last
page rebuilds the tracker (`LoadBalance`, the whole of `_on_balance_loaded`): every row becomes
a new position, with the stops and the high water mark of its average price. A row read
before the last execution is out of date; `stale` is a history variable with the codes
loaded from such rows and not reported since, and the properties name it where they need it.

A tick action includes everything `on_price_update` does: price, positions, block,
and the submission of all its orders, each of which may fail to be sent.

### Account session

`TRRequestQueue` is the queue with its repeating timer in ticks of time: `Enqueue`
is every enqueue of one handler (an idle queue sends the first request at once),
`ProcessNext` a timeout. `SessionManager` has the retry count and its two timers;
they fire at any time while they run. `AccountServer` is external: the connection,
logins, account contents, balance queries answered in pages of any size (a request
that meets no connection is lost, `CommRqData`'s error is only logged), balance
reports, which exist only while the connection stands, and one FIFO of events. A
lost connection may announce itself by a failing `OnEventConnect`.

`AccountSession` is the wiring. `SelectAccounts` is `_select_account` called for
each account of one handler. A login selects in turn the account that was active,
the stock account, and the selector's first account once per earlier login:
every login connects another slot to the selector, and filling the selector
changes its index. For the same reason a choice of the user selects its account
once per login. Each query is a new `BalanceQuery`, but all share one request name, so
`rows` are those of the query registered last, and every response is added to
them. Of the tracker only quantities are kept here; `TradingSystem` has the reload's prices and
stops, of one account with the connection standing.
`disturbed` is a history variable: what happened since the last query that began
when none was under way.

### Ticks and candles

`CandleAggregator` has `on_tick`, `_finalize_candle` and the flush as operators on
the candles being built; slots are minutes divided by `Minutes`, and a tick without
a time falls in slot 0, as in the code. Beside it stands `CandlesOf`, which cuts a
sequence of ticks into runs of equal slots with no state at all. `RealData` has the
subscriptions, the tracked list and the screen numbers. `FeedSystem` wires both: a
login restores what is tracked and then subscribes the watch list, a lost connection
takes all streams, the user edits the watch list, trades raise events. A live event
reaches the aggregator with the FIDs `on_real_data` extracts; a replay drives an
aggregator of its own with rows in any order of time, some of them without one.

### Signals and paper trading

`ConditionEngine` evaluates nested rules and crosses on a context of current and
previous values. What an indicator computes is open: a candle brings a number for
each, which a strategy sees after its own warm-up, and VWAP has none on a candle
without volume. `StrategyManager` is `on_candle_complete` as one action: indicators,
previous values, rules of all assigned strategies, `ResolveConflicts`, cooldowns,
execution. `PaperTrader` buys and sells for whole numbers and truncates its average at each
purchase; `slack` is a history variable that counts what the truncations can have
cost. `SignalSystem` adds what `main.py` does around them: the mode button, the hot
swap of strategies, the poll of the market hours and its one callback. Its candles
carry a time; that live ones do not is the finding `live_candles`.

### Simulations

`BacktestEngine` and `ReplayEngine` are operators on a record (capital, positions,
trades, equity curve, profit of each day with sales), over `CostModel` with commissions, tax and
slippage in millionths. `DayStrategies` has the state machine of each of the five
intraday strategies, as a function from state and candle to state and signals.
`Performance` has the metrics. `Simulation` is what runs them: the worker thread
in steps at which the window may interleave (a candle is published, then handled; a
code is closed at the end; the finish is emitted), and the window: poll, finish,
start, stop with `terminate`, and the mode button, whose handlers share the start
button with the simulation. `kind` tells a backtest from a replay with the settings'
strategies, one day strategy or all of them; the signals of the settings' strategies
are any of `Signals`. A backtest's candles may be of several days (`BacktestMoments`), and its daily
limit looks at the profit of the candle's own day (`DayOf`). A run may end with an exception at any
step (`Fails`): its handler stops the timer without another poll. `outcome` is a history variable
that says how a run ended by itself.

### Collectors

`Collector` is the process of the three scripts: login, pages of minute candles newest
first, rows stored when a code is complete, ticks, commit timer, clean-up at six o'clock,
crash at any step and restart of any script on the same files. A tick is handled in the
steps between which the process may die: the row written to the buffered CSV file of
its type and counted (`WriteRow`), the row inserted in the open transaction (`InsertRow`),
and, with every fiftieth tick of all types, each file flushed (`FlushFile`) and then the
transaction committed (`CommitFlushed`); the clean-up flushes and commits in the same way
(`BeginCleanup`, `FlushFile`, `EndCleanup`). A crash loses the open transaction and, of each CSV buffer,
all but a part Python may have handed to the system before. The request that is never answered stands for a refused
`CommRqData` and for a lost connection, which look the same to the script.

### Left out of orders and trading

Order states in `TradingSystem` and positions in `OrderSystem`, because
the code keeps them apart as well (nothing in the risk manager or the tracker
reads an order's state); prices of limit orders, because every order the program sends by
itself is a market order.

## 4. What the runs check

| run | configuration | bounds | shows |
|---|---|---|---|
| `orders` | `MCOrderSystem.cfg` | 2 codes, 2 orders of 2 shares, 3 numbers, 2 reports under way, 1 fault | 258,430 states. `Placement`: dictionaries and numbers agree. `NumbersMatch`: matching by code finds the right order while the account is not shared. `ViewAgrees`, `ActiveAgrees`: with its reports handled, what is shown is what the exchange has. `ImplementsProtocol`. `FinishedIsShown`, `WaitingEnds` under fairness |
| `risk` | `MCTradingSystem.cfg` | 2 codes, 1 share each, 2 prices, limit of 1 position, 1 manual order, trading and closing, pages of 1 and 2 rows | 1,176,016 states (codes are symmetric). `LimitsHold`: the position limit holds unless a buy was sent while another was under way or the tracker was out of date. `TrackerAgrees`: also after balances of several pages. `BlockedOnlyShrinks`: after the daily limit no strategy buys |
| `stops` | `MCTradingExit.cfg` | 1 code, up to 2 shares bought and sold in parts, 2 reports under way | 113,102 states. `TrackerAgrees`, `StopsNeverLoosen` from one load of the balance to the next, and `StopSells` under fairness. With one code a balance is one page, so rows are never out of date here; they are in `risk` |
| `realized` | `MCTradingRealized.cfg` | as `stops` | violation: a closed position's result leaves the day's profit |
| `session` | `MCAccountSession.cfg` | 2 accounts, 2 codes, 1 lost connection, 1 failing login, 1 execution, 1 choice | 1,127,293 states. `TrackerIsAccount`: a reload nothing disturbs leaves the tracker equal to the active account. `NeverHurried`: TR requests keep their distance |
| `recovery` | `MCSessionRecovery.cfg` | 2 lost connections, 1 failing login each, 3 retries | 6,064 states. `Watched`: something will wake the session; `Recovers` under fairness |
| `reload` | `MCSessionReload.cfg` | as `session` | violation: two queries under way leave the tracker with the shares of both accounts |
| `feed` | `MCFeedSystem.cfg` | 2 codes, 3 ticks, slots of 2 minutes, minutes 0 to 2, 3 logins, 2 edits | 926,044 states. `StreamsRestored`: after each login exactly the stocks of all logins' watch lists stream. `CandlesAreTicks`: the candles are `CandlesOf` the ticks handed on, and none is left when a replay ends |
| `live_candles` | `MCFeedLive.cfg` | same | violation: a live tick of a later minute completes no candle |
| `paper` | `MCSignalSystem.cfg` | 1 code, 2 strategies, 4 candles, 1 mode change, 1 reload | 92,680 states. `CrossesAreFresh`, `OneSidePerCandle`, `CooldownKept`, `DayBeginsFresh`: what is remembered from candle to candle is of the right candle, over swaps, switches and the start of the day. `ProfitIsTrue`: the profit reported drifts by no more than the truncations. `ImplementsAccount` |
| `simulation` | `MCSimulation.cfg` | 2 codes, up to 4 candles of 3 shapes, a replay's at minutes 5, 35, 60 and 300, a backtest's at 5, 35, 60 and the next morning, capital 1000, 3 kinds of signals | 1,533,008 states (codes are symmetric). `CapitalAccounted`, `ImplementsAccount`: the money adds up. `NothingHeldPastItsStop`, `SomeoneWillSell`: no position is forgotten by stops or strategies. `CandlesShown`: when a run came to its end the window has all that was published. `MetricsTrue`: drawdown, holding time and losing streak against definitions that look at all pairs, profits and losses against the capital |
| `collector` | `MCCollector.cfg` | 2 codes, pages of 2 candles, 5 minutes from the second on, 4 ticks of 2 types, flush every 2, 1 lost answer, 1 crash | 1,605,487 states. `NoGaps`, `TicksKept`: what is on disk. `RealtimeStarts` under fairness |

Why the bounds are enough: two orders of one stock are the smallest case in which
matching by code can go wrong, a third number leaves room for the foreign order,
quantity 2 gives a partial execution. In the risk model a limit of one position
with two stocks is the smallest case the limit is reached, and two rows are what a page
may end between; prices 8 and 11 with a stop of 20 % and a take profit of 30 % reach the fixed stop,
the take profit (bought at 8, sold at 11) and the daily limit of 3 %. The run `stops` adds the
price 9 and a trailing stop of 10 %, which fires with and without a new high. In the session, two codes are what makes a
second page, one loss puts every event once before and once after a reconnection,
two losses show whether retries come back; an outage costs at most three of them
(the announcement, the heartbeat, a failing login), so `recovery` allows three and
`session` two, which lets them run out as well.

Of the newer runs: three ticks and slots of two minutes are enough for a tick that
stays, one that closes a candle and one that comes late; a third login restores what the
second had subscribed on top of what it restored itself. Four candles outlast
both warm-ups, the longer cooldown (3) and the shorter (2), with one swap or switch
between any two of them; volume 0 and closes on both sides of the indicator reach both
rules of each strategy. In the simulation the four times of a replay lie before and after the
opening range, inside the day and after two o'clock, the last of a backtest on a second day, whose
profit begins at nothing; the shapes move the price by 4
%, so that stop loss (4 %), target (8 %), trailing stop (3 %), daily limit
(4 %), entry and exit of each day strategy and a declined buy (half the capital per
stock) all occur. In the collector
five minutes with a cutoff of two and pages of two give two full pages and a last one that crosses
the cutoff; four ticks make two flushes, and one crash comes before, between and after each step
of a tick: a crash between the last insert and its commit costs the database the whole flush
that the bound allows, and one between a file's flush and the commit leaves the CSV ahead of it.

Deadlock is not checked: each model stops when its bounds are used up.

**Fairness.** `OrderSystem`: the event loop handles reports that are queued, the
exchange answers orders that were sent. `TradingSystem`: the same for balance
reports, ticks at the price that holds keep coming (a stock that trades), and the
broker settles each order, by executing or refusing it. No fairness on
strategies, users, executions of limit orders, the clock, or price changes.
`AccountSession`: events and timeouts are handled, time passes, a `CommConnect` is
answered; losses and failures are bounded, not fair.
`Collector`: a handler that has begun runs to its end, the timers fire, the server answers a request that is not lost, a login
succeeds at last, a crashed process is started again.
`StopSells` is stated for behaviours in which buys of the code stop: strategies
that buy again as fast as the stop sells keep a position open. Loads of the balance are not
fair, but may recur for ever; the property counts a stop that a load moved away from the price as gone, and
asks that the code is not loaded from outdated rows for ever.

**What the code does that no run restates.** Some departures from what one would
expect are plain in the code, and the models contain them as they are. Each stands
where a property had to be stated with a condition, or where a reader may look for
one.

* Orders. A report of another terminal's order of the same stock gives its number
  to the waiting order (`order_manager.py:201`; `NumbersMatch` is conditioned on no
  such order). Stops do not ask the market hours and may send orders while
  orders are blocked, and each tick at a stop sells again what is being sold
  (`risk_manager.py:148`).
* Balance. Every load (a login, an account chosen, a change of mode) clears the tracker and adds
  each holding anew (`main.py:696-707`): a trailing stop that had risen falls back, and fixed stops
  start from the average of now. `StopsNeverLoosen` speaks of all steps but the load. Rows are
  those of the moment they were read; until a report or another load, the tracker may hold what the account has
  sold since (`TrackerAgrees` leaves those codes out, and `LimitsHold` the buys meanwhile).
* Candles. Watch list additions stream from the next login on (`EditWatchlist`). The
  list of tracked subscriptions grows with each login.
* Rules. No context holds `price_prev`, so a cross of the price never fires, which two presets
  use (`vwap_breakout.json:24`, `gap_reversal.json:29`). An empty AND
  rule is always true. A candle without volume leaves the previous values of an
  older candle (`CrossesAreFresh` is conditioned on volume). With priority 0 both
  sides survive (`OneSidePerCandle` asks for positive priorities).
* Reload. A reload drops the paper trader with what it holds (`main.py:290-300`);
  in paper mode nothing trades until the mode is chosen again.
* Engines. A `BUY` that is declined suspends the stops of that code for the candle
  (`replay_engine.py:183`; `NothingHeldPastItsStop` leaves out the two kinds in which one
  strategy may bid for what another holds). All strategies together sell each other's
  positions. With more than half the capital allowed for one stock and the rates to match, a buy that is "reduced
  to fit" can still cost more than there is, since the commission of one share is
  truncated and that of all is not (`backtest_engine.py:161-168`: a capital of 302, shares
  of 150 and a commission of 1 % leave -1). The run allows half, and
  `CautiousTypes` proves that with half or less it cannot happen. A stop loss or a
  target of zero percent calls for a sale at the very price of the purchase, and the candle that
  buys does not look at the stops again (`StopsSell` asks for percentages above zero).
* Window. After a simulation that ended by itself the button is still connected to
  stop, so the next start takes two clicks; and its end enables the button also when the
  program has gone live meanwhile (`main.py:948-957`). Trades of the last candle and of the forced
  close are published with no candle and never shown (`CandlesShown` speaks of
  those published). A run that fails shows nothing of what it published since the last poll
  (`main.py:962-968`; `CandlesShown` speaks of runs that came to their end). Stopping terminates the thread
  wherever it is.
* Collectors. A lost answer ends the fetch for good, and with it real-time collection in
  `collector.py` (`RealtimeStarts` excludes it). A minute stored while it ran
  stays as it was (`INSERT OR IGNORE`). Clean-up may run twice.

## 5. What is proved

Everything here holds for all values of the constants that meet the assumptions of
the modules: any finite set of stocks, any prices, percentages, capacities and
bounds. The theorems state the properties the runs check; the invariants named beside
them are what their proofs rest on.

### Orders (`OrderProofs`)

* `TypeCorrect`: `Spec => []TypeOK`.
* `PlacementHolds`: `Spec => []Placement`.
* `OrderManagerImplementsProtocol`: `Spec => Protocol!Spec`, step by step: each
  handler moves every order by one transition of the table or not at all.
* `NumbersAreOwn`, `ViewsAgree`, `ActiveOrdersAgree`: `NumbersMatch`, `ViewAgrees` and
  `ActiveAgrees` always hold.

The invariant of the first three is `IInv`, six named parts. `TypeOK` and `Placement` are not
inductive alone. That executed quantities never shrink (the refinement) needs that
a report about to be handled shows no less than what the manager shows:
`FillsBehind`; that holds after a report only because the reports of one order are
in order (`ReportsOrdered`) and none shows more than the book (`ReportsTrue`).
`Untouched` says that orders without a number have nothing executed and that those
not created are in the initial state, which makes a new order's transition legal.

The last three speak of behaviours without faults, and rest on `Undisturbed`. That the
oldest waiting order of a stock is the one a new number belongs to holds because orders
are sent, numbered and answered in one order (`SentInOrder`, `AnswersFirst`), and because
an order waits exactly as long as the report with its number is under way
(`Waiting`). That a view agrees once nothing is under way holds because the last
report of an order always says what the book says (`LastSays`), because nothing is reported after an
end (`FinalLast`), and because the manager can then accept what is reported: what it
shows has moved no further than the reports (`ShownViews`, `Contents`). Each step
has a lemma; handling a report is the long one (`ReportFindsItsOrder`, `UndisturbedHandle`).

### Trading and risk (`TradingProofs`)

* `Types`: `TypeOK`, the truncating division of average prices and stops included. The runs
  of this module leave `TypeOK` to the proof.
* `StopsOnlyTighten`: `StopsNeverLoosen`, an action property of every step but the load of a
  balance. `StopsFollow` (the trailing
  stop is that of the high water mark) is the invariant it needs, with the
  monotony of the quotient (`TrailingStopRises`).
* `TrackerFollowsAccount`: `TrackerAgrees`. `LastReportIsTrue` says that the last report
  under way of each stock is what the account holds. A load takes the account's word for every stock but
  those whose row is out of date, which it puts in `stale` (`AgreementLoad`); the report that
  takes a stock out again is by then the last one under way, or the property does not speak of it yet.
* `PositionLimit`: `LimitsHold`. The gate counts positions of the tracker, which lag. The
  invariant `CommittedFits` bounds the set of stocks held together with those that buys at the exchange
  may add; a sale, a report or a refusal can only shrink it.
* `BlockHolds`: `BlockedOnlyShrinks`, an action property.

### Account session (`SessionProofs`)

* `SessionTypes`: `Spec => []TypeOK`.
* `RequestsSpaced`: `Spec => []NeverHurried`. The invariant `Spaced` says that a
  running timer and the time since the last request together make an interval.
* `NeverAsleep`: `Spec => []Watched`. `Watched` alone is not inductive: a reconnect
  timer whose `CommConnect` meets a standing connection leaves nothing behind.
  `Awake` adds that a standing connection is watched by the heartbeat or has its
  login event on the way.
* `AccountTracked`: `TrackerIsAccount`, for any accounts, any number of pages and
  connections lost at any point. The property speaks of the end of a reload only; the
  invariant `Reloads` speaks of its course, and needs four parts. `PagesCome`: the
  pages a query has left will be asked for, and a lost connection leaves none.
  `LoadsOne`: unless disturbed, the rows read, the rows on their way, the requests
  queued and the query begun are all of the active account, so no other account's
  rows get mixed in. `LoadsAll`: with the connection standing and its login handled,
  each code held has been read or will be (`Coming`), and every report is handled
  before the last rows, which would otherwise undo it or be undone (`ReportsFirst`).
  `Follows`: after the last rows the tracker has each holding, or the last report on
  its way brings it. While the connection is down only the first two hold; the login
  that follows starts a reload that establishes the others. `SentMoves` carries the
  argument: a request that leaves moves what is to come from the queue to the events.

### Ticks and candles (`FeedProofs`)

* `FeedTypes`, `LoginsRestore`: `TypeOK` and `StreamsRestored`. `IInv` adds to the types that each
  subscription has a screen of its own below the next (`ScreensOwn`; two on one
  screen would replace each other at the server) and that what is tracked is what
  every login wanted, and is registered while connected (`TrackedIsWanted`).
* `CandlesComplete`: `CandlesAreTicks`, the aggregator against the stateless
  `CandlesOf`. The property speaks of the candles given; the invariant `CInv` says for each
  stock which run each given candle stands for, that the candle being built is that of the last
  run, and that this run has all ticks since its start (`BuildingRun`). A tick
  then either lengthens the last run (`GrownCandle`) or ends it and begins one (`NextRun`,
  `OneMoreRun`), and the flush gives the last (`FlushGives`), in any order of the stocks.

### Signals and paper trading (`SignalProofs`)

* `SignalTypesKept`, `CrossesFresh`, `OneSide`, `DayFresh`, `ProfitTrue`: the five
  invariants of the run. They are inductive together with three facts (`Inv`). What
  is remembered of an indicator is of a candle on which it was warm
  (`RemembersWhenWarm`), else a candle without a value would leave an older one. The
  poll lags the clock by one interval at most (`PollFollows`). The account's slack
  bounds the drift of the profit (`AccountIsSound`).
* `CooldownsHold`: `CooldownKept`, an action property of the survivors of one candle.
* `PaperIsAccount`: `ImplementsAccount`, so `SignalSystem` implements `CashAccount` with a loss rate of 0:
  each step is one exchange at the candle's close, a fresh account, or a stutter.
  Arithmetic that the provers do not find alone has its own lemma
  (`BuyIsPaid`: a part of the cash divided by the price pays for itself;
  `AverageTruncates`).

### Simulations (`SimulationProofs`)

* `MoneyAddsUp`: `CapitalAccounted`, for any rates. `WellKept` is what each buy and
  each sale keeps of an account: the sum over the stocks of what their shares cost changes in one
  stock only (`PaidChange`), and a sale's result is what it brings less that cost.
* `CautiousTypes`: `TypeOK` if `MaxSymbolWeight <= 50` (the program's default is 20). The
  hypothesis is needed: see the engines in section 4. `CautiousBuyIsPaid` shows why a half
  suffices: rounding adds less than one won per share to the commission, and a share costs at least one.
* `CautiousIsAccount`: `ImplementsAccount` if `MaxSymbolWeight <= 50`, so `Simulation`
  implements `CashAccount`. Every operation of an account is shown to be a `Stepped`, which
  composes (`StepsJoin`): it changes one code, the worth of cash and shares at the price does not
  grow, and shrinks by no more than `TradeRate` for each trade it adds (`Costs`, `BuyCharges`,
  `SaleCharges`, `ChargesAdd`). A backtest trades at most three times on a candle (two
  signals and a trigger), a replay at most twice (`Counted`: after a bid nothing is sold, after a
  sale nothing is left to sell). `Seen` says that prices are closes: what is held was bought at one,
  which the forced close of a replay sells it at.
* `StopsSell`: `NothingHeldPastItsStop` if stop loss and target are above zero.
* `StrategiesRemember`: `SomeoneWillSell`. `Believed` says the same at every step of
  the thread. Each of the five strategies is shown to forget what it holds
  only in the answer in which it offers to sell, and to enter only before two
  o'clock (`ORBSound`, `GapSound`, `VWAPSound`, `FlowSound`, `PrevDaySound`); `AnsweredKeeps` carries
  this over the turns in which several of them trade on one account.
* `EverythingShown`: `CandlesShown`. `Polled` relates thread and window, and says that a
  run which ended by itself holds nothing.
* `MetricsAreTrue`: `MetricsTrue` if `MaxSymbolWeight <= 50`, for lists of any length. Of the account
  it needs that every sale has its buy before it and that buys make no profit (`Matched`),
  and that no equity is negative, which is what the hypothesis is for: a drawdown is
  a part of a peak. Each metric is a loop over a list, and its proof one over the loop's
  first steps: the peak is the highest so far and no earlier fall is steeper (`Falls`; a new peak
  makes the steepest fall to the equity at hand, `PeakFallsMost`); the current streak is the longest that
  ends here, the other the longest anywhere (`Streaks`); the times still in the queue are those
  of the buys not yet counted off (`Pairs`). The profits are the sum over the trades in two parts.

### Collectors (`FoldTheorems`, `CollectorProofs`)

* `CandlesJoin`: `NoGaps`. `PagesJoin` says that the rows taken so far reach without a gap from
  the cursor up to the newest of the first page, so that what is inserted is a run of
  minutes (`RowsDistinct`: and none is stored twice).
* `TicksSurvive`: `TicksKept`. `TickInv` bounds what a crash can take, at each step of a tick:
  the rows all CSV buffers hold together are those since the last flush, and the open
  transaction has no more (`OpenIsRecent`, by the counters' sum modulo the flush: a tick written and
  not yet inserted may complete the flush). What is on disk together with what is open is in order and
  misses at most a flush per crash, in the database (`DbKept`) and summed over the files (`FilesKept`,
  `RowsKept`). A flush or a commit moves rows and changes no sum (`RowsChange`).
* `CollectorTypes`: `TypeOK`.

`FoldTheorems` has what these proofs and those of the accounts need of sums over
finite sets (`SumType`, `SumSplit`, `SumChange`, `SumParts`, ...), of greatest members (`GreatestExists`)
and of folds over sequences: the recursion by which `FoldLeft` is defined has a solution
(`FoldExists`), so a fold can be followed step by step.
The library's induction theorems take an operator as parameter, which the installed provers
cannot instantiate; here induction is over sets instead: a set of subsets that has each
subset whose parts with a member less it has is all of them (`Subsets`).

### Assumptions

Beside types and signs: sets of codes, indicators and kinds of ticks are finite; model values
such as `NoCandle`, `NoTrader`, `NoPosition`, `Never` are none of the values
they stand beside; fixed and trailing stops are at most 100 %; a watch list names a
strategy at most once per stock; a warm-up takes at least one candle; slippage is at most 100 %
and the costs of a sale no more than what it brings; the low of the day before is
not above its high. They are ASSUMEs of the modules, which TLC evaluates in each run.

### Only model-checked

* `WaitingEnds`, `FinishedIsShown`, `StopSells`, `Recovers` and `RealtimeStarts`:
  liveness under fairness and ENABLED are outside this prover.

No module with theorems uses RECURSIVE operators, whose definitions these
provers cannot expand.

## 6. What is not modelled

See the components with status `not_modelled` and the hazards that carry a note in
`PROJECT.json`. In short:

* Indicators: floating-point formulas over histories; what the strategies do with
  their values is modelled for any values. The Sharpe ratio and daily returns are
  left out for the same reason. Where the engines compare or truncate floats the models
  use exact whole numbers.
* The data source of backtests (`backtest/data_source.py`). `get_candles` reads
  the answer right after it has queued the request (lines 99-110), so it finds what
  was there before; there is no asynchrony to model until it waits.
* `scripts/replay.py`, a command line around the replay engine. What the account of a run that
  failed has become within the candle it failed at: nothing reads it afterwards.
* The copy of fetched candles in CSV files, which a second run appends again.
* The dashboard's two-step order confirmation (hazard `dashboard_tab.py:736`), its
  tables, the other windows, notifications and logging (output), reading and writing
  of settings (file I/O). An order cancelled after an account switch (hazard
  `order_manager.py:150`).
* Backtests and replays at the same time: their workers share nothing.
* The context of the day before is present for every code; the cutoff of a fetch
  does not move while it runs.

`RiskManager.on_closing_time`, `split_buy`, `split_sell` and `reset_daily`,
`PositionTracker.update_position`, `record_realized_pnl` and `reset_daily`, and
`RealDataManager.unsubscribe` and `unsubscribe_all` have no
caller in the program; modelling them would describe something that does not run.
