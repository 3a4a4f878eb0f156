----------------------------- MODULE Simulation -----------------------------
(***************************************************************************)
(* A simulation as main.py launches it (_launch_simulation): a worker      *)
(* thread replays candles and leaves what the window is to show in lists,  *)
(* a timer of the window polls them, and the dashboard's button starts and *)
(* stops it, beside the button of the trading mode. A backtest is run by   *)
(* the same kind of worker and shows nothing before it ends.               *)
(***************************************************************************)
EXTENDS ReplayEngine, Performance

CONSTANTS
  Shapes,                 \* external: open, high, low, close, volume of candles
  Signals,                \* external: the sides the settings' strategies may signal
  Moments,                \* bound: the times of a replay's candles, one each,
  BacktestMoments         \* and of a backtest's, which may be of several days

ASSUME SimulationAssumption ==
  /\ Moments \in Seq(Nat) /\ BacktestMoments \in Seq(Nat)
  /\ Shapes \subseteq [open : Nat, high : Nat, low : Nat, close : Nat, volume : Nat]
  /\ Signals \subseteq UNION {[1 .. n -> {"BUY", "SELL"}] : n \in 0 .. 2}

VARIABLES
  kind,                   \* what the worker runs, or ran last
  account, states,        \* of the engine and the day strategies
  next,                   \* candles so far, published in pending_candles
  candle,                 \* the last of them
  worker,                 \* where the thread is
  event,                  \* the signal it emitted that the window has not handled
  published,              \* pending_trades
  outcome,                \* history: how the run ended, if it ended by itself
  polling,                \* the timer is active
  shown,                  \* candles and trades the window has taken
  slot, enabled,          \* what _btn_sim_start is connected to; it can be clicked
  checked, mode           \* _btn_mode; StrategyManager._mode

workerVars == <<kind, account, states, next, candle, worker, event, published, outcome>>
windowVars == <<polling, shown, slot, enabled, checked, mode>>
vars == <<workerVars, windowVars>>

DayKind == DayStrategy \cup {"ALL"}
Replay == DayKind \cup {"config"}
NoCandle == [code |-> "none", close |-> 0, time |-> 0]
TimesOf(k) == IF k = "backtest" THEN BacktestMoments ELSE Moments

\* The thread and the window agree on what is where.
TypeOK ==
  /\ kind \in Replay \cup {"backtest"}
  /\ account.capital \in Nat
  /\ \A c \in Code : account.positions[c].qty \in Nat
                     /\ account.positions[c].highest >= account.positions[c].avg
  /\ Cardinality(Holdings(account)) <= MaxPositions
  /\ next \in 0 .. Len(TimesOf(kind))
  /\ worker \in {"idle", "waiting", "handling", "closing"}
  /\ {event, outcome} \subseteq {"none", "finished", "error"}
  /\ shown.candles \in 0 .. next /\ shown.trades \in 0 .. published
  /\ published \in 0 .. Len(account.trades)
  /\ slot \in {"start", "stop"} /\ {polling, enabled, checked} \subseteq BOOLEAN
  /\ mode \in {"paper", "live"}

\* Everything of a run before its first candle.
Clean ==
  /\ account' = NewAccount /\ states' = NewStates
  /\ next' = 0 /\ candle' = NoCandle /\ published' = 0 /\ outcome' = "none"
  /\ shown' = [candles |-> 0, trades |-> 0]

Prepare(k) ==
  /\ kind' = k /\ worker' = "waiting" /\ Clean
  /\ UNCHANGED event

Init ==
  /\ kind = "config" /\ worker = "idle" /\ event = "none"
  /\ account = NewAccount /\ states = NewStates
  /\ next = 0 /\ candle = NoCandle /\ published = 0 /\ outcome = "none"
  /\ polling = FALSE /\ shown = [candles |-> 0, trades |-> 0]
  /\ mode \in {"paper", "live"} /\ checked = (mode = "live")
  /\ slot = "start" /\ enabled = (mode = "paper")

-----------------------------------------------------------------------------
(* The worker thread *)

\* The aggregator completes a candle: it is published, with the trades so far,
\* before anything is done about it. A backtest is of one code and publishes
\* nothing.
CandleArrives ==
  /\ worker = "waiting" /\ next < Len(TimesOf(kind))
  /\ \E c \in Code, shape \in Shapes :
       /\ kind = "backtest" /\ next > 0 => c = candle.code
       /\ candle' = [code |-> c, time |-> TimesOf(kind)[next + 1], open |-> shape.open,
                     high |-> shape.high, low |-> shape.low, close |-> shape.close,
                     volume |-> shape.volume]
  /\ next' = next + 1
  /\ worker' = "handling"
  /\ published' = IF kind = "backtest" THEN 0 ELSE Len(account.trades)
  /\ UNCHANGED <<kind, account, states, event, outcome, windowVars>>

\* The strategies of the settings are off when day strategies are chosen.
HandleCandle ==
  /\ worker = "handling" /\ worker' = "waiting"
  /\ \E sides \in IF kind \in DayKind THEN {<<>>} ELSE Signals :
       account' = IF kind = "backtest" THEN BacktestCandle(account, candle, sides)
                  ELSE ReplayCandle(account, kind, states, candle, sides)
  /\ states' = StatesAfter(kind, states, candle)
  /\ UNCHANGED <<kind, next, candle, event, published, outcome, windowVars>>

\* The data ends; a backtest without any has failed before.
DataEnds ==
  /\ worker = "waiting" /\ worker' = "closing"
  /\ next > 0 \/ kind # "backtest"
  /\ UNCHANGED <<kind, account, states, next, candle, event, published, outcome, windowVars>>

\* The forced close of one code.
CloseOne ==
  /\ worker = "closing"
  /\ \E c \in Holdings(account) :
       account' = IF kind = "backtest"
                  THEN ExecuteSell(account, [code |-> c, close |-> candle.close,
                                             time |-> candle.time])
                  ELSE CloseAtAverage(account, c, candle.time)
  /\ UNCHANGED <<kind, states, next, candle, worker, event, published, outcome, windowVars>>

\* The end of the worker's run.
Finishes ==
  /\ worker = "closing" /\ Holdings(account) = {}
  /\ worker' = "idle" /\ event' = "finished" /\ outcome' = "finished"
  /\ UNCHANGED <<kind, account, states, next, candle, published, windowVars>>

\* The run ends with an exception, wherever it is: the data cannot be opened, a
\* row cannot be read, a strategy raises. What a candle had changed by then is
\* left out, since nothing reads the account of a run that failed.
Fails ==
  /\ worker # "idle"
  /\ worker' = "idle" /\ event' = "error" /\ outcome' = "error"
  /\ UNCHANGED <<kind, account, states, next, candle, published, windowVars>>

-----------------------------------------------------------------------------
(* The window *)

AllTaken == shown' = [candles |-> next, trades |-> published]

\* _poll_worker, of the timer.
Poll ==
  /\ polling /\ AllTaken
  /\ UNCHANGED <<workerVars, polling, slot, enabled, checked, mode>>

\* _on_finished and _on_error stop the timer and enable the button, which
\* stays connected to _stop_sim. (Mutant: what the last poll left is not taken.)
EndUnflushed ==
  /\ event # "none" /\ event' = "none"
  /\ polling' = FALSE /\ enabled' = TRUE
  /\ UNCHANGED <<kind, account, states, next, candle, worker, published, outcome, shown, slot,
                 checked, mode>>
HandleEnd ==
  /\ event # "none" /\ event' = "none"
  /\ IF kind = "backtest" THEN UNCHANGED <<polling, enabled, shown>>
     ELSE /\ polling' = FALSE /\ enabled' = TRUE
          /\ IF event = "finished" THEN AllTaken ELSE UNCHANGED shown
  /\ UNCHANGED <<kind, account, states, next, candle, worker, published, outcome, slot,
                 checked, mode>>

\* A click on the button while it starts: _on_sim_start, _on_sim_requested and
\* the rest of _launch_simulation. update_status is given the mode "replay".
ClickStart ==
  /\ slot = "start" /\ enabled /\ worker = "idle" /\ event = "none"
  /\ \E k \in Replay : Prepare(k)
  /\ slot' = "stop" /\ polling' = TRUE /\ checked' = FALSE
  /\ UNCHANGED <<enabled, mode>>

\* A click while it stops: _stop_sim, which terminates the thread wherever it
\* is; nothing reads its account any more. What it emitted is still delivered,
\* and after a run that ended by itself the click finds no thread.
ClickStop ==
  /\ slot = "stop" /\ enabled /\ slot' = "start"
  /\ polling' = FALSE /\ checked' = FALSE
  /\ IF kind # "backtest" /\ worker # "idle" THEN worker' = "idle" /\ Clean
     ELSE UNCHANGED <<account, states, next, candle, published, outcome, shown, worker>>
  /\ UNCHANGED <<kind, event, enabled, mode>>

\* BacktestWorker, of the strategy tab.
StartBacktest ==
  /\ worker = "idle" /\ event = "none"
  /\ Prepare("backtest")
  /\ UNCHANGED <<polling, slot, enabled, checked, mode>>

\* _on_mode_toggle: the click checks or unchecks the button, going live is to
\* be confirmed, and _apply_mode_theme gives the start button to paper mode.
ClickMode ==
  /\ checked' = ~checked
  /\ mode' = IF checked THEN "paper" ELSE "live"
  /\ enabled' = checked
  /\ UNCHANGED <<workerVars, polling, shown, slot>>

\* The market-hours callback of the dashboard shows the mode of the settings.
MarketStateChanges ==
  /\ checked' = (mode = "live")
  /\ UNCHANGED <<workerVars, polling, shown, slot, enabled, mode>>

Next ==
  \/ CandleArrives \/ HandleCandle \/ DataEnds \/ CloseOne \/ Finishes \/ Fails
  \/ Poll \/ HandleEnd \/ ClickStart \/ ClickStop \/ StartBacktest \/ ClickMode
  \/ MarketStateChanges

Spec == Init /\ [][Next]_vars

-----------------------------------------------------------------------------
(* Properties *)

\* What all trades made.
ProfitOf(trades) == ProfitIn(trades, DOMAIN trades)

\* The results reported trade by trade are the whole story: with what the open
\* positions cost they make up the difference to the initial capital, although
\* a sale computes its cost anew.
CapitalAccounted ==
  LET cost == [c \in Code |-> CalcBuyCost(account.positions[c].avg, account.positions[c].qty)]
  IN account.capital + SumFunctionOnSet(cost, Code) = InitialCapital + ProfitOf(account.trades)

\* What one trade may cost, in parts of 100000: the slippage, and the dearer of
\* the fees of a buy and a sale.
TradeRate == 10 * Slippage + Top(BuyCommission, SellCommission + Tax)

\* The account only exchanges shares for cash at a close it has seen, losing
\* no more than the costs of three trades to a candle.
Shares == [c \in Code |-> account.positions[c].qty]
Closes == {shape.close : shape \in Shapes}
Account == INSTANCE CashAccount WITH Price <- Closes, InitialCash <- InitialCapital,
             LossRate <- 3 * TradeRate, cash <- account.capital, held <- Shares
ImplementsAccount == Account!Spec

\* Once a candle is handled its code is not held at a close where a stop or
\* the target should have sold it, unless one strategy may bid for what
\* another holds, which suspends the stops for that candle.
PastItsStop(pos, close) ==
  \/ 100 * (pos.avg - close) >= StopLoss * pos.avg
  \/ 100 * (close - pos.avg) >= TakeProfit * pos.avg
  \/ pos.highest > pos.avg /\ 100 * (pos.highest - close) >= TrailingStop * pos.highest
NothingHeldPastItsStop ==
  /\ kind \notin {"config", "ALL"} /\ worker \in {"waiting", "closing"}
  /\ candle.code \in Holdings(account)
  => ~PastItsStop(account.positions[candle.code], candle.close)

\* Whatever is held, some day strategy believes it holds it and will sell it
\* by itself, though strategies sell each other's shares, stops sell behind
\* their backs, and buys are declined; and after two o'clock nothing is held.
SomeoneWillSell ==
  kind \in DayKind /\ worker \in {"waiting", "closing"} =>
    \A c \in Holdings(account) :
      /\ \E n \in Traders(kind) : states[n][c].inside
      /\ c = candle.code => candle.time < Two

\* When a run has come to its end the window has taken every candle, and every
\* trade published with one. (After one that failed, what the timer had not
\* polled is lost.)
CandlesShown ==
  kind # "backtest" /\ slot = "stop" /\ ~polling /\ outcome = "finished" =>
    shown = [candles |-> next, trades |-> published]

\* The metrics against definitions that look at all pairs, or at all runs.
DrawdownIsDeepest(m) ==
  LET curve == account.curve
      falls == {<<curve[p[1]] - curve[p[2]], curve[p[1]]>> : p \in
                  {q \in (DOMAIN curve) \X (DOMAIN curve) : q[1] <= q[2]}}
  IN /\ \A fall \in falls : ~Steeper(fall, m.drawdown)
     /\ Len(curve) > 1 => \E fall \in falls : ~Steeper(m.drawdown, fall)

Signed(trades) ==
  [k \in DOMAIN trades |-> IF trades[k].side = "SELL" THEN trades[k].time ELSE -trades[k].time]
HoldingIsAverage(m) ==
  m.holding = <<SumFunctionOnSet(Signed(account.trades), DOMAIN account.trades),
                Cardinality(Sells(account.trades))>>

SalesIn(trades, i, j) == {k \in Sells(trades) : i <= k /\ k <= j}
Losing(trades, ks) == \A k \in ks : trades[k].pnl <= 0
StreakIsLongest(m) ==
  LET trades == account.trades
      losing == {ks \in {SalesIn(trades, w[1], w[2]) : w \in (DOMAIN trades) \X (DOMAIN trades)} :
                   Losing(trades, ks)}
  IN /\ \A ks \in losing : Cardinality(ks) <= m.streak
     /\ m.streak > 0 => \E ks \in losing : Cardinality(ks) = m.streak

ProfitIsGain(m) == m.factor[1] - m.factor[2] = account.capital - InitialCapital

\* The metrics of a finished run are what they are called: the deepest fall
\* from any earlier equity, the average time from buy to sale although buys
\* and sales are paired across codes, the longest run of sales without profit,
\* and profits and losses that make up what the capital has become.
MetricsTrue ==
  event = "finished" =>
    LET m == Metrics(account.trades, account.curve)
    IN DrawdownIsDeepest(m) /\ HoldingIsAverage(m) /\ StreakIsLongest(m) /\ ProfitIsGain(m)
=============================================================================
