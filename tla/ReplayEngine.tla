---------------------------- MODULE ReplayEngine ----------------------------
(***************************************************************************)
(* kiwoom_trader/backtest/replay_engine.py: what run does with a completed *)
(* candle. The account is BacktestEngine's; either the strategies of the   *)
(* settings trade on it, or one or all of the day strategies.              *)
(***************************************************************************)
EXTENDS BacktestEngine, DayStrategies

\* The lowest price of the day before is none above its highest.
ASSUME DayBeforeAssumption ==
  \A c \in Code : /\ {PrevHigh[c], PrevLow[c], PrevClose[c]} \subseteq Nat
                  /\ PrevLow[c] <= PrevHigh[c]

\* The strategies main.py's _launch_simulation passes for a choice.
Traders(kind) == {name \in DayStrategy : kind \in {name, "ALL"}}

NewStates == [n \in DayStrategy |-> [c \in Code |-> NewState(n)]]

\* The replay has methods of its own for the account, which do what those of
\* the backtest do.
ReplayBuy(a, candle)     == ExecuteBuy(a, candle)
ReplaySell(a, sale)      == ExecuteSell(a, sale)
ReplayDailyLoss(a, today) == CheckDailyLoss(a, today)
ReplayEquity(a, candle)  == RecordEquity(a, candle)

\* Its triggers pass over a code bought in this candle.
ReplayTriggers(a, candle, bought) == IF bought THEN a ELSE CheckRiskTriggers(a, candle)

\* A turn on the account; `bought` says that the candle's code is in
\* bought_this_candle, whether or not the buy was carried out.
Turn(a, bought) == [account |-> a, bought |-> bought]

Buy(turn, candle) ==
  IF ReplayDailyLoss(turn.account, DayOf(candle.time)) THEN turn
  ELSE Turn(ReplayBuy(turn.account, candle), TRUE)

Sell(turn, candle) ==
  IF turn.bought THEN turn
  ELSE Turn(ReplaySell(turn.account, candle), FALSE)

\* handle_candle, first half: the signals of the settings' strategies, the
\* buys first. Several buys of the code act as the first.
ConfigSignals(turn, candle, sides) ==
  LET bid == IF "BUY" \in Range(sides) THEN Buy(turn, candle) ELSE turn
  IN IF "SELL" \in Range(sides) THEN Sell(bid, candle) ELSE bid

\* Second half: a day strategy's signals, the buy first.
DaySignals(turn, candle, sides) ==
  LET bid == IF "BUY" \in sides /\ ~turn.bought THEN Buy(turn, candle) ELSE turn
  IN IF "SELL" \in sides THEN Sell(bid, candle) ELSE bid

AnswerOf(states, name, candle) == OnCandle(name, states[name][candle.code], candle)

Answered(turn, name, kind, states, candle) ==
  IF name \notin Traders(kind) THEN turn
  ELSE DaySignals(turn, candle, AnswerOf(states, name, candle).sides)

\* handle_candle: the account after a candle, the strategies in their order.
ReplayCandle(a, kind, states, candle, sides) ==
  LET first  == ConfigSignals(Turn(a, FALSE), candle, sides)
      orb    == Answered(first, "ORB", kind, states, candle)
      vwap   == Answered(orb, "VWAP_BOUNCE", kind, states, candle)
      before == Answered(vwap, "PREV_DAY_BRK", kind, states, candle)
      gap    == Answered(before, "GAP_TRADE", kind, states, candle)
      last   == Answered(gap, "ORDER_FLOW", kind, states, candle)
  IN ReplayEquity(ReplayTriggers(last.account, candle, last.bought), candle)

StatesAfter(kind, states, candle) ==
  [n \in DOMAIN states |->
     IF n \in Traders(kind)
     THEN [states[n] EXCEPT ![candle.code] = AnswerOf(states, n, candle).state]
     ELSE states[n]]

\* The forced close: at the average price, in the minute of the last candle.
CloseAtAverage(a, c, time) ==
  ReplaySell(a, [code |-> c, close |-> a.positions[c].avg, time |-> time])
=============================================================================
