--------------------------- MODULE BacktestEngine ---------------------------
(***************************************************************************)
(* The virtual account of kiwoom_trader/backtest/backtest_engine.py, which *)
(* replay_engine.py has word for word ("same as BacktestEngine"). An       *)
(* account is a record; its pnl is a dictionary of the days that had sales.*)
(* A candle has code, open, high, low, close, volume and time, in minutes  *)
(* from nine o'clock of the first day.                                     *)
(***************************************************************************)
EXTENDS CostModel, Sequences, SequencesExt, FiniteSets

CONSTANTS
  Code,
  InitialCapital,
  MaxPositions,           \* RiskConfig, the rest in percent
  MaxSymbolWeight, StopLoss, TakeProfit, TrailingStop, DailyLossLimit

ASSUME EngineAssumption ==
  /\ {InitialCapital, MaxPositions, StopLoss, TakeProfit, TrailingStop, DailyLossLimit}
       \subseteq Nat
  /\ MaxSymbolWeight \in 0 .. 100
  /\ IsFiniteSet(Code)

NoPosition == [qty |-> 0, avg |-> 0, highest |-> 0]

\* run, from its start: the account, the trades and the equity curve.
NewAccount ==
  [capital |-> InitialCapital, positions |-> [c \in Code |-> NoPosition], pnl |-> <<>>,
   trades |-> <<>>, curve |-> <<>>]

Holdings(a) == {c \in Code : a.positions[c].qty > 0}

\* The shares a buy is for: those of the weight, or those the cash can pay.
Quantity(capital, price) ==
  LET one    == CalcBuyCost(price, 1)
      wanted == (capital * MaxSymbolWeight) \div (100 * one)
  IN IF CalcBuyCost(price, wanted) > capital THEN capital \div one ELSE wanted

Trade(side, candle, pnl) ==
  [side |-> side, code |-> candle.code, time |-> candle.time, pnl |-> pnl]

\* _execute_buy (Mutant: what is held is bought again.)
BuyAgain(a, candle) ==
  LET price == candle.close
      qty   == Quantity(a.capital, price)
  IN [a EXCEPT !.capital = @ - CalcBuyCost(price, qty),
               !.positions[candle.code] = [qty |-> qty, avg |-> price, highest |-> price],
               !.trades = Append(@, Trade("BUY", candle, 0))]
ExecuteBuy(a, candle) ==
  LET price == candle.close
      qty   == Quantity(a.capital, price)
  IN IF \/ Cardinality(Holdings(a)) >= MaxPositions
        \/ candle.code \in Holdings(a)
        \/ price <= 0
        \/ qty <= 0
     THEN a
     ELSE [capital   |-> a.capital - CalcBuyCost(price, qty),
           positions |-> [a.positions EXCEPT ![candle.code] =
                            [qty |-> qty, avg |-> price, highest |-> price]],
           pnl       |-> a.pnl,
           trades    |-> Append(a.trades, Trade("BUY", candle, 0)),
           curve     |-> a.curve]

\* timestamp.date(), and _daily_pnl.get and its update by a sale.
DayOf(time) == time \div 1440
ProfitOn(pnl, day) == IF day \in DOMAIN pnl THEN pnl[day] ELSE 0
Booked(pnl, day, gain) ==
  [d \in DOMAIN pnl \cup {day} |-> IF d = day THEN ProfitOn(pnl, d) + gain ELSE pnl[d]]

\* _execute_sell: the whole position. (Mutant: the profit leaves costs out.)
SellGross(a, sale) ==
  LET pos   == a.positions[sale.code]
  IN IF sale.code \notin Holdings(a) THEN a
     ELSE [a EXCEPT !.capital = @ + CalcSellProceeds(sale.close, pos.qty),
                    !.pnl = Booked(@, DayOf(sale.time), (sale.close - pos.avg) * pos.qty),
                    !.positions[sale.code] = NoPosition]
ExecuteSell(a, sale) ==
  LET pos      == a.positions[sale.code]
      proceeds == CalcSellProceeds(sale.close, pos.qty)
      gain     == proceeds - CalcBuyCost(pos.avg, pos.qty)
  IN IF sale.code \notin Holdings(a) THEN a
     ELSE [capital   |-> a.capital + proceeds,
           positions |-> [a.positions EXCEPT ![sale.code] = NoPosition],
           pnl       |-> Booked(a.pnl, DayOf(sale.time), gain),
           trades    |-> Append(a.trades, Trade("SELL", sale, gain)),
           curve     |-> a.curve]

\* The closes at which a position is to be sold. (Mutant: a close at the stop
\* is not below it.)
StopExclusive(pos, close) ==
  \/ close * 100 < pos.avg * (100 - StopLoss)
  \/ close * 100 >= pos.avg * (100 + TakeProfit)
  \/ close * 100 <= pos.highest * (100 - TrailingStop) /\ pos.highest > pos.avg
Triggered(pos, close) ==
  \/ close * 100 <= pos.avg * (100 - StopLoss)
  \/ close * 100 >= pos.avg * (100 + TakeProfit)
  \/ close * 100 <= pos.highest * (100 - TrailingStop) /\ pos.highest > pos.avg

\* _check_risk_triggers (Mutant: the highest price follows the close down.)
FollowsClose(a, candle) ==
  LET pos == a.positions[candle.code]
  IN IF candle.code \notin Holdings(a) THEN a
     ELSE IF Triggered(pos, candle.close) THEN ExecuteSell(a, candle)
     ELSE [a EXCEPT !.positions[candle.code].highest = candle.close]
CheckRiskTriggers(a, candle) ==
  LET pos == a.positions[candle.code]
      top == [qty |-> pos.qty, avg |-> pos.avg,
              highest |-> IF candle.close > pos.highest THEN candle.close ELSE pos.highest]
  IN IF candle.code \notin Holdings(a) THEN a
     ELSE IF Triggered(top, candle.close) THEN ExecuteSell(a, candle)
     ELSE [a EXCEPT !.positions = [@ EXCEPT ![candle.code] = top]]

\* _check_daily_loss
CheckDailyLoss(a, today) == ProfitOn(a.pnl, today) * 100 < -(InitialCapital * DailyLossLimit)

\* _record_equity: a code without a candle now counts at its average.
Equity(a, candle) ==
  a.capital + SumFunctionOnSet(
    [c \in Code |-> a.positions[c].qty *
       (IF c = candle.code THEN candle.close ELSE a.positions[c].avg)], Code)
RecordEquity(a, candle) == [a EXCEPT !.curve = Append(@, Equity(a, candle))]

\* The k-th of the strategies' signals, of which there are at most two: each
\* side of the candle's code survives at most once.
Obeyed(a, candle, sides, k) ==
  IF k \notin DOMAIN sides THEN a
  ELSE IF sides[k] = "SELL" THEN ExecuteSell(a, candle)
  ELSE IF CheckDailyLoss(a, DayOf(candle.time)) THEN a ELSE ExecuteBuy(a, candle)

\* One turn of the loop of run, given the sides of the strategies' signals.
BacktestCandle(a, candle, sides) ==
  LET obeyed == Obeyed(Obeyed(a, candle, sides, 1), candle, sides, 2)
  IN RecordEquity(CheckRiskTriggers(obeyed, candle), candle)
=============================================================================
