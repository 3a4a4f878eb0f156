--------------------------- MODULE DayStrategies ---------------------------
(***************************************************************************)
(* kiwoom_trader/core/day_strategies.py: five strategies that each keep a  *)
(* state for every code and answer a candle with signals. OnCandle gives   *)
(* the next state and the sides of the signals, always at the close of the *)
(* candle; candles begin at nine. Percentages are compared exactly, by     *)
(* cross-multiplication. `inside` is a strategy's belief that it holds the *)
(* code.                                                                   *)
(***************************************************************************)
EXTENDS Integers, Sequences, SequencesExt

CONSTANTS PrevHigh, PrevLow, PrevClose    \* external: the day before, of a code

Ten == 10       \* minutes after nine o'clock
HalfPast == 30
Eleven == 120
Two == 300

Answer(st, sides) == [state |-> st, sides |-> sides]
Nothing(st) == Answer(st, {})
Leaves(st) == Answer([st EXCEPT !.inside = FALSE], {"SELL"})

Top(n, m) == IF n > m THEN n ELSE m
Bottom(n, m) == IF n < m THEN n ELSE m

\* ORBStrategy: no range is high = 0. (Mutant: _in_position is not set.)
NewORB == [high |-> 0, low |-> 0, traded |-> FALSE, inside |-> FALSE]
ORBForgets(st, k) ==
  IF k.time < HalfPast
  THEN Nothing([st EXCEPT !.high = Top(@, k.high), !.low = Bottom(@, k.low)])
  ELSE IF ~st.traded /\ k.close > st.high THEN Answer([st EXCEPT !.traded = TRUE], {"BUY"})
  ELSE Nothing(st)
OnCandleORB(st, k) ==
  CASE k.time < HalfPast ->
         Nothing([st EXCEPT !.high = Top(@, k.high),
                            !.low = IF st.high = 0 THEN k.low ELSE Bottom(@, k.low)])
    [] k.time >= HalfPast /\ st.high > 0 /\ st.traded /\ st.inside /\ k.time >= Two ->
         Leaves(st)
    [] k.time >= HalfPast /\ st.high > 0 /\ ~st.traded /\ k.time < Two
         /\ 1000 * k.close > 1001 * st.high ->
         Answer([st EXCEPT !.traded = TRUE, !.inside = TRUE], {"BUY"})
    [] OTHER -> Nothing(st)

\* VWAPBounceStrategy: pv is three times the cumulated price and volume.
NewVWAP == [pv |-> 0, vol |-> 0, below |-> FALSE, count |-> 0, inside |-> FALSE, entry |-> 0]
VWAPUpdated(st, k) == [st EXCEPT !.pv = @ + (k.high + k.low + k.close) * k.volume,
                                 !.vol = @ + k.volume]
Gained(st, k, rate) == 1000 * (k.close - st.entry) >= rate * st.entry
Lost(st, k, rate) == 1000 * (st.entry - k.close) >= rate * st.entry
OnCandleVWAP(old, k) ==
  LET st    == VWAPUpdated(old, k)
      above == 3 * st.vol * k.close - st.pv
      exit  == Gained(st, k, 5) \/ Lost(st, k, 3) \/ k.time >= Two
  IN CASE st.vol = 0 -> Nothing(st)
       [] st.vol > 0 /\ st.inside -> IF exit THEN Leaves(st) ELSE Nothing(st)
       [] st.vol > 0 /\ ~st.inside /\ (st.count >= 3 \/ k.time >= Two) -> Nothing(st)
       [] OTHER ->
            IF 1000 * above < -(3 * st.pv) THEN Nothing([st EXCEPT !.below = TRUE])
            ELSE IF st.below /\ above > 0
            THEN Answer([st EXCEPT !.below = FALSE, !.count = @ + 1, !.inside = TRUE,
                                   !.entry = k.close], {"BUY"})
            ELSE Nothing(st)

\* PrevDayBreakoutStrategy
NewPrevDay == [vols |-> <<>>, traded |-> FALSE, inside |-> FALSE]
Window(s, n) == IF Len(s) > n THEN Tail(s) ELSE s
Total(s) == FoldLeft(LAMBDA sum, v : sum + v, 0, s)
OnCandlePrevDay(old, k) ==
  LET st    == [old EXCEPT !.vols = Window(Append(@, k.volume), 20)]
      buys  == /\ k.close > PrevHigh[k.code]
               /\ 2 * Len(st.vols) * k.volume > 3 * Total(st.vols)
      now   == IF buys THEN [st EXCEPT !.traded = TRUE, !.inside = TRUE] ELSE st
      drops == now.inside /\ k.close < PrevLow[k.code]
  IN CASE k.time < Ten -> Nothing(old)
       [] k.time >= Two /\ st.inside -> Leaves(st)
       [] k.time >= Two /\ ~st.inside -> Nothing(st)
       [] k.time >= Ten /\ k.time < Two /\ st.traded -> Nothing(st)
       [] OTHER -> Answer([now EXCEPT !.inside = @ /\ ~drops],
                          (IF buys THEN {"BUY"} ELSE {}) \cup (IF drops THEN {"SELL"} ELSE {}))

\* GapStrategy: the gap is that of the first candle.
NewGap == [gap |-> "unknown", traded |-> FALSE, inside |-> FALSE]
GapOf(k) ==
  CASE 100 * (k.open - PrevClose[k.code]) < -PrevClose[k.code] -> "down"
    [] 100 * (k.open - PrevClose[k.code]) > PrevClose[k.code]  -> "up"
    [] OTHER -> "none"
OnCandleGap(old, k) ==
  LET st == [old EXCEPT !.gap = IF @ = "unknown" THEN GapOf(k) ELSE @]
  IN CASE st.inside -> IF k.close >= PrevClose[k.code] \/ k.time >= Two THEN Leaves(st) ELSE Nothing(st)
       [] /\ ~st.inside /\ ~st.traded
          /\ k.time >= Ten /\ k.time < Eleven
          /\ st.gap = "down" /\ 1000 * k.close < 995 * PrevClose[k.code] ->
            Answer([st EXCEPT !.traded = TRUE, !.inside = TRUE], {"BUY"})
       [] OTHER -> Nothing(st)

\* OrderFlowStrategy: a candle that falls counts as sold, any other as bought.
NewFlow == [buy |-> <<>>, sell |-> <<>>, count |-> 0, inside |-> FALSE, entry |-> 0]
FlowUpdated(st, k) ==
  LET rises == k.close >= k.open
  IN [st EXCEPT !.buy = Window(Append(@, IF rises THEN k.volume ELSE 0), 10),
                !.sell = Window(Append(@, IF rises THEN 0 ELSE k.volume), 10)]
OnCandleFlow(old, k) ==
  LET st   == FlowUpdated(old, k)
      exit == Gained(st, k, 4) \/ Lost(st, k, 3) \/ k.time >= Two
      buys == Total(st.sell) > 0 /\ 2 * Total(st.buy) >= 3 * Total(st.sell)
  IN CASE st.inside -> IF exit THEN Leaves(st) ELSE Nothing(st)
       [] ~st.inside /\ st.count < 2 /\ k.time < Two /\ buys ->
            Answer([st EXCEPT !.count = @ + 1, !.inside = TRUE, !.entry = k.close], {"BUY"})
       [] OTHER -> Nothing(st)

\* The dispatch on the strategy.
DayStrategy == {"ORB", "VWAP_BOUNCE", "PREV_DAY_BRK", "GAP_TRADE", "ORDER_FLOW"}

NewState(name) ==
  CASE name = "ORB" -> NewORB [] name = "VWAP_BOUNCE" -> NewVWAP
    [] name = "PREV_DAY_BRK" -> NewPrevDay [] name = "GAP_TRADE" -> NewGap
    [] name = "ORDER_FLOW" -> NewFlow

\* on_candle
OnCandle(name, st, k) ==
  CASE name = "ORB" -> OnCandleORB(st, k) [] name = "VWAP_BOUNCE" -> OnCandleVWAP(st, k)
    [] name = "PREV_DAY_BRK" -> OnCandlePrevDay(st, k) [] name = "GAP_TRADE" -> OnCandleGap(st, k)
    [] name = "ORDER_FLOW" -> OnCandleFlow(st, k)
=============================================================================
