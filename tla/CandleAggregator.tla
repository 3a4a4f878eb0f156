-------------------------- MODULE CandleAggregator --------------------------
(***************************************************************************)
(* kiwoom_trader/core/candle_aggregator.py as operators on its one piece   *)
(* of state, the candle being built for each code. A tick is the           *)
(* dictionary of FIDs a subscriber is handed: the sign of price and volume *)
(* is the direction of the change, and the execution time, here the minute *)
(* counted from the opening, may be missing.                               *)
(***************************************************************************)
EXTENDS Integers, Sequences, SequencesExt, FiniteSets

CONSTANTS
  Code,           \* stock codes
  Minutes,        \* candle_interval_minutes
  NoTime,         \* FID 20 is not in the dictionary
  NoCandle        \* no candle is being built

ASSUME CodeAssumption == IsFiniteSet(Code)
ASSUME MinutesAssumption == Minutes \in Nat \ {0}

\* Kiwoom's sign convention is taken off. (Mutant: it is not.)
Signed(x)   == x
Absolute(x) == IF x < 0 THEN -x ELSE x

\* _get_minute_slot
Slot(time) == IF time = NoTime THEN 0 ELSE (time \div Minutes) * Minutes

\* A candle that holds one tick.
NewCandle(code, slot, price, volume) ==
  [code |-> code, slot |-> slot, open |-> price, high |-> price, low |-> price,
   close |-> price, volume |-> volume]

\* The candle with one more tick. (Mutant: without its high.)
Larger(x, y)  == IF x >= y THEN x ELSE y
Smaller(x, y) == IF x <= y THEN x ELSE y
GrownLowOnly(c, price, volume) ==
  [c EXCEPT !.low = Smaller(@, price), !.close = price, !.volume = @ + volume]
Grown(c, price, volume) ==
  [c EXCEPT !.high = Larger(@, price), !.low = Smaller(@, price), !.close = price,
            !.volume = @ + volume]

\* on_tick: the candles being built, and those the tick completes, in the
\* order the callbacks are given them.
OnTick(building, tick) ==
  LET price  == Absolute(tick.price)
      volume == Absolute(tick.volume)
      slot   == Slot(tick.time)
      old    == building[tick.code]
      same   == old # NoCandle /\ old.slot = slot
      next   == IF same THEN Grown(old, price, volume)
                ELSE NewCandle(tick.code, slot, price, volume)
  IN IF price = 0 THEN [building |-> building, done |-> <<>>]
     ELSE [building |-> [building EXCEPT ![tick.code] = next],
           done     |-> IF same \/ old = NoCandle THEN <<>> ELSE <<old>>]

\* flush: every candle being built is completed, in the order of the codes.
Flush(building, codes) ==
  [building |-> [c \in DOMAIN building |-> NoCandle],
   done     |-> [k \in DOMAIN codes |-> building[codes[k]]]]

-----------------------------------------------------------------------------
(* Reference: the candles of a code are the runs of equal slots of its     *)
(* ticks that have a price. A tick is its position in the sequence.        *)
PricedOf(ticks, c)    == {k \in DOMAIN ticks : ticks[k].code = c /\ ticks[k].price # 0}
SameSlot(ticks, j, k) == Slot(ticks[j].time) = Slot(ticks[k].time)

\* A run starts where a tick of another slot lies between a tick and each
\* earlier one, that one included.
RunStarts(ticks, c) ==
  {k \in PricedOf(ticks, c) :
     \A j \in PricedOf(ticks, c) :
       j < k => \E i \in PricedOf(ticks, c) : j <= i /\ i < k /\ ~SameSlot(ticks, i, k)}

Run(ticks, c, start) ==
  {k \in PricedOf(ticks, c) :
     /\ start <= k
     /\ \A i \in PricedOf(ticks, c) : start <= i /\ i <= k => SameSlot(ticks, i, start)}

Price(ticks, k) == Absolute(ticks[k].price)
Traded(ticks, run) == SumFunctionOnSet([k \in DOMAIN ticks |-> Absolute(ticks[k].volume)], run)

\* The candle of a run: its slot, first, highest, lowest and last price, and
\* all that was traded.
IsCandleOf(candle, ticks, run, start) ==
  /\ candle.slot = Slot(ticks[start].time)
  /\ candle.open = Price(ticks, start)
  /\ \E k \in run : candle.high = Price(ticks, k)
  /\ \E k \in run : candle.low = Price(ticks, k)
  /\ \A k \in run : candle.low <= Price(ticks, k) /\ Price(ticks, k) <= candle.high
  /\ \E k \in run : (\A j \in run : j <= k) /\ candle.close = Price(ticks, k)
  /\ candle.volume = Traded(ticks, run)

\* The candles of code c among these are those of its runs, in their order.
OfCode(candles, c) == {e \in DOMAIN candles : candles[e].code = c}

InOrder(start) == \A d, e \in DOMAIN start : d < e => start[d] < start[e]

AreCandlesOf(candles, ticks, c) ==
  \E start \in [OfCode(candles, c) -> RunStarts(ticks, c)] :
    /\ InOrder(start)
    /\ \A k \in RunStarts(ticks, c) : \E e \in OfCode(candles, c) : start[e] = k
    /\ \A e \in OfCode(candles, c) :
         IsCandleOf(candles[e], ticks, Run(ticks, c, start[e]), start[e])
=============================================================================
