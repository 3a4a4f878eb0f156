-------------------------- MODULE StrategyManager --------------------------
(***************************************************************************)
(* kiwoom_trader/core/strategy_manager.py. What an indicator computes is   *)
(* left open: a completed candle comes with a number for each indicator,   *)
(* which a strategy sees once its own instance has had the candles it      *)
(* needs. Prices and indicators are whole numbers, times are minutes.      *)
(***************************************************************************)
EXTENDS ConditionEngine, PaperTrader, Sequences, SequencesExt

CONSTANTS
  Strategy,               \* strategy names
  Config,                 \* Config[s]: priority, cooldown, entry, exit, indicators
  Watchlist,              \* Watchlist[c]: the strategies of a code, in order
  Warmup,                 \* Warmup[i]: candles an indicator needs before it has a value
  VolumeBound,            \* indicators without a value on a candle of volume 0 (VWAP)
  Never                   \* no signal of that side has been recorded

Side == {"BUY", "SELL"}

ASSUME StrategyAssumption ==
  /\ \A s \in Strategy : /\ Config[s].priority \in Nat /\ Config[s].cooldown \in Nat
                         /\ Config[s].indicators \subseteq DOMAIN Warmup
  /\ \A c \in Code : Watchlist[c] \in Seq(Strategy) /\ IsInjective(Watchlist[c])
  /\ \A i \in DOMAIN Warmup : Warmup[i] \in Nat \ {0}
  /\ IsFiniteSet(DOMAIN Warmup) /\ DOMAIN Warmup # {}
  /\ Never \notin Nat

VARIABLES
  enabled,                \* the enabled strategies among those loaded
  seen,                   \* candles the indicator instances of (code, strategy) were given
  previous,               \* _prev_values
  cooldowns,              \* _cooldowns
  mode,                   \* _mode
  trader                  \* paper_trader, or NoTrader

CONSTANT NoTrader

managerVars == <<enabled, seen, previous, cooldowns, mode, trader>>

NothingKnown == <<>>

\* __init__ with _load_strategies: no instances, no previous values, no
\* cooldowns and no paper trader.
Created(strategies) ==
  [enabled   |-> strategies,
   seen      |-> [c \in Code |-> [s \in Strategy |-> 0]],
   previous  |-> [c \in Code |-> [s \in Strategy |-> NothingKnown]],
   cooldowns |-> [c \in Code |-> [d \in Side |-> Never]]]

\* The places in a code's list of the strategies its candles are processed by.
Assigned(code) == {k \in DOMAIN Watchlist[code] : Watchlist[code][k] \in enabled}
Processed(s, code) == \E k \in Assigned(code) : Watchlist[code][k] = s

-----------------------------------------------------------------------------
(* One candle through one strategy *)

\* _update_indicator: the indicators of s that have a value at this candle.
Ready(s, candle) ==
  {i \in Config[s].indicators : /\ seen[candle.code][s] + 1 >= Warmup[i]
                                /\ ~(i \in VolumeBound /\ candle.volume = 0)}

Warm(s, candle) == Ready(s, candle) = Config[s].indicators

Values(s, candle) == [i \in Config[s].indicators |-> candle.values[i]]

\* The context: the candle's own values have no "_prev".
Context(s, candle) ==
  [now  |-> [price |-> candle.close, volume |-> candle.volume] @@ Values(s, candle),
   prev |-> previous[candle.code][s]]

Signal(s, side, candle) ==
  [code |-> candle.code, side |-> side, strategy |-> s, price |-> candle.close,
   time |-> candle.time]

RuleOf(s, side) == IF side = "BUY" THEN Config[s].entry ELSE Config[s].exit

\* The places of the strategies that signal each side, in the order in which
\* the candle is processed; one's BUY comes before its SELL.
AllSignals(candle) ==
  [d \in Side |->
     {k \in Assigned(candle.code) :
        LET s == Watchlist[candle.code][k]
        IN Warm(s, candle) /\ Evaluate(RuleOf(s, d), Context(s, candle))}]

-----------------------------------------------------------------------------
(* Conflicts and cooldowns *)

Priority(code, k) == Config[Watchlist[code][k]].priority

Weight(places, code) == SumFunctionOnSet([k \in places |-> Priority(code, k)], places)

\* The first of a side's signals that no other of them outranks.
IsBest(k, places, code) ==
  \A j \in places :
    Priority(code, k) > Priority(code, j) \/ (Priority(code, k) = Priority(code, j) /\ k <= j)
Best(places, code) == CHOOSE k \in places : IsBest(k, places, code)

Other(side) == IF side = "BUY" THEN "SELL" ELSE "BUY"

\* Whether signals of weight mine pass beside those of the other side.
\* (Mutant: a tie lets both sides pass.)
PassesOrTies(mine, theirs) == mine = 0 \/ theirs = 0 \/ mine >= theirs
Passes(mine, theirs) == mine = 0 \/ theirs = 0 \/ mine > theirs

\* _resolve_conflicts: the sides whose best signal is kept.
ResolveConflicts(signals, code) ==
  {d \in Side : /\ signals[d] # {}
                /\ Passes(Weight(signals[d], code), Weight(signals[Other(d)], code))}

BestSignal(signals, d, candle) ==
  Signal(Watchlist[candle.code][Best(signals[d], candle.code)], d, candle)

\* _check_cooldown (Mutant: the time of any side's signal counts from 0.)
CheckAbsolute(sig) ==
  \/ cooldowns[sig.code][sig.side] = Never
  \/ sig.time >= Config[sig.strategy].cooldown
CheckCooldown(sig) ==
  \/ cooldowns[sig.code][sig.side] = Never
  \/ sig.time - cooldowns[sig.code][sig.side] >= Config[sig.strategy].cooldown

Surviving(signals, candle) ==
  {d \in ResolveConflicts(signals, candle.code) : CheckCooldown(BestSignal(signals, d, candle))}

\* The side whose first signal came first, as a dictionary keeps its keys.
FirstSide(signals) ==
  IF \E k \in signals["BUY"] : \A j \in signals["SELL"] : k <= j THEN "BUY" ELSE "SELL"

-----------------------------------------------------------------------------
(* on_candle_complete *)

\* _execute_signal of the survivors, in the order of the sides: the paper
\* trader, if there is one, trades at the candle's price, whichever strategy
\* the signal is of. (In live mode they go to the risk manager: TradingSystem.)
Obeyed(t, side, sides, candle) ==
  IF side \in sides THEN ExecuteSignal(t, side, candle.code, candle.close) ELSE t
Executed(first, sides, candle) ==
  IF mode # "paper" \/ trader = NoTrader THEN trader
  ELSE Obeyed(Obeyed(trader, first, sides, candle), Other(first), sides, candle)

\* Every indicator of the assigned strategies takes the candle; previous
\* values are stored by the strategies all of whose indicators have values.
\* (Mutant: a value once stored stays.)
StoreOnce(candle) ==
  previous' = [previous EXCEPT ![candle.code] =
    [s \in Strategy |-> IF Processed(s, candle.code) /\ Warm(s, candle) /\ @[s] = NothingKnown
                        THEN Values(s, candle) ELSE @[s]]]
StorePrevious(candle) ==
  previous' = [previous EXCEPT ![candle.code] =
    [s \in Strategy |-> IF Processed(s, candle.code) /\ Warm(s, candle)
                        THEN Values(s, candle) ELSE @[s]]]

MostWarmup == CHOOSE w \in Range(Warmup) : \A v \in Range(Warmup) : v <= w

UpdateIndicators(candle) ==
  seen' = [seen EXCEPT ![candle.code] =
    [s \in Strategy |-> IF Processed(s, candle.code) /\ @[s] < MostWarmup
                        THEN @[s] + 1 ELSE @[s]]]

\* _record_cooldown, of the survivors.
RecordCooldowns(sides, candle) ==
  cooldowns' = [cooldowns EXCEPT ![candle.code] =
    [d \in Side |-> IF d \in sides THEN candle.time ELSE @[d]]]

OnCandleComplete(candle) ==
  LET signals == AllSignals(candle)
      sides   == Surviving(signals, candle)
  IN /\ UpdateIndicators(candle)
     /\ StorePrevious(candle)
     /\ RecordCooldowns(sides, candle)
     /\ trader' = Executed(FirstSide(signals), sides, candle)
     /\ UNCHANGED <<enabled, mode>>

\* reset_daily
ResetDaily == cooldowns' = [c \in Code |-> [d \in Side |-> Never]]
=============================================================================
