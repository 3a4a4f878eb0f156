---------------------------- MODULE SignalSystem ----------------------------
(***************************************************************************)
(* The strategies as main.py wires them: completed candles, the mode       *)
(* switch of the dashboard, the hot swap of the strategies, and the reset  *)
(* when the market-hours poll notices the start of trading. Candles come   *)
(* from a CandleAggregator whose ticks carry their execution time.         *)
(***************************************************************************)
EXTENDS StrategyManager, MarketHours, TLC

CONSTANTS
  Closes, Volumes,        \* external: what a candle may close at and hold
  Readings,               \* external: the numbers indicators may show
  StartModes,             \* the mode of config.json
  MaxCandles,             \* bound: completed candles
  MaxSwitches,            \* bound: mode changes
  MaxReloads              \* bound: hot swaps of the strategies

Mode == {"paper", "live"}

ASSUME SignalAssumption ==
  /\ Closes \subseteq Nat /\ Volumes \subseteq Nat
  /\ StartModes \subseteq Mode
  /\ {MaxCandles, MaxSwitches, MaxReloads} \subseteq Nat
  /\ NoTrader \notin Trader

VARIABLES
  polled,                 \* MarketHoursManager._previous_state
  time,                   \* minutes, one candle each
  switches, reloads,
  opened,                 \* history: when trading began
  last                    \* history: the candle before, of each code

signalVars == <<polled, time, switches, reloads, opened, last>>
vars == <<managerVars, clock, signalVars>>

NotPolled == "NONE"
NoCandle == [volume |-> 0]

\* Whole numbers where the code has them, and cooldowns never in the future.
TypeOK ==
  /\ HoursTypeOK
  /\ enabled \subseteq Strategy /\ mode \in Mode
  /\ seen \in [Code -> [Strategy -> 0 .. MostWarmup]]
  /\ cooldowns \in [Code -> [Side -> 0 .. time \cup {Never}]]
  /\ trader \in Trader \cup {NoTrader}
  /\ polled \in MarketState \cup {NotPolled}
  /\ time \in 0 .. MaxCandles

Load(strategies) ==
  LET new == Created(strategies)
  IN /\ enabled' = new.enabled /\ seen' = new.seen
     /\ previous' = new.previous /\ cooldowns' = new.cooldowns

Init ==
  /\ HoursInit
  /\ mode \in StartModes
  /\ enabled = Strategy
  /\ seen = Created(Strategy).seen
  /\ previous = Created(Strategy).previous
  /\ cooldowns = Created(Strategy).cooldowns
  /\ trader = IF mode = "paper" THEN NewTrader ELSE NoTrader
  /\ polled = NotPolled
  /\ time = 0 /\ switches = 0 /\ reloads = 0 /\ opened = 0
  /\ last = [c \in Code |-> NoCandle]

-----------------------------------------------------------------------------
(* Steps *)

\* CandleAggregator._finalize_candle calls on_candle_complete.
CandleCompletes ==
  /\ time < MaxCandles
  /\ time' = time + 1
  /\ \E c \in Code, p \in Closes, v \in Volumes, r \in [DOMAIN Warmup -> Readings] :
       LET candle == [code |-> c, close |-> p, volume |-> v, time |-> time + 1, values |-> r]
       IN /\ OnCandleComplete(candle)
          /\ last' = [last EXCEPT ![c] = candle]
  /\ UNCHANGED <<clock, polled, switches, reloads, opened>>

\* _reload_strategies: a new manager with the strategies of the settings,
\* some of them switched off; it takes its mode from the settings, where the
\* mode switch stored it.
ReloadStrategies ==
  /\ reloads < MaxReloads
  /\ reloads' = reloads + 1
  /\ \E strategies \in SUBSET Strategy : Load(strategies)
  /\ trader' = NoTrader
  /\ last' = [c \in Code |-> NoCandle]
  /\ UNCHANGED <<mode, clock, polled, time, switches, opened>>

\* Step 3 of _on_mode_change.
TraderOf(newMode) ==
  IF newMode = "paper" /\ trader = NoTrader THEN NewTrader ELSE trader

\* _on_mode_change, of the dashboard's mode button. The trader outlives a
\* change to live mode.
ChangeMode ==
  /\ switches < MaxSwitches
  /\ switches' = switches + 1
  /\ \E m \in Mode : mode' = m /\ trader' = TraderOf(m)
  /\ UNCHANGED <<enabled, seen, previous, cooldowns, clock, polled, time, reloads, opened, last>>

\* (Mutant: noticed only when trading ends.)
NoticesEnd(before, now) == before = "TRADING"
StartsTrading(before, now) == now = "TRADING"

\* check_state_transition, every 10 seconds, with _on_market_state_changed.
\* The first call only takes note of the state. (That _on_market_state_changed
\* also resets the VWAP changes indicator values, which are open anyway.)
PollMarketState ==
  LET now == GetMarketState(clock)
  IN /\ polled' = now
     /\ IF polled # NotPolled /\ polled # now /\ StartsTrading(polled, now)
        THEN ResetDaily ELSE UNCHANGED cooldowns
  /\ UNCHANGED <<enabled, seen, previous, mode, trader, clock, time, switches, reloads,
                 opened, last>>

\* Time passes from one interval to the next; each lasts minutes, so the poll
\* has seen it.
IntervalEnds ==
  /\ polled = GetMarketState(clock)
  /\ NextInterval
  /\ opened' = IF GetMarketState(clock') = "TRADING" THEN time ELSE opened
  /\ UNCHANGED <<managerVars, polled, time, switches, reloads, last>>

Next ==
  \/ CandleCompletes \/ ReloadStrategies \/ ChangeMode
  \/ PollMarketState \/ IntervalEnds

Spec == Init /\ [][Next]_vars

-----------------------------------------------------------------------------
(* Properties *)

\* A cross is judged on two consecutive candles: what a strategy remembers of
\* its indicators is what they showed at the candle before, unless that candle
\* was without volume, whatever was swapped, switched or still warming up.
CrossesAreFresh ==
  \A c \in Code : \A s \in Strategy :
    /\ previous[c][s] # NothingKnown
    /\ s \in enabled /\ last[c].volume > 0
    => previous[c][s] = Values(s, last[c])

\* Two signals of one side of a code that reach execution lie apart by the
\* shortest cooldown, whichever strategies emit them, unless the day or the
\* manager began anew in between.
CooldownKept ==
  [][\A c \in Code, d \in Side :
       cooldowns[c][d] # Never /\ cooldowns'[c][d] \notin {Never, cooldowns[c][d]} =>
         \E s \in Strategy : cooldowns'[c][d] - cooldowns[c][d] >= Config[s].cooldown]_vars

\* With strategies of positive priority no candle is both bought and sold:
\* the two sides' cooldowns are never recorded by the same candle.
OneSidePerCandle ==
  (\A s \in Strategy : Config[s].priority > 0) =>
    \A c \in Code : cooldowns[c]["BUY"] # Never => cooldowns[c]["BUY"] # cooldowns[c]["SELL"]

\* Once the poll has seen that trading began, no signal from before holds
\* back one of the day.
DayBeginsFresh ==
  polled = "TRADING" =>
    \A c \in Code, d \in Side : cooldowns[c][d] = Never \/ cooldowns[c][d] >= opened

Held == IF trader = NoTrader THEN [c \in Code |-> 0]
        ELSE [c \in Code |-> trader.positions[c].qty]
Cash == IF trader = NoTrader THEN InitialCapital ELSE trader.capital

\* The paper trader is an account that exchanges shares for cash at the
\* candle's price without gain, loss or credit; a swap replaces it.
Account == INSTANCE CashAccount
             WITH Price <- Closes, InitialCash <- InitialCapital, LossRate <- 0,
                  cash <- Cash, held <- Held
ImplementsAccount == Account!Spec

\* The profit get_summary reports is what was really gained, or more by less
\* than a won for each share each time an average was truncated.
Invested ==
  SumFunctionOnSet([c \in Code |-> trader.positions[c].qty * trader.positions[c].avg], Code)
ProfitIsTrue ==
  trader # NoTrader =>
    GetSummary(trader) - (trader.capital + Invested - InitialCapital) \in 0 .. trader.slack
=============================================================================
