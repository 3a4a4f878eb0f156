----------------------------- MODULE TradingData -----------------------------
(***************************************************************************)
(* Prices, sizes and the risk configuration, shared by the tracker, the    *)
(* risk manager and the broker. Percentages are whole numbers here; the    *)
(* code multiplies by a float and truncates, which is what \div does.      *)
(***************************************************************************)
EXTENDS Integers, FiniteSets

CONSTANTS
  Code,               \* stock codes
  Price,              \* the prices a share can have
  MaxQty,             \* bound: shares of one code the account holds
  StopLossPct,        \* -risk_config.stop_loss_pct
  TakeProfitPct,
  TrailingStopPct,
  MaxWeightPct,       \* risk_config.max_symbol_weight_pct
  MaxPositions,
  DailyLossPct,       \* risk_config.daily_loss_limit_pct
  TotalCapital

ASSUME CodeAssumption == IsFiniteSet(Code)
ASSUME PriceAssumption == Price \subseteq Nat \ {0} /\ MaxQty \in Nat \ {0}
ASSUME PercentAssumption ==
  /\ StopLossPct \in 0 .. 100 /\ TakeProfitPct \in Nat /\ TrailingStopPct \in 0 .. 100
  /\ MaxWeightPct \in Nat /\ MaxPositions \in Nat /\ DailyLossPct \in Nat
  /\ TotalCapital \in Nat \ {0}

Side  == {"BUY", "SELL"}
Order == [code : Code, side : Side, qty : 1 .. MaxQty]

\* One gubun=1 chejan event: the FIDs _handle_balance_chejan reads.
Balance == [code : Code, qty : 0 .. MaxQty, avg : Nat, cur : Price]
=============================================================================
