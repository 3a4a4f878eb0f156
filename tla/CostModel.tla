----------------------------- MODULE CostModel -----------------------------
(***************************************************************************)
(* kiwoom_trader/backtest/cost_model.py in whole won. The code multiplies  *)
(* floats and truncates; here rates are whole and divided exactly.         *)
(***************************************************************************)
EXTENDS Integers

CONSTANTS
  BuyCommission, SellCommission, Tax,   \* parts of 100000
  Slippage                              \* basis points

ASSUME CostAssumption ==
  /\ {BuyCommission, SellCommission, Tax, Slippage} \subseteq Nat
  /\ Slippage <= 10000 /\ SellCommission + Tax <= 100000

Part(amount, rate) == (amount * rate) \div 100000
Slip(price) == (price * Slippage) \div 10000

CalcBuyCost(price, qty) ==
  LET amount == (price + Slip(price)) * qty
  IN amount + Part(amount, BuyCommission)

CalcSellProceeds(price, qty) ==
  LET amount == (price - Slip(price)) * qty
  IN amount - Part(amount, SellCommission) - Part(amount, Tax)
=============================================================================
