---------------------------- MODULE PaperTrader ----------------------------
(***************************************************************************)
(* kiwoom_trader/core/paper_trader.py: an account that trades virtually at *)
(* the price of the signal. A trader is a record; its log is abstracted to *)
(* the sum get_summary reports. `slack` is a history field: what the       *)
(* truncated averages may add to reported profits.                         *)
(***************************************************************************)
EXTENDS Integers, FiniteSets

CONSTANTS
  Code,
  InitialCapital,         \* total_capital
  MaxWeight               \* max_symbol_weight_pct, in percent

ASSUME PaperAssumption ==
  InitialCapital \in Nat /\ MaxWeight \in 0 .. 100 /\ IsFiniteSet(Code)

Flat == [qty |-> 0, avg |-> 0]

Trader ==
  [capital : Nat, positions : [Code -> [qty : Nat, avg : Nat]], pnl : Int, slack : Nat]

NewTrader ==
  [capital |-> InitialCapital, positions |-> [c \in Code |-> Flat], pnl |-> 0, slack |-> 0]

\* The shares a buy is for. (Mutant: weighed against the initial capital.)
QtyOfInitial(capital, price) == (InitialCapital * MaxWeight) \div (100 * price)
BuyQty(capital, price) == (capital * MaxWeight) \div (100 * price)

\* The average after adding qty shares at price, as int() truncates it.
\* (Mutant: rounded up.)
AverageUp(pos, qty, price) ==
  (pos.avg * pos.qty + price * qty + pos.qty + qty - 1) \div (pos.qty + qty)
Average(pos, qty, price) == (pos.avg * pos.qty + price * qty) \div (pos.qty + qty)

\* _execute_buy. A price of 0 and an amount below one share buy nothing.
ExecuteBuy(t, code, price) ==
  LET qty == BuyQty(t.capital, price)
      pos == t.positions[code]
      new == [qty |-> pos.qty + qty, avg |-> Average(pos, qty, price)]
  IN IF price <= 0 \/ qty <= 0 THEN t
     ELSE [capital   |-> t.capital - qty * price,
           positions |-> [t.positions EXCEPT ![code] = new],
           pnl       |-> t.pnl,
           slack     |-> t.slack + IF pos.qty = 0 THEN 0 ELSE pos.qty + qty - 1]

\* _execute_sell closes the whole position. (Mutant: the shares stay.)
SoldKeepingShares(t, code, price) ==
  LET pos == t.positions[code]
  IN [t EXCEPT !.capital = @ + pos.qty * price, !.pnl = @ + (price - pos.avg) * pos.qty]
ExecuteSell(t, code, price) ==
  LET pos == t.positions[code]
  IN IF pos.qty <= 0 THEN t
     ELSE [capital   |-> t.capital + pos.qty * price,
           positions |-> [t.positions EXCEPT ![code] = Flat],
           pnl       |-> t.pnl + (price - pos.avg) * pos.qty,
           slack     |-> t.slack]

\* execute_signal
ExecuteSignal(t, side, code, price) ==
  IF side = "BUY" THEN ExecuteBuy(t, code, price) ELSE ExecuteSell(t, code, price)

\* get_summary: the profit of all sales.
GetSummary(t) == t.pnl
=============================================================================
