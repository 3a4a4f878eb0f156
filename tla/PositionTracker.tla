--------------------------- MODULE PositionTracker ---------------------------
(***************************************************************************)
(* kiwoom_trader/core/position_tracker.py: what the program believes it    *)
(* holds. A code that is no key of _positions is mapped to NoPosition.     *)
(***************************************************************************)
EXTENDS TradingData, FiniteSetsExt

CONSTANT NoPosition

VARIABLES
  positions,      \* _positions
  realized        \* _daily_realized_pnl

trackerVars == <<positions, realized>>

Position == [qty : 1 .. MaxQty, avg : Nat, hwm : Nat, sl : Nat, tp : Nat, ts : Nat,
             pnl : Int]

ASSUME NoPositionAssumption == NoPosition \notin Position

TrackerTypeOK ==
  /\ positions \in [Code -> Position \cup {NoPosition}]
  /\ realized \in Int

TrackerInit ==
  /\ positions = [c \in Code |-> NoPosition]
  /\ realized = 0

Held == {c \in Code : positions[c] # NoPosition}

StopLoss(avg)      == (avg * (100 - StopLossPct)) \div 100
TakeProfit(avg)    == (avg * (100 + TakeProfitPct)) \div 100
TrailingStop(high) == (high * (100 - TrailingStopPct)) \div 100

\* add_position: the stops are set once, from the price the position began at.
NewPosition(qty, avg) ==
  [qty |-> qty, avg |-> avg, hwm |-> avg, sl |-> StopLoss(avg), tp |-> TakeProfit(avg),
   ts |-> TrailingStop(avg), pnl |-> 0]

\* Position p with another quantity, average and profit; its stops stay.
Valued(p, qty, avg, pnl) ==
  [qty |-> qty, avg |-> avg, hwm |-> p.hwm, sl |-> p.sl, tp |-> p.tp, ts |-> p.ts,
   pnl |-> pnl]

\* Position p after a new high: the trailing stop follows.
Raised(p, high) ==
  [qty |-> p.qty, avg |-> p.avg, hwm |-> high, sl |-> p.sl, tp |-> p.tp,
   ts |-> TrailingStop(high), pnl |-> p.pnl]

\* Position p after a report of the same holding.
Reported(p, b) == Valued(p, b.qty, b.avg, (b.cur - b.avg) * b.qty)

\* What update_from_chejan makes of report or balance row b of a code the
\* tracker does not hold.
Loaded(b) == IF b.qty = 0 THEN NoPosition ELSE Reported(NewPosition(b.qty, b.avg), b)

\* Mutant: a sold position stays, with its last quantity.
KeepSold(b) ==
  /\ positions' = [positions EXCEPT ![b.code] =
                     IF b.qty = 0 THEN @
                     ELSE IF @ = NoPosition THEN Reported(NewPosition(b.qty, b.avg), b)
                     ELSE Reported(@, b)]
  /\ UNCHANGED realized

\* update_from_chejan: a position comes into being, is updated (its stops are
\* not) or, sold out, is forgotten.
UpdateFromChejan(b) ==
  /\ positions' = [positions EXCEPT ![b.code] =
                     IF b.qty = 0 THEN NoPosition
                     ELSE IF @ = NoPosition THEN Reported(NewPosition(b.qty, b.avg), b)
                     ELSE Reported(@, b)]
  /\ UNCHANGED realized

\* Mutant: a position the tracker holds already stays as it is.
LoadMissing(row) ==
  /\ positions' = [c \in Code |-> IF positions[c] = NoPosition THEN Loaded(row[c])
                                                              ELSE positions[c]]
  /\ UNCHANGED realized

\* clear_all, then update_from_chejan of each row of the balance; codes with
\* no shares have none.
LoadPositions(row) ==
  /\ positions' = [c \in Code |-> Loaded(row[c])]
  /\ UNCHANGED realized

\* update_price
UpdatePrice(c, p) ==
  IF positions[c] = NoPosition THEN positions
  ELSE [positions EXCEPT ![c] = Valued(@, @.qty, @.avg, (p - @.avg) * @.qty)]

\* get_daily_pnl when the positions are ps.
DailyPnl(ps) ==
  realized + MapThenSumSet(LAMBDA c : ps[c].pnl, {c \in Code : ps[c] # NoPosition})

\* check_symbol_weight
CheckSymbolWeight(c, amount) ==
  LET existing == IF positions[c] = NoPosition THEN 0
                  ELSE positions[c].avg * positions[c].qty
  IN 100 * (existing + amount) <= TotalCapital * MaxWeightPct

\* Mutant: the position to be opened is not counted.
CheckMaxInclusive(c) == c \in Held \/ Cardinality(Held) <= MaxPositions

\* check_max_positions
CheckMaxPositions(c) == c \in Held \/ Cardinality(Held) < MaxPositions
=============================================================================
