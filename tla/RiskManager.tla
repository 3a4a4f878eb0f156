----------------------------- MODULE RiskManager -----------------------------
(***************************************************************************)
(* kiwoom_trader/core/risk_manager.py: the gate in front of strategy       *)
(* orders and the handler of price ticks that sells by itself. The orders  *)
(* it submits are sets, one market sell for each code in the set: each is  *)
(* an order of its own to the exchange, and the worst-first order in which *)
(* a liquidation submits them decides nothing here.                        *)
(***************************************************************************)
EXTENDS PositionTracker, MarketHours

VARIABLE blocked        \* _daily_buy_blocked

riskVars == <<positions, realized, blocked, clock>>

RiskTypeOK == TrackerTypeOK /\ HoursTypeOK /\ blocked \in BOOLEAN
RiskInit   == TrackerInit /\ HoursInit /\ blocked = FALSE

\* The daily loss limit is reached with the positions ps.
LossLimit(ps) == 100 * DailyPnl(ps) <= -(DailyLossPct * TotalCapital)

\* Mutant: the daily block is not looked at.
ValidateUnblocked(c, side, qty, price) ==
  /\ ~IsOrderBlocked
  /\ side = "BUY" => /\ IsNewBuyAllowed
                     /\ ~LossLimit(positions)
                     /\ CheckSymbolWeight(c, qty * price)
                     /\ CheckMaxPositions(c)

\* validate_order
ValidateOrder(c, side, qty, price) ==
  /\ ~IsOrderBlocked
  /\ side = "BUY" => /\ IsNewBuyAllowed
                     /\ ~blocked
                     /\ ~LossLimit(positions)
                     /\ CheckSymbolWeight(c, qty * price)
                     /\ CheckMaxPositions(c)

-----------------------------------------------------------------------------
(* Price ticks: what a tick of code c at price p does *)

\* The order the price checks are made in, for a held code: the daily limit,
\* the stop loss, the take profit, then the high water mark and the
\* trailing stop.
LimitHit(c, p) == c \in Held /\ LossLimit(UpdatePrice(c, p))

HitsFixedStop(c, p) ==
  LET pos == positions[c]
  IN \/ pos.sl > 0 /\ p <= pos.sl
     \/ pos.tp > 0 /\ p >= pos.tp

NewHigh(c, p) ==
  /\ c \in Held
  /\ ~LimitHit(c, p)
  /\ ~HitsFixedStop(c, p)
  /\ p > positions[c].hwm

HitsTrailingStop(c, p) ==
  LET pos == positions[c] IN p <= pos.hwm /\ pos.ts > 0 /\ p <= pos.ts

\* Mutant: the trailing stop guards only a position that has risen.
ExitsAfterRise(c, p) ==
  IF c \notin Held THEN {}
  ELSE IF LimitHit(c, p) THEN Held
  ELSE IF \/ HitsFixedStop(c, p)
          \/ HitsTrailingStop(c, p) /\ positions[c].hwm > positions[c].avg
       THEN {c} ELSE {}

\* The codes the tick sells.
Exits(c, p) ==
  IF c \notin Held THEN {}
  ELSE IF LimitHit(c, p) THEN Held
  ELSE IF HitsFixedStop(c, p) \/ HitsTrailingStop(c, p) THEN {c} ELSE {}

\* Mutant: the trailing stop follows the price down as well.
FollowsPrice(c, p) ==
  /\ positions' = IF c \in Held /\ ~LimitHit(c, p) /\ ~HitsFixedStop(c, p)
                  THEN [UpdatePrice(c, p) EXCEPT ![c] = Raised(@, p)]
                  ELSE UpdatePrice(c, p)
  /\ blocked' = (blocked \/ LimitHit(c, p))
  /\ UNCHANGED <<realized, clock>>

\* on_price_update, apart from the orders it submits.
OnPriceUpdate(c, p) ==
  /\ positions' = IF NewHigh(c, p)
                  THEN [UpdatePrice(c, p) EXCEPT ![c] = Raised(@, p)]
                  ELSE UpdatePrice(c, p)
  /\ blocked' = (blocked \/ LimitHit(c, p))
  /\ UNCHANGED <<realized, clock>>

\* The market sells of liquidate_all and of the three stops.
ExitOrders(codes) == {[code |-> c, side |-> "SELL", qty |-> positions[c].qty] : c \in codes}
=============================================================================
