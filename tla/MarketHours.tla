----------------------------- MODULE MarketHours -----------------------------
(***************************************************************************)
(* kiwoom_trader/core/market_hours.py: the state of the market by the time *)
(* of day and what it permits. The six boundaries of the configuration cut *)
(* the day into seven intervals; the clock is the number of the interval   *)
(* the time of day is in, and one day is modelled.                         *)
(***************************************************************************)
EXTENDS Naturals

CONSTANTS
  Opening, Closing        \* bound: the intervals of the day a behaviour covers

ASSUME HoursAssumption == Opening \in 1 .. 7 /\ Closing \in 1 .. 7

VARIABLE clock

MarketState == {"CLOSED", "PRE_MARKET_AUCTION", "MARKET_OPEN_BUFFER", "TRADING",
                "CLOSING", "CLOSING_AUCTION"}

\* get_market_state
GetMarketState(now) ==
  <<"CLOSED", "PRE_MARKET_AUCTION", "MARKET_OPEN_BUFFER", "TRADING",
    "CLOSING", "CLOSING_AUCTION", "CLOSED">>[now]

IsNewBuyAllowed == GetMarketState(clock) = "TRADING"

IsOrderBlocked ==
  GetMarketState(clock) \in {"PRE_MARKET_AUCTION", "CLOSING_AUCTION",
                             "MARKET_OPEN_BUFFER", "CLOSED"}

HoursTypeOK == clock \in 1 .. 7
HoursInit   == clock = Opening

\* Time passes.
NextInterval == clock < Closing /\ clock' = clock + 1
=============================================================================
