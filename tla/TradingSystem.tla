---------------------------- MODULE TradingSystem ----------------------------
(***************************************************************************)
(* The live trading path: strategy signals pass the risk manager's gate,   *)
(* manual orders do not, price ticks run the risk manager's stops, and     *)
(* balance reports of the broker run through OrderManager.position_updated *)
(* into the position tracker. A login, the choice of the account and a     *)
(* change of mode read its balance anew, page by page, and rebuild the     *)
(* tracker from it (AccountSession: which account that is). All handlers   *)
(* run on the Qt main thread, one at a time; between them the market moves *)
(* and the broker executes.                                                *)
(***************************************************************************)
EXTENDS RiskManager, Broker

CONSTANTS
  MaxManual,      \* bound: orders entered by hand
  Unread          \* of a code whose balance row has not been read

ASSUME ManualAssumption == MaxManual \in Nat
ASSUME UnreadAssumption == Unread \notin Holding

VARIABLES
  manual,         \* orders entered by hand so far
  rows,           \* the holdings the balance query under way has read
  \* History:
  overlap,        \* a strategy bought when the tracker might not be up to date
  stale           \* codes loaded from rows the account had moved on from, and
                  \* not reported since

queryVars == <<rows, stale>>
vars == <<positions, realized, blocked, clock, price, holdings, working, balances,
          manual, overlap, queryVars>>

TypeOK ==
  /\ RiskTypeOK /\ BrokerTypeOK /\ manual \in 0 .. MaxManual /\ overlap \in BOOLEAN
  /\ rows \in [Code -> Holding \cup {Unread}]
  /\ stale \subseteq Code

NoRows == [c \in Code |-> Unread]

Init ==
  /\ RiskInit /\ BrokerInit /\ manual = 0 /\ overlap = FALSE
  /\ rows = NoRows /\ stale = {}

MarketOrder(c, side, qty) == [code |-> c, side |-> side, qty |-> qty]

\* An order whose SendOrder fails, or that has no account, is not sent.
Send(orders) == Place(orders) /\ UNCHANGED <<price, holdings, balances>>

\* Buys whose result the tracker has not seen yet, or has lost again.
UnseenBuys == Working("BUY") # {} \/ balances # <<>> \/ stale # {}

\* StrategyManager._execute_signal in live mode: one share at market, judged
\* at the price signalPrice of the candle the signal came from.
ExecuteSignal(c, side, signalPrice) ==
  /\ ValidateOrder(c, side, 1, signalPrice)
  /\ Send({MarketOrder(c, side, 1)})
  /\ overlap' = (overlap \/ (side = "BUY" /\ UnseenBuys))
  /\ UNCHANGED <<positions, realized, blocked, clock, manual, queryVars>>

\* _on_manual_order: straight to OrderManager.
ManualOrder(c, side, qty) ==
  /\ manual < MaxManual
  /\ manual' = manual + 1
  /\ Send({MarketOrder(c, side, qty)})
  /\ UNCHANGED <<positions, realized, blocked, clock, overlap, queryVars>>

\* The price of c becomes p and RiskManager.on_price_update hears of it; of
\* the sells it submits those to sent are sent.
Tick(c, p, sent) ==
  /\ price' = [price EXCEPT ![c] = p]
  /\ OnPriceUpdate(c, p)
  /\ Place(ExitOrders(sent))
  /\ UNCHANGED <<holdings, balances, manual, overlap, queryVars>>

PriceTick(c) == \E p \in Price : \E sent \in SUBSET Exits(c, p) : Tick(c, p, sent)

\* A tick at the unchanged price, with every order sent.
Repeat(c) == Tick(c, price[c], Exits(c, price[c]))

\* handle_chejan_data with gubun 1.
HandleBalance ==
  /\ DeliverBalance
  /\ UpdateFromChejan(Head(balances))
  /\ stale' = stale \ {Head(balances).code}
  /\ UNCHANGED <<blocked, clock, manual, overlap, rows>>

\* _select_account: a new query starts without rows; those of a query still
\* under way are dropped.
QueryBalance ==
  /\ rows # NoRows
  /\ rows' = NoRows
  /\ UNCHANGED <<riskVars, brokerVars, manual, overlap, stale>>

\* BalanceQuery._on_receive, when more pages follow: the rows of these codes
\* wait for the last page.
ReadPage(codes) ==
  /\ \A c \in codes : rows[c] = Unread
  /\ rows' = [c \in Code |-> IF c \in codes THEN holdings[c] ELSE rows[c]]
  /\ \E c \in Code : rows'[c] = Unread
  /\ UNCHANGED <<riskVars, brokerVars, manual, overlap, stale>>

\* The last page, with the rows of all codes not read yet, and
\* _on_balance_loaded in the same handler. A row of an earlier page has the
\* price of the moment it was read, which may have been any.
LoadBalance(cur) ==
  LET row(c) == IF rows[c] = Unread THEN holdings[c] ELSE rows[c]
  IN /\ \A c \in Code : rows[c] = Unread => cur[c] = price[c]
     /\ LoadPositions([c \in Code |-> [code |-> c, qty |-> row(c).qty, avg |-> row(c).avg,
                                       cur |-> cur[c]]])
     /\ stale' = {c \in Code : row(c) # holdings[c]}
     /\ rows' = NoRows
     /\ UNCHANGED <<blocked, clock, brokerVars, manual, overlap>>

BalanceLoaded == \E cur \in [Code -> Price] : LoadBalance(cur)

\* The broker's own steps.
Settle(o) ==
  /\ \/ \E q \in 1 .. o.qty : Execute(o, q)
     \/ Refuse(o)
  /\ UNCHANGED <<positions, realized, blocked, clock, manual, overlap, queryVars>>

ClockTicks ==
  /\ NextInterval
  /\ UNCHANGED <<positions, realized, blocked, price, holdings, working, balances,
                 manual, overlap, queryVars>>

Next ==
  \/ \E c \in Code, side \in Side, p \in Price : ExecuteSignal(c, side, p)
  \/ \E o \in Order : ManualOrder(o.code, o.side, o.qty)
  \/ \E c \in Code : PriceTick(c)
  \/ HandleBalance
  \/ QueryBalance
  \/ \E codes \in SUBSET Code \ {{}} : ReadPage(codes)
  \/ BalanceLoaded
  \/ \E o \in Order : Settle(o)
  \/ ClockTicks

\* The event loop handles reports and ticks, the price feed repeats prices
\* that hold, SendOrder does not fail for ever, and the broker settles every
\* order.
Spec ==
  /\ Init
  /\ [][Next]_vars
  /\ WF_vars(HandleBalance)
  /\ \A c \in Code : WF_vars(Repeat(c))
  /\ \A o \in Order : WF_vars(Settle(o))

-----------------------------------------------------------------------------
(* Properties *)

\* The tracker, which takes absolute quantities from reports and from balance
\* queries, agrees with the account in every code no report is under way for,
\* unless it was loaded from a row read before the last execution; a report
\* or a new balance sets that right.
TrackerAgrees ==
  \A c \in Code \ stale :
    (\A k \in DOMAIN balances : balances[k].code # c) =>
      IF holdings[c].qty = 0 THEN c \notin Held
      ELSE c \in Held /\ positions[c].qty = holdings[c].qty
                      /\ positions[c].avg = holdings[c].avg

\* Buys of the strategies never take the account over the number of
\* positions allowed, provided none was sent while another was under way or
\* while the tracker was loaded from overtaken rows: validate_order counts
\* the tracker's positions, not orders.
LimitsHold ==
  ~overlap /\ manual = 0 => Cardinality({c \in Code : holdings[c].qty > 0}) <= MaxPositions

\* From one load of the balance to the next the stops of a held position
\* never loosen, however its quantity and average change and whatever pages a
\* query reads meanwhile: the high water mark and the trailing stop only
\* rise, stop loss and take profit stay. The load itself (a login, a choice
\* of the account, a change of mode) does loosen them: it starts every
\* position anew at the average price of its row.
StopsNeverLoosen ==
  [][\A c \in Held :
       positions'[c] # NoPosition /\ ~BalanceLoaded =>
         /\ positions'[c].hwm >= positions[c].hwm
         /\ positions'[c].ts >= positions[c].ts
         /\ positions'[c].sl = positions[c].sl
         /\ positions'[c].tp = positions[c].tp]_vars

\* Once the daily loss limit has been hit, what is held only shrinks, but for
\* buys sent before and buys by hand: neither recovering prices nor the
\* positions being gone opens the gate again.
BlockedOnlyShrinks ==
  [][blocked /\ manual = 0 =>
       /\ Working("BUY") = {} => \A c \in Code : holdings'[c].qty <= holdings[c].qty
       /\ manual' = 0 => \A o \in Working("BUY")' : \E b \in Working("BUY") : b.code = o.code]_vars

\* The price of c is at its stop loss or at its trailing stop.
AtStop(c) ==
  c \in Held /\ (price[c] <= positions[c].sl \/ price[c] <= TrailingStop(positions[c].hwm))

\* A position at its stop does not stay there: unless it is bought again and
\* again, or loaded again and again from overtaken rows, it is sold, its
\* price recovers or a load moves its stop, however executions are split and
\* whatever orders were refused on the way. (A position loaded from an
\* overtaken row sells shares that are not there until a report sets it
\* right.)
StopSells ==
  \A c \in Code :
    <>[](c \notin stale /\ \A o \in Working("BUY") : o.code # c)
      => (AtStop(c) ~> ~AtStop(c))

-----------------------------------------------------------------------------
(* What the documents say and the code does not do *)

\* "Daily P&L = realized + unrealized (key metric for daily loss limit)"
\* (position_tracker.py): the report that closes a position leaves its result
\* in the day's profit.
RealizedIsCounted ==
  [][HandleBalance /\ Head(balances).qty = 0 /\ Head(balances).code \in Held =>
       LET b   == Head(balances)
           pos == positions[b.code]
       IN DailyPnl(positions)' = DailyPnl(positions) - pos.pnl + (b.cur - pos.avg) * pos.qty]_vars
=============================================================================
