---------------------------- MODULE TradingProofs ----------------------------
(***************************************************************************)
(* What TradingSystem guarantees for any codes, prices, percentages and    *)
(* bounds: its types, that the tracker agrees with the account, that the   *)
(* limit of positions holds, that stops never loosen, and that nothing is  *)
(* bought once the daily loss limit has been hit.                          *)
(***************************************************************************)
EXTENDS TradingSystem, FiniteSetTheorems, TLAPS

-----------------------------------------------------------------------------
(* Arithmetic of the stops and of the average price *)

\* A quotient of whole numbers is a whole number.
LEMMA QuotientType ==
  ASSUME NEW x \in Nat, NEW y \in Nat \ {0}
  PROVE  x \div y \in Nat
OBVIOUS

\* A product of whole numbers is one, and grows with each factor.
LEMMA ProductType ==
  ASSUME NEW x \in Nat, NEW k \in Nat
  PROVE  /\ x * k \in Nat
         /\ \A y \in Nat : x <= y => x * k <= y * k
OBVIOUS

\* A hundredth is a whole number, and grows with what it is taken of.
LEMMA HundredthType ==
  ASSUME NEW x \in Nat, NEW y \in Nat, x <= y
  PROVE  x \div 100 \in Nat /\ x \div 100 <= y \div 100
OBVIOUS

\* The three stops of a position are prices.
LEMMA StopTypes ==
  ASSUME NEW a \in Nat
  PROVE  StopLoss(a) \in Nat /\ TakeProfit(a) \in Nat /\ TrailingStop(a) \in Nat
<1>1. 100 - StopLossPct \in Nat /\ 100 + TakeProfitPct \in Nat /\ 100 - TrailingStopPct \in Nat
  BY PercentAssumption
<1> QED
  BY <1>1, ProductType, HundredthType DEF StopLoss, TakeProfit, TrailingStop

\* The trailing stop rises with the high water mark.
LEMMA TrailingStopRises ==
  ASSUME NEW a \in Nat, NEW b \in Nat, a <= b
  PROVE  TrailingStop(a) <= TrailingStop(b)
<1>1. 100 - TrailingStopPct \in Nat
  BY PercentAssumption
<1>2. /\ a * (100 - TrailingStopPct) \in Nat /\ b * (100 - TrailingStopPct) \in Nat
      /\ a * (100 - TrailingStopPct) <= b * (100 - TrailingStopPct)
  BY <1>1, ProductType
<1> QED
  BY <1>2, HundredthType DEF TrailingStop

-----------------------------------------------------------------------------
(* Types *)

LEMMA PriceType ==
  /\ MaxQty \in Nat \ {0}
  /\ \A p \in Price : p \in Nat
BY PriceAssumption

\* A report makes positions of positions, with its quantity and average.
LEMMA ReportedType ==
  ASSUME NEW b \in Balance, b.qty # 0
  PROVE  /\ NewPosition(b.qty, b.avg) \in Position
         /\ \A p \in Position : /\ Reported(p, b) \in Position
                               /\ Reported(p, b).qty = b.qty /\ Reported(p, b).avg = b.avg
<1>1. b.qty \in 1 .. MaxQty /\ b.avg \in Nat /\ b.cur \in Nat
  <2>1. b.qty \in 0 .. MaxQty /\ b.avg \in Nat /\ b.cur \in Price
    BY DEF Balance
  <2> QED
    BY <2>1, PriceType
<1>2. (b.cur - b.avg) * b.qty \in Int
  BY <1>1
<1>3. NewPosition(b.qty, b.avg) \in Position
  BY <1>1, StopTypes DEF NewPosition, Position
<1>4. ASSUME NEW p \in Position
      PROVE  /\ Reported(p, b) \in Position
             /\ Reported(p, b).qty = b.qty /\ Reported(p, b).avg = b.avg
  BY <1>1, <1>2 DEF Reported, Valued, Position
<1> QED
  BY <1>3, <1>4

\* on_price_update leaves the types, and of each position its quantity,
\* average and fixed stops; only a new high moves the other two.
LEMMA TickKeeps ==
  ASSUME TrackerTypeOK, NEW c \in Code, NEW p \in Price, OnPriceUpdate(c, p)
  PROVE  /\ TrackerTypeOK'
         /\ \A d \in Code :
              \/ positions[d] = NoPosition /\ positions'[d] = NoPosition
              \/ /\ positions[d] \in Position /\ positions'[d] \in Position
                 /\ positions'[d].qty = positions[d].qty /\ positions'[d].avg = positions[d].avg
                 /\ positions'[d].sl = positions[d].sl /\ positions'[d].tp = positions[d].tp
                 /\ \/ positions'[d].hwm = positions[d].hwm /\ positions'[d].ts = positions[d].ts
                    \/ /\ positions'[d].hwm > positions[d].hwm
                       /\ positions'[d].ts = TrailingStop(positions'[d].hwm)
<1>1. p \in Nat
  BY PriceAssumption
<1>2. CASE positions[c] = NoPosition
  <2>1. positions' = positions /\ realized' = realized
    BY <1>2 DEF OnPriceUpdate, UpdatePrice, NewHigh, Held
  <2> QED
    BY <2>1 DEF TrackerTypeOK
<1>3. CASE positions[c] # NoPosition
  <2> DEFINE q == positions[c]
             v == Valued(q, q.qty, q.avg, (p - q.avg) * q.qty)
  <2>1. q \in Position
    BY <1>3 DEF TrackerTypeOK
  <2>2. (p - q.avg) * q.qty \in Int
    BY <1>1, <2>1 DEF Position
  <2>3. v \in Position /\ v.qty = q.qty /\ v.avg = q.avg /\ v.sl = q.sl /\ v.tp = q.tp
        /\ v.hwm = q.hwm /\ v.ts = q.ts
    BY <2>1, <2>2 DEF Valued, Position
  <2>4. UpdatePrice(c, p) = [positions EXCEPT ![c] = v]
    BY <1>3 DEF UpdatePrice
  <2>5. /\ Raised(v, p) \in Position
        /\ Raised(v, p).qty = q.qty /\ Raised(v, p).avg = q.avg
        /\ Raised(v, p).sl = q.sl /\ Raised(v, p).tp = q.tp
        /\ Raised(v, p).hwm = p /\ Raised(v, p).ts = TrailingStop(p)
    BY <1>1, <2>3, StopTypes DEF Raised, Position
  <2>6. CASE NewHigh(c, p)
    <3>1. positions' = [positions EXCEPT ![c] = Raised(v, p)] /\ realized' = realized
      BY <2>4, <2>6 DEF OnPriceUpdate, TrackerTypeOK
    <3>2. p > q.hwm
      BY <2>6 DEF NewHigh
    <3> HIDE DEF v
    <3> QED
      BY <2>1, <2>5, <3>1, <3>2 DEF TrackerTypeOK
  <2>7. CASE ~NewHigh(c, p)
    <3>1. positions' = [positions EXCEPT ![c] = v] /\ realized' = realized
      BY <2>4, <2>7 DEF OnPriceUpdate
    <3> HIDE DEF v
    <3> QED
      BY <2>1, <2>3, <3>1 DEF TrackerTypeOK
  <2> QED
    BY <2>6, <2>7
<1> QED
  BY <1>2, <1>3

\* What update_from_chejan makes of each position.
LEMMA ReportKeeps ==
  ASSUME TrackerTypeOK, NEW b \in Balance, UpdateFromChejan(b)
  PROVE  /\ TrackerTypeOK'
         /\ \A d \in Code \ {b.code} : positions'[d] = positions[d]
         /\ b.qty = 0 => positions'[b.code] = NoPosition
         /\ b.qty # 0 =>
              positions'[b.code] =
                IF positions[b.code] = NoPosition THEN Reported(NewPosition(b.qty, b.avg), b)
                                                  ELSE Reported(positions[b.code], b)
<1>1. b.code \in Code
  BY DEF Balance
<1>2. positions[b.code] # NoPosition => positions[b.code] \in Position
  BY <1>1 DEF TrackerTypeOK
<1>3. b.qty # 0 => /\ Reported(NewPosition(b.qty, b.avg), b) \in Position
                   /\ positions[b.code] # NoPosition =>
                        Reported(positions[b.code], b) \in Position
  BY <1>2, ReportedType
<1> QED
  BY <1>1, <1>3 DEF UpdateFromChejan, TrackerTypeOK

\* Orders of any codes can be placed.
LEMMA PlaceType ==
  ASSUME BrokerTypeOK, NEW orders, Send(orders) \/ (Place(orders) /\ UNCHANGED <<holdings, balances>>)
  PROVE  (working \in [Order -> 0 .. MaxWorking])'
BY BrokerAssumption DEF BrokerTypeOK, Send, Place

\* An execution keeps the account's types.
LEMMA ExecutedType ==
  ASSUME BrokerTypeOK, NEW o \in Order, NEW q \in 1 .. o.qty, Execute(o, q)
  PROVE  /\ BrokerTypeOK'
         /\ Executed(o, q) \in Holding
         /\ holdings' = [holdings EXCEPT ![o.code] = Executed(o, q)]
         /\ \E b \in Balance : /\ b.code = o.code /\ b.qty = Executed(o, q).qty
                              /\ b.avg = Executed(o, q).avg
                              /\ balances' = Append(balances, b)
<1> DEFINE h == holdings[o.code]
           p == price[o.code]
<1>1. /\ o.code \in Code /\ o.side \in Side /\ o.qty \in 1 .. MaxQty /\ q \in 1 .. MaxQty
      /\ h.qty \in 0 .. MaxQty /\ h.avg \in Nat /\ p \in Nat /\ p \in Price
  <2>1. o.code \in Code /\ o.side \in Side /\ o.qty \in 1 .. MaxQty
    BY DEF Order
  <2>2. h \in Holding /\ p \in Price
    BY <2>1 DEF BrokerTypeOK
  <2> QED
    BY <2>1, <2>2, PriceType DEF Holding
<1>2. Executed(o, q) \in Holding
  <2>1. CASE o.side = "SELL"
    <3>1. q <= h.qty
      BY <2>1 DEF Execute
    <3>2. h.qty - q \in 0 .. MaxQty
      BY <1>1, <3>1, PriceType
    <3> QED
      BY <1>1, <2>1, <3>2 DEF Executed, Holding
  <2>2. CASE o.side # "SELL"
    <3>1. h.qty + q \in 1 .. MaxQty
      BY <1>1, <2>2 DEF Execute
    <3>2. h.avg * h.qty \in Nat /\ p * q \in Nat
      BY <1>1, ProductType
    <3>3. (h.avg * h.qty + p * q) \div (h.qty + q) \in Nat
      <4>1. h.avg * h.qty + p * q \in Nat /\ h.qty + q \in Nat \ {0}
        BY <3>1, <3>2
      <4> QED
        BY <4>1, QuotientType
    <3> QED
      BY <2>2, <3>1, <3>3 DEF Executed, Holding
  <2> QED
    BY <2>1, <2>2
<1>3. holdings' \in [Code -> Holding] /\ holdings' = [holdings EXCEPT ![o.code] = Executed(o, q)]
  BY <1>2 DEF Execute, BrokerTypeOK
<1>4. working' \in [Order -> 0 .. MaxWorking]
  BY BrokerAssumption DEF Execute, BrokerTypeOK
<1> DEFINE b == [code |-> o.code, qty |-> Executed(o, q).qty, avg |-> Executed(o, q).avg,
                 cur |-> p]
<1>5. b \in Balance /\ balances' = Append(balances, b)
  BY <1>1, <1>2 DEF Execute, Balance, Holding
<1>6. balances' \in Seq(Balance) /\ price' = price
  BY <1>5 DEF BrokerTypeOK, Execute
<1> QED
  BY <1>2, <1>3, <1>4, <1>5, <1>6 DEF BrokerTypeOK

\* A row makes a position, with its quantity and average and with the stops
\* of that average, or none.
LEMMA LoadedType ==
  ASSUME NEW b \in Balance
  PROVE  /\ Loaded(b) \in Position \cup {NoPosition}
         /\ b.qty = 0 => Loaded(b) = NoPosition
         /\ b.qty # 0 => /\ Loaded(b) # NoPosition
                         /\ Loaded(b).qty = b.qty /\ Loaded(b).avg = b.avg
                         /\ Loaded(b).ts = TrailingStop(Loaded(b).hwm)
<1>1. CASE b.qty = 0
  BY <1>1 DEF Loaded
<1>2. CASE b.qty # 0
  <2> DEFINE n == NewPosition(b.qty, b.avg)
  <2>1. Loaded(b) = Reported(n, b)
    BY <1>2 DEF Loaded
  <2>2. n.ts = TrailingStop(n.hwm)
    BY DEF NewPosition
  <2>3. Reported(n, b).ts = n.ts /\ Reported(n, b).hwm = n.hwm
    BY DEF Reported, Valued
  <2> QED
    BY <1>2, <2>1, <2>2, <2>3, ReportedType, NoPositionAssumption
<1> QED
  BY <1>1, <1>2

\* The row of code c that a load takes: read before, or in the last page.
RowOf(c) == IF rows[c] = Unread THEN holdings[c] ELSE rows[c]

\* What a load makes of each position.
LEMMA LoadKeeps ==
  ASSUME TypeOK, NEW cur \in [Code -> Price], LoadBalance(cur)
  PROVE  /\ TrackerTypeOK'
         /\ stale' = {c \in Code : RowOf(c) # holdings[c]}
         /\ \A c \in Code : \E b \in Balance :
              /\ positions'[c] = Loaded(b)
              /\ b.qty = RowOf(c).qty /\ b.avg = RowOf(c).avg
<1> DEFINE row == [c \in Code |-> [code |-> c, qty |-> RowOf(c).qty, avg |-> RowOf(c).avg,
                                   cur |-> cur[c]]]
<1>1. /\ positions' = [c \in Code |-> Loaded(row[c])] /\ realized' = realized
      /\ stale' = {c \in Code : RowOf(c) # holdings[c]}
  BY DEF LoadBalance, LoadPositions, RowOf
<1>2. ASSUME NEW c \in Code
      PROVE  row[c] \in Balance /\ row[c].qty = RowOf(c).qty /\ row[c].avg = RowOf(c).avg
  <2>1. RowOf(c) \in Holding
    BY DEF RowOf, TypeOK, BrokerTypeOK
  <2> QED
    BY <2>1 DEF Holding, Balance
<1> HIDE DEF row
<1>3. \A c \in Code : positions'[c] = Loaded(row[c]) /\ Loaded(row[c]) \in Position \cup {NoPosition}
  BY <1>1, <1>2, LoadedType
<1>4. TrackerTypeOK'
  BY <1>1, <1>3 DEF TrackerTypeOK, TypeOK, RiskTypeOK
<1> QED
  BY <1>1, <1>2, <1>3, <1>4

LEMMA InitType == Init => TypeOK
<1> SUFFICES ASSUME Init PROVE TypeOK
  OBVIOUS
<1>1. RiskTypeOK
  <2>1. TrackerTypeOK
    BY DEF Init, RiskInit, TrackerInit, TrackerTypeOK
  <2>2. HoursTypeOK
    BY HoursAssumption DEF Init, RiskInit, HoursInit, HoursTypeOK
  <2> QED
    BY <2>1, <2>2 DEF Init, RiskInit, RiskTypeOK
<1>2. BrokerTypeOK
  BY PriceAssumption, BrokerAssumption DEF Init, BrokerInit, BrokerTypeOK, Holding
<1>3. manual = 0 /\ overlap = FALSE /\ rows = NoRows /\ stale = {}
  BY DEF Init
<1>4. manual \in 0 .. MaxManual
  BY <1>3, ManualAssumption
<1> QED
  BY <1>1, <1>2, <1>3, <1>4 DEF TypeOK, NoRows

LEMMA NextType == TypeOK /\ [Next]_vars => TypeOK'
<1> SUFFICES ASSUME TypeOK, [Next]_vars PROVE TypeOK'
  OBVIOUS
<1> USE DEF TypeOK
<1>1. ASSUME NEW c \in Code, NEW side \in Side, NEW p \in Price, ExecuteSignal(c, side, p)
      PROVE  TypeOK'
  BY <1>1, PlaceType DEF ExecuteSignal, Send, RiskTypeOK, TrackerTypeOK, HoursTypeOK,
     BrokerTypeOK, queryVars
<1>2. ASSUME NEW o \in Order, ManualOrder(o.code, o.side, o.qty)
      PROVE  TypeOK'
  BY <1>2, PlaceType, ManualAssumption DEF ManualOrder, Send, RiskTypeOK, TrackerTypeOK, HoursTypeOK,
     BrokerTypeOK, queryVars
<1>3. ASSUME NEW c \in Code, PriceTick(c)
      PROVE  TypeOK'
  <2>0. PICK p \in Price : \E sent \in SUBSET Exits(c, p) : Tick(c, p, sent)
    BY <1>3 DEF PriceTick
  <2>1. PICK sent \in SUBSET Exits(c, p) : Tick(c, p, sent)
    BY <2>0
  <2>2. TrackerTypeOK'
    BY <2>1, TickKeeps DEF RiskTypeOK, Tick
  <2>3. HoursTypeOK' /\ (blocked \in BOOLEAN)'
    BY <2>1 DEF Tick, OnPriceUpdate, RiskTypeOK, HoursTypeOK
  <2>4. BrokerTypeOK'
    BY <2>1, PlaceType DEF Tick, BrokerTypeOK
  <2> QED
    BY <2>1, <2>2, <2>3, <2>4 DEF Tick, RiskTypeOK, queryVars
<1>4. CASE HandleBalance
  <2>1. Head(balances) \in Balance /\ Tail(balances) \in Seq(Balance)
    BY <1>4 DEF HandleBalance, DeliverBalance, BrokerTypeOK
  <2>2. TrackerTypeOK'
    BY <1>4, <2>1, ReportKeeps DEF RiskTypeOK, HandleBalance
  <2> QED
    BY <1>4, <2>1, <2>2 DEF HandleBalance, DeliverBalance, RiskTypeOK, HoursTypeOK, BrokerTypeOK
<1>5. ASSUME NEW o \in Order, Settle(o)
      PROVE  TypeOK'
  <2>1. BrokerTypeOK'
    <3>1. CASE Refuse(o)
      BY <3>1, BrokerAssumption DEF Refuse, BrokerTypeOK
    <3> QED
      BY <1>5, <3>1, ExecutedType DEF Settle
  <2> QED
    BY <1>5, <2>1 DEF Settle, RiskTypeOK, TrackerTypeOK, HoursTypeOK, queryVars
<1>6. CASE ClockTicks
  BY <1>6, HoursAssumption DEF ClockTicks, NextInterval, RiskTypeOK, TrackerTypeOK, HoursTypeOK,
     BrokerTypeOK, queryVars
<1>7. CASE UNCHANGED vars
  BY <1>7 DEF vars, queryVars, RiskTypeOK, TrackerTypeOK, HoursTypeOK, BrokerTypeOK
<1>8. CASE QueryBalance
  BY <1>8 DEF QueryBalance, NoRows, riskVars, brokerVars, RiskTypeOK, TrackerTypeOK,
     HoursTypeOK, BrokerTypeOK
<1>9. ASSUME NEW codes \in SUBSET Code, ReadPage(codes)
      PROVE  TypeOK'
  <2>1. (rows \in [Code -> Holding \cup {Unread}])'
    BY <1>9 DEF ReadPage, BrokerTypeOK
  <2> QED
    BY <1>9, <2>1 DEF ReadPage, riskVars, brokerVars, RiskTypeOK, TrackerTypeOK,
       HoursTypeOK, BrokerTypeOK
<1>10. ASSUME NEW cur \in [Code -> Price], LoadBalance(cur)
       PROVE  TypeOK'
  <2>1. TrackerTypeOK' /\ (stale \subseteq Code)'
    BY <1>10, LoadKeeps
  <2>2. (rows \in [Code -> Holding \cup {Unread}])'
    BY <1>10 DEF LoadBalance, NoRows
  <2> QED
    BY <1>10, <2>1, <2>2 DEF LoadBalance, brokerVars, RiskTypeOK, HoursTypeOK, BrokerTypeOK
<1> QED
  BY <1>1, <1>2, <1>3, <1>4, <1>5, <1>6, <1>7, <1>8, <1>9, <1>10 DEF Next, BalanceLoaded

\* Tracker, risk manager, clock, account and exchange keep their types.
THEOREM Types == Spec => []TypeOK
BY InitType, NextType, PTL DEF Spec

-----------------------------------------------------------------------------
(* The stops of a held position *)

\* The trailing stop of a held position is that of its high water mark.
StopsFollow ==
  \A c \in Held : positions[c].ts = TrailingStop(positions[c].hwm)

\* Only reports, ticks and loads change positions.
LEMMA WhoTouchesPositions ==
  ASSUME TypeOK, [Next]_vars, positions' # positions
  PROVE  \/ HandleBalance /\ Head(balances) \in Balance /\ UpdateFromChejan(Head(balances))
         \/ \E c \in Code, p \in Price : OnPriceUpdate(c, p)
         \/ BalanceLoaded
<1>1. HandleBalance => Head(balances) \in Balance /\ UpdateFromChejan(Head(balances))
  BY DEF TypeOK, HandleBalance, DeliverBalance, BrokerTypeOK
<1>2. ASSUME NEW c \in Code, PriceTick(c) PROVE \E p \in Price : OnPriceUpdate(c, p)
  BY <1>2 DEF PriceTick, Tick
<1> QED
  BY <1>1, <1>2 DEF Next, vars, ExecuteSignal, ManualOrder, Settle, ClockTicks, QueryBalance,
     ReadPage, riskVars

LEMMA StopsFollowInit == Init => StopsFollow
BY DEF Init, RiskInit, TrackerInit, StopsFollow, Held

\* What a report does to the stops of one position.
LEMMA ReportStops ==
  ASSUME TrackerTypeOK, NEW b \in Balance, UpdateFromChejan(b), NEW c \in Code,
         positions'[c] # NoPosition
  PROVE  \/ /\ positions[c] # NoPosition
            /\ positions'[c].hwm = positions[c].hwm /\ positions'[c].ts = positions[c].ts
            /\ positions'[c].sl = positions[c].sl /\ positions'[c].tp = positions[c].tp
         \/ /\ positions[c] = NoPosition
            /\ positions'[c].ts = TrailingStop(positions'[c].hwm)
<1>1. CASE c # b.code
  <2>1. positions'[c] = positions[c]
    BY <1>1, ReportKeeps
  <2> QED
    BY <2>1
<1>2. CASE c = b.code
  <2>1. positions'[c] = IF positions[c] = NoPosition THEN Reported(NewPosition(b.qty, b.avg), b)
                                                     ELSE Reported(positions[c], b)
    BY <1>2, ReportKeeps
  <2> QED
    BY <2>1 DEF Reported, Valued, NewPosition
<1> QED
  BY <1>1, <1>2

LEMMA StopsFollowNext == TypeOK /\ StopsFollow /\ [Next]_vars => StopsFollow'
<1> SUFFICES ASSUME TypeOK, StopsFollow, [Next]_vars,
                    NEW c \in Code, positions'[c] # NoPosition
             PROVE  positions'[c].ts = TrailingStop(positions'[c].hwm)
  BY DEF StopsFollow, Held
<1>1. positions[c] # NoPosition => positions[c].ts = TrailingStop(positions[c].hwm)
  BY DEF StopsFollow, Held
<1>2. TrackerTypeOK
  BY DEF TypeOK, RiskTypeOK
<1>3. CASE positions' = positions
  BY <1>1, <1>3
<1>4. CASE HandleBalance /\ Head(balances) \in Balance /\ UpdateFromChejan(Head(balances))
  BY <1>1, <1>2, <1>4, ReportStops
<1>5. ASSUME NEW d \in Code, NEW p \in Price, OnPriceUpdate(d, p)
      PROVE  positions'[c].ts = TrailingStop(positions'[c].hwm)
  <2>1. \/ positions[c] = NoPosition /\ positions'[c] = NoPosition
        \/ /\ positions[c] # NoPosition
           /\ positions'[c].hwm = positions[c].hwm /\ positions'[c].ts = positions[c].ts
        \/ positions'[c].ts = TrailingStop(positions'[c].hwm)
    BY <1>2, <1>5, TickKeeps, NoPositionAssumption
  <2> QED
    BY <1>1, <2>1
<1>6. CASE BalanceLoaded
  <2>1. PICK cur \in [Code -> Price] : LoadBalance(cur)
    BY <1>6 DEF BalanceLoaded
  <2>2. PICK b \in Balance : positions'[c] = Loaded(b)
    BY <2>1, LoadKeeps
  <2> QED
    BY <2>2, LoadedType
<1> QED
  BY <1>3, <1>4, <1>5, <1>6, WhoTouchesPositions

\* One step, unless it loads the balance, loosens no stop of a position it
\* leaves held.
LEMMA StopsStep ==
  ASSUME TypeOK, StopsFollow, [Next]_vars, NEW c \in Held, positions'[c] # NoPosition,
         ~BalanceLoaded
  PROVE  /\ positions'[c].hwm >= positions[c].hwm
         /\ positions'[c].ts >= positions[c].ts
         /\ positions'[c].sl = positions[c].sl
         /\ positions'[c].tp = positions[c].tp
<1>1. c \in Code /\ positions[c] \in Position /\ positions[c].ts = TrailingStop(positions[c].hwm)
  BY DEF StopsFollow, Held, TypeOK, RiskTypeOK, TrackerTypeOK
<1>2. positions[c].hwm \in Nat /\ positions[c].ts \in Nat
  BY <1>1 DEF Position
<1>3. TrackerTypeOK
  BY DEF TypeOK, RiskTypeOK
<1>4. CASE positions' = positions
  BY <1>2, <1>4
<1>5. CASE HandleBalance /\ Head(balances) \in Balance /\ UpdateFromChejan(Head(balances))
  <2>1. /\ positions'[c].hwm = positions[c].hwm /\ positions'[c].ts = positions[c].ts
        /\ positions'[c].sl = positions[c].sl /\ positions'[c].tp = positions[c].tp
    BY <1>1, <1>3, <1>5, ReportStops DEF Held
  <2> QED
    BY <1>2, <2>1
<1>6. CASE \E d \in Code, p \in Price : OnPriceUpdate(d, p)
  <2>1. PICK d \in Code, p \in Price : OnPriceUpdate(d, p)
    BY <1>6
  <2>2. /\ positions'[c] \in Position
        /\ positions'[c].sl = positions[c].sl /\ positions'[c].tp = positions[c].tp
        /\ \/ positions'[c].hwm = positions[c].hwm /\ positions'[c].ts = positions[c].ts
           \/ /\ positions'[c].hwm > positions[c].hwm
              /\ positions'[c].ts = TrailingStop(positions'[c].hwm)
    BY <1>1, <1>3, <2>1, TickKeeps DEF Held
  <2>3. positions'[c].hwm \in Nat
    BY <2>2 DEF Position
  <2> QED
    BY <1>1, <1>2, <2>2, <2>3, TrailingStopRises
<1> QED
  BY <1>4, <1>5, <1>6, WhoTouchesPositions

\* Until the balance is loaded anew the high water mark and the trailing stop
\* of a held position only rise, and its stop loss and take profit stay.
THEOREM StopsOnlyTighten == Spec => StopsNeverLoosen
<1>1. TypeOK /\ StopsFollow /\ [Next]_vars =>
        [\A c \in Held :
           positions'[c] # NoPosition /\ ~BalanceLoaded =>
             /\ positions'[c].hwm >= positions[c].hwm
             /\ positions'[c].ts >= positions[c].ts
             /\ positions'[c].sl = positions[c].sl
             /\ positions'[c].tp = positions[c].tp]_vars
  BY StopsStep
<1> QED
  BY <1>1, InitType, NextType, StopsFollowInit, StopsFollowNext, PTL DEF Spec, StopsNeverLoosen

-----------------------------------------------------------------------------
(* The tracker and the account *)

\* The last report under way for a code says what the account holds of it.
LastReportIsTrue ==
  \A k \in DOMAIN balances :
    (\A j \in DOMAIN balances : j > k => balances[j].code # balances[k].code) =>
      /\ balances[k].qty = holdings[balances[k].code].qty
      /\ balances[k].avg = holdings[balances[k].code].avg

\* The tracker agrees with the account in code c.
Agrees(c) ==
  IF holdings[c].qty = 0 THEN c \notin Held
  ELSE c \in Held /\ positions[c].qty = holdings[c].qty /\ positions[c].avg = holdings[c].avg

\* Reports of other codes, and of what was before, leave both as they are.
LEMMA AgreementInit == Init => LastReportIsTrue /\ TrackerAgrees
<1> SUFFICES ASSUME Init PROVE LastReportIsTrue /\ TrackerAgrees
  OBVIOUS
<1>1. balances = <<>> /\ positions = [c \in Code |-> NoPosition]
      /\ \A c \in Code : holdings[c].qty = 0
  BY DEF Init, BrokerInit, RiskInit, TrackerInit
<1> QED
  BY <1>1 DEF LastReportIsTrue, TrackerAgrees, Held

\* Ticks, and steps that leave positions, account and reports alone.
LEMMA AgreementQuiet ==
  ASSUME TypeOK, LastReportIsTrue, TrackerAgrees, UNCHANGED <<holdings, balances, stale>>,
         \A c \in Code :
           \/ positions'[c] = positions[c]
           \/ /\ positions[c] # NoPosition /\ positions'[c] # NoPosition
              /\ positions'[c].qty = positions[c].qty /\ positions'[c].avg = positions[c].avg
  PROVE  (LastReportIsTrue /\ TrackerAgrees)'
<1>1. LastReportIsTrue'
  BY DEF LastReportIsTrue
<1>2. ASSUME NEW c \in Code \ stale, \A k \in DOMAIN balances : balances[k].code # c
      PROVE  Agrees(c)'
  <2>1. Agrees(c)
    BY <1>2 DEF TrackerAgrees, Agrees
  <2> QED
    BY <2>1 DEF Agrees, Held
<1> QED
  BY <1>1, <1>2 DEF TrackerAgrees, Agrees

\* An execution raises the report that says what it leaves.
LEMMA AgreementExecute ==
  ASSUME TypeOK, LastReportIsTrue, TrackerAgrees, UNCHANGED <<positions, stale>>,
         NEW o \in Order, NEW q \in 1 .. o.qty, Execute(o, q)
  PROVE  (LastReportIsTrue /\ TrackerAgrees)'
<1> DEFINE h == Executed(o, q)
<1>1. PICK b \in Balance : /\ b.code = o.code /\ b.qty = h.qty /\ b.avg = h.avg
                           /\ balances' = Append(balances, b)
  BY ExecutedType DEF TypeOK
<1>2. /\ holdings' = [holdings EXCEPT ![o.code] = h] /\ holdings \in [Code -> Holding]
      /\ o.code \in Code /\ balances \in Seq(Balance)
  BY ExecutedType DEF TypeOK, BrokerTypeOK, Order
<1> HIDE DEF h
<1>3. holdings'[o.code] = h /\ \A c \in Code \ {o.code} : holdings'[c] = holdings[c]
  BY <1>2
<1>4. /\ Len(balances) \in Nat /\ DOMAIN balances = 1 .. Len(balances)
      /\ DOMAIN balances' = 1 .. Len(balances) + 1
      /\ \A k \in DOMAIN balances : balances'[k] = balances[k] /\ balances[k].code \in Code
      /\ balances'[Len(balances) + 1] = b
  <2>1. \A k \in DOMAIN balances : balances[k] \in Balance
    BY <1>2
  <2>2. \A k \in DOMAIN balances : balances[k].code \in Code
    BY <2>1 DEF Balance
  <2> QED
    BY <1>1, <1>2, <2>2
<1>5. LastReportIsTrue'
  <2> SUFFICES ASSUME NEW k \in DOMAIN balances',
                      \A j \in DOMAIN balances' : j > k => balances'[j].code # balances'[k].code
               PROVE  /\ balances'[k].qty = holdings'[balances'[k].code].qty
                      /\ balances'[k].avg = holdings'[balances'[k].code].avg
    BY DEF LastReportIsTrue
  <2>1. CASE k = Len(balances) + 1
    BY <1>1, <1>3, <1>4, <2>1
  <2>2. CASE k \in DOMAIN balances
    <3>1. balances[k].code # o.code /\ balances[k].code \in Code
      BY <1>1, <1>4, <2>2
    <3>2. \A j \in DOMAIN balances : j > k => balances[j].code # balances[k].code
      BY <1>4, <2>2
    <3> QED
      BY <1>3, <1>4, <2>2, <3>1, <3>2 DEF LastReportIsTrue
  <2> QED
    BY <1>4, <2>1, <2>2
<1>6. ASSUME NEW c \in Code \ stale, \A k \in DOMAIN balances' : balances'[k].code # c
      PROVE  Agrees(c)'
  <2>1. c # o.code /\ \A k \in DOMAIN balances : balances[k].code # c
    BY <1>1, <1>4, <1>6
  <2>2. Agrees(c)
    BY <2>1 DEF TrackerAgrees, Agrees
  <2> QED
    BY <1>3, <2>1, <2>2 DEF Agrees, Held
<1> QED
  BY <1>5, <1>6 DEF TrackerAgrees, Agrees

\* The tracker follows the oldest report.
LEMMA AgreementReport ==
  ASSUME TypeOK, LastReportIsTrue, TrackerAgrees, HandleBalance
  PROVE  (LastReportIsTrue /\ TrackerAgrees)'
<1> DEFINE b == Head(balances)
<1>1. /\ balances \in Seq(Balance) /\ balances # <<>> /\ balances' = Tail(balances)
      /\ holdings' = holdings /\ UpdateFromChejan(b) /\ TrackerTypeOK
      /\ stale' = stale \ {b.code}
  BY DEF HandleBalance, DeliverBalance, TypeOK, BrokerTypeOK, RiskTypeOK
<1>2. b \in Balance /\ b = balances[1] /\ 1 \in DOMAIN balances /\ b.code \in Code
  <2>1. b \in Balance /\ b = balances[1] /\ 1 \in DOMAIN balances
    BY <1>1
  <2> QED
    BY <2>1 DEF Balance
<1>3. /\ Len(balances) \in Nat /\ DOMAIN balances = 1 .. Len(balances)
      /\ DOMAIN balances' = 1 .. Len(balances) - 1
      /\ \A k \in DOMAIN balances' : k + 1 \in DOMAIN balances /\ balances'[k] = balances[k + 1]
  BY <1>1
<1> HIDE DEF b
<1>4. LastReportIsTrue'
  <2> SUFFICES ASSUME NEW k \in DOMAIN balances',
                      \A j \in DOMAIN balances' : j > k => balances'[j].code # balances'[k].code
               PROVE  /\ balances'[k].qty = holdings'[balances'[k].code].qty
                      /\ balances'[k].avg = holdings'[balances'[k].code].avg
    BY DEF LastReportIsTrue
  <2>1. \A j \in DOMAIN balances : j > k + 1 => balances[j].code # balances[k + 1].code
    <3> SUFFICES ASSUME NEW j \in DOMAIN balances, j > k + 1
                 PROVE  balances[j].code # balances[k + 1].code
      OBVIOUS
    <3>1. j - 1 \in DOMAIN balances' /\ j - 1 > k /\ (j - 1) + 1 = j
      BY <1>3
    <3> QED
      BY <1>3, <3>1
  <2> QED
    BY <1>1, <1>3, <2>1 DEF LastReportIsTrue
<1>5. ASSUME NEW c \in Code \ stale', \A k \in DOMAIN balances' : balances'[k].code # c
      PROVE  Agrees(c)'
  <2>1. \A k \in DOMAIN balances : k > 1 => balances[k].code # c
    <3> SUFFICES ASSUME NEW k \in DOMAIN balances, k > 1 PROVE balances[k].code # c
      OBVIOUS
    <3>1. k - 1 \in DOMAIN balances' /\ (k - 1) + 1 = k
      BY <1>3
    <3> QED
      BY <1>3, <1>5, <3>1
  <2>2. CASE b.code = c
    <3>1. b.qty = holdings[c].qty /\ b.avg = holdings[c].avg
      BY <1>2, <2>1, <2>2 DEF LastReportIsTrue
    <3>2. b.qty = 0 => positions'[c] = NoPosition
      BY <1>1, <1>2, <2>2, ReportKeeps
    <3>3. b.qty # 0 => /\ positions'[c] # NoPosition
                       /\ positions'[c].qty = b.qty /\ positions'[c].avg = b.avg
      <4> SUFFICES ASSUME b.qty # 0
                   PROVE  /\ positions'[c] # NoPosition
                          /\ positions'[c].qty = b.qty /\ positions'[c].avg = b.avg
        OBVIOUS
      <4>1. PICK p : positions'[c] = Reported(p, b) /\ (p \in Position)
        BY <1>1, <1>2, <2>2, ReportKeeps, ReportedType DEF TrackerTypeOK
      <4> QED
        BY <1>2, <4>1, ReportedType, NoPositionAssumption
    <3> QED
      BY <1>1, <3>1, <3>2, <3>3 DEF Agrees, Held
  <2>3. CASE b.code # c
    <3>1. \A k \in DOMAIN balances : balances[k].code # c
      BY <1>2, <1>3, <2>1, <2>3
    <3>2. Agrees(c)
      BY <1>1, <2>3, <3>1 DEF TrackerAgrees, Agrees
    <3>3. positions'[c] = positions[c]
      BY <1>1, <1>2, <2>3, ReportKeeps
    <3> QED
      BY <1>1, <3>2, <3>3 DEF Agrees, Held
  <2> QED
    BY <2>2, <2>3
<1> QED
  BY <1>4, <1>5 DEF TrackerAgrees, Agrees

\* A load takes the account's word for every code but those it calls stale.
LEMMA AgreementLoad ==
  ASSUME TypeOK, LastReportIsTrue, BalanceLoaded
  PROVE  (LastReportIsTrue /\ TrackerAgrees)'
<1>1. PICK cur \in [Code -> Price] : LoadBalance(cur)
  BY DEF BalanceLoaded
<1>2. holdings' = holdings /\ balances' = balances
  BY <1>1 DEF LoadBalance, brokerVars
<1>3. ASSUME NEW c \in Code \ stale' PROVE Agrees(c)'
  <2>1. RowOf(c) = holdings[c]
    BY <1>1, <1>3, LoadKeeps
  <2>2. PICK b \in Balance : positions'[c] = Loaded(b) /\ b.qty = RowOf(c).qty
                            /\ b.avg = RowOf(c).avg
    BY <1>1, LoadKeeps
  <2> QED
    BY <1>2, <2>1, <2>2, LoadedType DEF Agrees, Held
<1> QED
  BY <1>2, <1>3 DEF LastReportIsTrue, TrackerAgrees, Agrees

LEMMA AgreementNext ==
  TypeOK /\ LastReportIsTrue /\ TrackerAgrees /\ [Next]_vars => (LastReportIsTrue /\ TrackerAgrees)'
<1> SUFFICES ASSUME TypeOK, LastReportIsTrue, TrackerAgrees, [Next]_vars
             PROVE  (LastReportIsTrue /\ TrackerAgrees)'
  OBVIOUS
<1>1. CASE UNCHANGED <<positions, holdings, balances, stale>>
  BY <1>1, AgreementQuiet
<1>2. ASSUME NEW c \in Code, PriceTick(c)
      PROVE  (LastReportIsTrue /\ TrackerAgrees)'
  <2>1. PICK p \in Price : OnPriceUpdate(c, p) /\ UNCHANGED <<holdings, balances, stale>>
    BY <1>2 DEF PriceTick, Tick, queryVars
  <2>2. TrackerTypeOK
    BY DEF TypeOK, RiskTypeOK
  <2>3. \A d \in Code :
           \/ positions'[d] = positions[d]
           \/ /\ positions[d] # NoPosition /\ positions'[d] # NoPosition
              /\ positions'[d].qty = positions[d].qty /\ positions'[d].avg = positions[d].avg
    BY <2>1, <2>2, TickKeeps, NoPositionAssumption
  <2> QED
    BY <2>1, <2>3, AgreementQuiet
<1>3. ASSUME NEW o \in Order, Settle(o)
      PROVE  (LastReportIsTrue /\ TrackerAgrees)'
  <2>1. CASE Refuse(o)
    BY <1>1, <1>3, <2>1 DEF Settle, Refuse, queryVars
  <2> QED
    BY <1>3, <2>1, AgreementExecute DEF Settle, queryVars
<1>4. ASSUME QueryBalance \/ \E codes \in SUBSET Code \ {{}} : ReadPage(codes)
      PROVE  UNCHANGED <<positions, holdings, balances, stale>>
  BY <1>4 DEF QueryBalance, ReadPage, riskVars, brokerVars
<1> QED
  BY <1>1, <1>2, <1>3, <1>4, AgreementReport, AgreementLoad
  DEF Next, vars, queryVars, ExecuteSignal, ManualOrder, Send, ClockTicks

\* In every code no report is under way for, what the tracker holds is what
\* the account holds, however executions were split, ticks fell between and
\* balances were loaded, unless the row it was loaded from was out of date.
THEOREM TrackerFollowsAccount == Spec => []TrackerAgrees
BY InitType, NextType, AgreementInit, AgreementNext, PTL DEF Spec

-----------------------------------------------------------------------------
(* The limit of positions *)

Owned == {c \in Code : holdings[c].qty > 0}

\* What the account holds, and what the buys at the exchange may add.
Committed == Owned \cup {o.code : o \in Working("BUY")}

\* As long as no buy overlapped another and none was entered by hand,
\* the positions and the buys at the exchange together keep to the limit.
CommittedFits == ~overlap /\ manual = 0 => Cardinality(Committed) <= MaxPositions

\* Subsets of the codes are finite, and no larger than what contains them.
LEMMA CodeSets ==
  ASSUME NEW S \in SUBSET Code
  PROVE  /\ IsFiniteSet(S) /\ Cardinality(S) \in Nat
         /\ \A T \in SUBSET S : Cardinality(T) <= Cardinality(S)
         /\ \A c \in Code : Cardinality(S \cup {c}) <= Cardinality(S) + 1
BY CodeAssumption, FS_Subset, FS_CardinalityType, FS_AddElement

LEMMA CommittedType == Committed \in SUBSET Code /\ Owned \in SUBSET Code
BY DEF Committed, Owned, Working, Order

LEMMA CommittedInit == Init => CommittedFits
<1> SUFFICES ASSUME Init PROVE Cardinality(Committed) <= MaxPositions
  BY DEF CommittedFits
<1>1. Committed = {}
  BY DEF Init, BrokerInit, Committed, Owned, Working
<1> QED
  BY <1>1, FS_EmptySet, PercentAssumption

\* Sells, executions and refusals commit to nothing new.
LEMMA CommittedShrinks ==
  ASSUME TypeOK, CommittedFits, Committed' \subseteq Committed,
         overlap' = overlap, manual' = 0 => manual = 0
  PROVE  CommittedFits'
<1>1. Cardinality(Committed') <= Cardinality(Committed) /\ Cardinality(Committed') \in Nat
      /\ Cardinality(Committed) \in Nat
  BY CodeSets, CommittedType
<1> QED
  BY <1>1, PercentAssumption DEF CommittedFits

\* A signal's buy that overlaps none commits to one position more, which the
\* tracker, being up to date, has counted.
LEMMA CommittedBuy ==
  ASSUME TypeOK, TrackerAgrees, CommittedFits, NEW c \in Code, NEW p \in Price,
         ExecuteSignal(c, "BUY", p), ~overlap', manual' = 0
  PROVE  Cardinality(Committed') <= MaxPositions
<1>1. ~overlap /\ manual = 0 /\ Working("BUY") = {} /\ balances = <<>> /\ stale = {}
  BY DEF ExecuteSignal, UnseenBuys, TypeOK
<1>2. Held = Owned
  <2>1. \A d \in Code : Agrees(d)
    BY <1>1 DEF TrackerAgrees, Agrees
  <2>2. \A d \in Code : holdings[d].qty \in Nat
    BY DEF TypeOK, BrokerTypeOK, Holding
  <2> QED
    BY <2>1, <2>2 DEF Agrees, Held, Owned
<1>3. Committed' = Owned \cup {c}
  <2>1. Owned' = Owned
    BY DEF ExecuteSignal, Send, Owned
  <2>2. MarketOrder(c, "BUY", 1) \in Order
    BY PriceType DEF MarketOrder, Order, Side
  <2>3. Working("BUY")' = {MarketOrder(c, "BUY", 1)}
    <3>1. working' = [o \in Order |-> IF o = MarketOrder(c, "BUY", 1) THEN working[o] + 1 ELSE working[o]]
      BY DEF ExecuteSignal, Send, Place
    <3>2. \A o \in Order : o.side = "BUY" => ~(working[o] > 0)
      BY <1>1 DEF Working
    <3>3. working[MarketOrder(c, "BUY", 1)] \in Nat
      BY <2>2 DEF TypeOK, BrokerTypeOK
    <3> QED
      BY <2>2, <3>1, <3>2, <3>3 DEF Working, MarketOrder
  <2>4. MarketOrder(c, "BUY", 1).code = c
    BY DEF MarketOrder
  <2>5. {o.code : o \in Working("BUY")'} = {c}
    BY <2>3, <2>4
  <2> QED
    BY <2>1, <2>5 DEF Committed
<1>4. Owned = Committed
  BY <1>1 DEF Committed
<1>5. Cardinality(Owned) <= MaxPositions /\ Owned \in SUBSET Code
  BY <1>1, <1>4, CommittedType DEF CommittedFits
<1>6. c \in Owned \/ Cardinality(Owned) < MaxPositions
  BY <1>2 DEF ExecuteSignal, ValidateOrder, CheckMaxPositions
<1>7. CASE c \in Owned
  <2>1. Owned \cup {c} = Owned
    BY <1>7
  <2> QED
    BY <1>3, <1>5, <2>1
<1>8. CASE Cardinality(Owned) < MaxPositions
  BY <1>3, <1>5, <1>8, CodeSets, PercentAssumption
<1> QED
  BY <1>6, <1>7, <1>8

\* Sells add no buy.
LEMMA PlaceSells ==
  ASSUME TypeOK, NEW orders, \A o \in orders : o.side # "BUY", Place(orders),
         holdings' = holdings
  PROVE  Working("BUY")' \subseteq Working("BUY") /\ Committed' \subseteq Committed
<1>1. \A o \in Order : o.side = "BUY" => working'[o] = working[o]
  BY DEF Place
<1>2. Working("BUY")' \subseteq Working("BUY")
  BY <1>1 DEF Working
<1> QED
  BY <1>2 DEF Committed, Owned

\* An execution moves what it buys from the buys at the exchange to the
\* holdings; the rest of the order is of the same code.
LEMMA ExecuteBuys ==
  ASSUME TypeOK, NEW o \in Order, NEW q \in 1 .. o.qty, Execute(o, q)
  PROVE  /\ \A r \in Working("BUY")' : \E b \in Working("BUY") : b.code = r.code
         /\ o.side = "SELL" => \A c \in Code : holdings'[c].qty <= holdings[c].qty
         /\ Committed' \subseteq Committed
<1>1. /\ o.code \in Code /\ o.side \in Side /\ o.qty \in Nat /\ q \in Nat /\ q > 0
      /\ working \in [Order -> 0 .. MaxWorking] /\ working[o] > 0
  BY DEF Order, TypeOK, BrokerTypeOK, Execute
<1>2. \A r \in Working("BUY")' : \E b \in Working("BUY") : b.code = r.code
  <2> SUFFICES ASSUME NEW r \in Order, r.side = "BUY", working'[r] > 0
               PROVE  \E b \in Working("BUY") : b.code = r.code
    BY DEF Working
  <2>1. CASE r # o /\ r = Rest(o, q)
    <3>1. r.code = o.code /\ o.side = "BUY"
      BY <2>1 DEF Rest
    <3> QED
      BY <1>1, <3>1 DEF Working
  <2>2. CASE r # o /\ r # Rest(o, q)
    <3>1. working'[r] = working[r]
      BY <2>2 DEF Execute
    <3> QED
      BY <3>1 DEF Working
  <2>3. CASE r = o
    BY <1>1, <2>3 DEF Working
  <2> QED
    BY <2>1, <2>2, <2>3
<1>3. /\ holdings' = [holdings EXCEPT ![o.code] = Executed(o, q)]
      /\ holdings \in [Code -> Holding] /\ Executed(o, q) \in Holding
  BY ExecutedType DEF TypeOK, BrokerTypeOK
<1>4. \A c \in Code : holdings[c].qty \in Nat
  BY <1>3 DEF Holding
<1>5. o.side = "SELL" => \A c \in Code : holdings'[c].qty <= holdings[c].qty
  <2> SUFFICES ASSUME o.side = "SELL", NEW c \in Code PROVE holdings'[c].qty <= holdings[c].qty
    OBVIOUS
  <2>1. Executed(o, q).qty = holdings[o.code].qty - q
    BY DEF Executed
  <2> QED
    BY <1>1, <1>3, <1>4, <2>1
<1>6. Owned' \subseteq Committed
  <2> SUFFICES ASSUME NEW c \in Code, holdings'[c].qty > 0 PROVE c \in Committed
    BY DEF Owned
  <2>1. CASE o.side = "SELL"
    <3>1. holdings'[c].qty <= holdings[c].qty /\ holdings'[c].qty \in Nat
      BY <1>3, <1>5, <2>1 DEF Holding
    <3> QED
      BY <1>4, <3>1 DEF Committed, Owned
  <2>2. CASE o.side = "BUY" /\ c = o.code
    BY <1>1, <2>2 DEF Committed, Working
  <2>3. CASE c # o.code
    <3>1. holdings'[c] = holdings[c]
      BY <1>3, <2>3
    <3> QED
      BY <3>1 DEF Committed, Owned
  <2> QED
    BY <1>1, <2>1, <2>2, <2>3 DEF Side
<1>7. {r.code : r \in Working("BUY")'} \subseteq Committed
  BY <1>2 DEF Committed
<1> QED
  BY <1>2, <1>5, <1>6, <1>7 DEF Committed

\* A refusal leaves the holdings and adds no order.
LEMMA RefuseBuys ==
  ASSUME TypeOK, NEW o \in Order, Refuse(o)
  PROVE  /\ Working("BUY")' \subseteq Working("BUY") /\ holdings' = holdings
         /\ Committed' \subseteq Committed
<1>1. working' = [working EXCEPT ![o] = @ - 1] /\ holdings' = holdings /\ working[o] > 0
  BY DEF Refuse
<1>2. working \in [Order -> Nat]
  BY BrokerAssumption DEF TypeOK, BrokerTypeOK
<1>3. \A r \in Order : working'[r] > 0 => working[r] > 0
  BY <1>1, <1>2
<1>4. Working("BUY")' \subseteq Working("BUY")
  BY <1>3 DEF Working
<1> QED
  BY <1>1, <1>4 DEF Committed, Owned

\* The orders a tick submits are sells.
LEMMA ExitsSell ==
  ASSUME NEW codes PROVE \A o \in ExitOrders(codes) : o.side # "BUY"
BY DEF ExitOrders

LEMMA CommittedNext ==
  TypeOK /\ TrackerAgrees /\ CommittedFits /\ [Next]_vars => CommittedFits'
<1> SUFFICES ASSUME TypeOK, TrackerAgrees, CommittedFits, [Next]_vars PROVE CommittedFits'
  OBVIOUS
<1>1. ASSUME NEW c \in Code, NEW side \in Side, NEW p \in Price, ExecuteSignal(c, side, p)
      PROVE  CommittedFits'
  <2>1. CASE side = "BUY"
    BY <1>1, <2>1, CommittedBuy DEF CommittedFits
  <2>2. CASE side = "SELL"
    <3>1. MarketOrder(c, side, 1).side # "BUY"
      BY <2>2 DEF MarketOrder
    <3>2. Committed' \subseteq Committed /\ overlap' = overlap /\ manual' = manual
      BY <1>1, <2>2, <3>1, PlaceSells DEF ExecuteSignal, Send, TypeOK
    <3> QED
      BY <3>2, CommittedShrinks
  <2> QED
    BY <2>1, <2>2 DEF Side
<1>2. ASSUME NEW o \in Order, ManualOrder(o.code, o.side, o.qty)
      PROVE  CommittedFits'
  BY <1>2 DEF ManualOrder, CommittedFits, TypeOK
<1>3. ASSUME NEW c \in Code, PriceTick(c)
      PROVE  CommittedFits'
  <2>1. Committed' \subseteq Committed /\ overlap' = overlap /\ manual' = manual
    BY <1>3, ExitsSell, PlaceSells DEF PriceTick, Tick
  <2> QED
    BY <2>1, CommittedShrinks
<1>4. ASSUME NEW o \in Order, Settle(o)
      PROVE  CommittedFits'
  <2>1. Committed' \subseteq Committed /\ overlap' = overlap /\ manual' = manual
    BY <1>4, ExecuteBuys, RefuseBuys DEF Settle
  <2> QED
    BY <2>1, CommittedShrinks
<1>5. CASE UNCHANGED <<holdings, working, manual, overlap>>
  <2>1. Committed' = Committed
    BY <1>5 DEF Committed, Owned, Working
  <2> QED
    BY <1>5, <2>1, CommittedShrinks
<1> QED
  BY <1>1, <1>2, <1>3, <1>4, <1>5
  DEF Next, vars, HandleBalance, DeliverBalance, ClockTicks, QueryBalance, ReadPage,
      BalanceLoaded, LoadBalance, brokerVars

\* Strategies never take the account over the number of positions allowed,
\* unless one bought while another buy was under way.
THEOREM PositionLimit == Spec => []LimitsHold
<1>1. TypeOK /\ CommittedFits => LimitsHold
  <2> SUFFICES ASSUME TypeOK, Cardinality(Committed) <= MaxPositions
               PROVE  Cardinality(Owned) <= MaxPositions
    BY DEF CommittedFits, LimitsHold, Owned
  <2>1. Owned \in SUBSET Committed
    BY DEF Committed
  <2> QED
    BY <2>1, CommittedType, CodeSets, PercentAssumption
<1> QED
  BY <1>1, InitType, NextType, AgreementInit, AgreementNext, CommittedInit, CommittedNext, PTL
  DEF Spec

-----------------------------------------------------------------------------
(* The daily loss limit *)

\* One step of a blocked program sends no buy.
LEMMA BlockedStep ==
  ASSUME TypeOK, [Next]_vars, blocked, manual = 0
  PROVE  /\ Working("BUY") = {} => \A c \in Code : holdings'[c].qty <= holdings[c].qty
         /\ manual' = 0 => \A o \in Working("BUY")' : \E b \in Working("BUY") : b.code = o.code
<1>1. \A c \in Code : holdings[c].qty \in Nat
  BY DEF TypeOK, BrokerTypeOK, Holding
<1>2. ASSUME NEW c \in Code, NEW side \in Side, NEW p \in Price, ExecuteSignal(c, side, p)
      PROVE  Working("BUY")' \subseteq Working("BUY") /\ holdings' = holdings
  <2>1. side # "BUY"
    BY <1>2 DEF ExecuteSignal, ValidateOrder
  <2>2. MarketOrder(c, side, 1).side # "BUY"
    BY <2>1 DEF MarketOrder
  <2> QED
    BY <1>2, <2>2, PlaceSells DEF ExecuteSignal, Send
<1>3. ASSUME NEW c \in Code, PriceTick(c)
      PROVE  Working("BUY")' \subseteq Working("BUY") /\ holdings' = holdings
  BY <1>3, ExitsSell, PlaceSells DEF PriceTick, Tick
<1>4. ASSUME NEW o \in Order, NEW q \in 1 .. o.qty, Execute(o, q), Working("BUY") = {}
      PROVE  o.side = "SELL"
  BY <1>4 DEF Execute, Working, Order, Side
<1>5. ASSUME NEW o \in Order, ManualOrder(o.code, o.side, o.qty)
      PROVE  manual' # 0 /\ holdings' = holdings
  BY <1>5 DEF ManualOrder, Send
<1>6. CASE UNCHANGED <<holdings, working>>
  <2>1. Working("BUY")' = Working("BUY")
    BY <1>6 DEF Working
  <2> QED
    BY <1>1, <1>6, <2>1
<1>7. ASSUME NEW o \in Order, Settle(o)
      PROVE  /\ Working("BUY") = {} => \A c \in Code : holdings'[c].qty <= holdings[c].qty
             /\ \A r \in Working("BUY")' : \E b \in Working("BUY") : b.code = r.code
  BY <1>1, <1>4, <1>7, ExecuteBuys, RefuseBuys DEF Settle
<1>8. \/ UNCHANGED <<holdings, working>>
      \/ \E c \in Code, side \in Side, p \in Price : ExecuteSignal(c, side, p)
      \/ \E o \in Order : ManualOrder(o.code, o.side, o.qty)
      \/ \E c \in Code : PriceTick(c)
      \/ \E o \in Order : Settle(o)
  BY DEF Next, vars, HandleBalance, DeliverBalance, ClockTicks, QueryBalance, ReadPage,
     BalanceLoaded, LoadBalance, brokerVars
<1>9. CASE Working("BUY")' \subseteq Working("BUY") /\ holdings' = holdings
  BY <1>1, <1>9
<1>10. CASE manual' # 0 /\ holdings' = holdings
  BY <1>1, <1>10
<1> QED
  BY <1>2, <1>3, <1>5, <1>6, <1>7, <1>8, <1>9, <1>10

\* Once the daily loss limit has been hit what is held only shrinks, but for
\* buys sent before and buys by hand.
THEOREM BlockHolds == Spec => BlockedOnlyShrinks
<1>1. TypeOK /\ [Next]_vars =>
        [blocked /\ manual = 0 =>
           /\ Working("BUY") = {} => \A c \in Code : holdings'[c].qty <= holdings[c].qty
           /\ manual' = 0 => \A o \in Working("BUY")' : \E b \in Working("BUY") : b.code = o.code]_vars
  BY BlockedStep
<1> QED
  BY <1>1, InitType, NextType, PTL DEF Spec, BlockedOnlyShrinks
=============================================================================
