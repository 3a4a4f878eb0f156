-------------------------- MODULE SimulationProofs --------------------------
(***************************************************************************)
(* What Simulation guarantees for any codes, candles, costs, limits and    *)
(* length of a run: its types, that the money adds up, that neither stops  *)
(* nor strategies forget a position, that the window shows everything, and *)
(* that the metrics are what they are called.                              *)
(***************************************************************************)
EXTENDS Simulation, FoldTheorems

\* A completed candle, of any code, time and prices.
Candles ==
  [code : Code, time : Nat, open : Nat, high : Nat, low : Nat, close : Nat, volume : Nat]

-----------------------------------------------------------------------------
(* The account *)

\* A position and a trade of the account.
Positions == [qty : Nat, avg : Nat, highest : Nat]
Trades    == [side : {"BUY", "SELL"}, code : Code, time : Nat, pnl : Int]
Ledgers   == UNION {[days -> Int] : days \in SUBSET Int}
Accounts  == [capital : Int, positions : [Code -> Positions], pnl : Ledgers,
              trades : Seq(Trades), curve : Seq(Int)]

\* What the open positions cost, with their costs.
Paid(a) == [c \in Code |-> CalcBuyCost(a.positions[c].avg, a.positions[c].qty)]

\* With weights of a half at most no buy is cut down to the cash there is, and
\* rounding does not overspend it.
Cautious == MaxSymbolWeight <= 50

\* How many sales there are from the i-th to the j-th trade, and whether all of
\* them are without profit.
Sold(trades, i, j) == Cardinality(SalesIn(trades, i, j))
AtLoss(trades, i, j) == Losing(trades, SalesIn(trades, i, j))

\* No sale comes before its buy.
Balanced(trades) == \A k \in DOMAIN trades : 2 * Sold(trades, 1, k) <= k

\* Of the trades every sale has a buy before it, the buys without one are those
\* of what is held, and buys make no profit.
Matched(trades, held) ==
  /\ Balanced(trades)
  /\ \A k \in DOMAIN trades : trades[k].side = "BUY" => trades[k].pnl = 0
  /\ Len(trades) = held + 2 * Cardinality(Sells(trades))

\* What every operation of an account keeps: its types, the highest price above
\* the average, the number of positions, the money, its trades one by one, and
\* if cautious cash and equity that are not negative.
WellKept(a) ==
  /\ a \in Accounts
  /\ \A c \in Code : a.positions[c].highest >= a.positions[c].avg
  /\ Cardinality(Holdings(a)) <= MaxPositions
  /\ a.capital + SumFunctionOnSet(Paid(a), Code) = InitialCapital + ProfitOf(a.trades)
  /\ Matched(a.trades, Cardinality(Holdings(a)))
  /\ Cautious => a.capital >= 0 /\ a.curve \in Seq(Nat)

\* A candle, or a sale at its price: what an account trades with there.
Priced(k) == k.code \in Code /\ k.close \in Nat
WorthOf(a, k) == a.capital + k.close * a.positions[k.code].qty

\* What n trades leave of a worth, each losing its costs at most.
Costs(worth, left, n) ==
  left <= worth /\ 100000 * (worth - left) <= n * (TradeRate * worth)

\* From a to b no more is lost than the costs of the trades that a had not.
Charged(a, b, k) ==
  Costs(WorthOf(a, k), WorthOf(b, k), Len(b.trades) - Len(a.trades))

\* b is kept as well as a, of which it changes the one code, and may add trades
\* at the price; what it holds of the code has the average of a, or that price.
Stepped(a, b, k) ==
  /\ WellKept(b) /\ Priced(k)
  /\ Len(a.trades) <= Len(b.trades)
  /\ \A c \in Code \ {k.code} : b.positions[c] = a.positions[c]
  /\ Cautious => Charged(a, b, k)
  /\ k.code \in Holdings(b) =>
       \/ b.positions[k.code].avg = k.close
       \/ k.code \in Holdings(a) /\ b.positions[k.code].avg = a.positions[k.code].avg

-----------------------------------------------------------------------------
(* The day strategies *)

\* A strategy that is inside has entered: its range is known, or shares were
\* traded, and it does not enter again.
StateSet(name) ==
  CASE name = "ORB" ->
         {st \in [high : Nat, low : Nat, traded : BOOLEAN, inside : BOOLEAN] :
            st.inside = TRUE => st.traded = TRUE /\ st.high > 0}
    [] name = "VWAP_BOUNCE" ->
         {st \in [pv : Nat, vol : Nat, below : BOOLEAN, count : Nat, inside : BOOLEAN,
                  entry : Nat] :
            st.inside = TRUE => st.vol > 0}
    [] name = "PREV_DAY_BRK" ->
         {st \in [vols : Seq(Nat), traded : BOOLEAN, inside : BOOLEAN] :
            st.inside = TRUE => st.traded = TRUE}
    [] name = "GAP_TRADE" ->
         [gap : {"unknown", "down", "up", "none"}, traded : BOOLEAN, inside : BOOLEAN]
    [] name = "ORDER_FLOW" ->
         [buy : Seq(Nat), sell : Seq(Nat), count : Nat, inside : BOOLEAN, entry : Nat]

\* Every day strategy has a sound state for every code.
StatesOK ==
  /\ states = [n \in DayStrategy |-> states[n]]
  /\ \A n \in DayStrategy : states[n] \in [Code -> StateSet(n)]

-----------------------------------------------------------------------------
(* The inductive invariant *)

\* The state of the worker thread.
RunTypeOK ==
  /\ kind \in Replay \cup {"backtest"}
  /\ WellKept(account) /\ StatesOK
  /\ next \in 0 .. Len(TimesOf(kind))
  /\ candle \in Candles \cup {NoCandle}
  /\ worker \in {"idle", "waiting", "handling", "closing"}
  /\ worker = "handling" => candle \in Candles
  /\ event \in {"none", "finished", "error"}
  /\ published \in 0 .. Len(account.trades)
  /\ kind = "backtest" => published = 0

\* The state of the window, which is never ahead of the thread.
WindowTypeOK ==
  /\ shown \in [candles : Nat, trades : Nat]
  /\ shown.candles <= next /\ shown.trades <= published
  /\ slot \in {"start", "stop"}
  /\ polling \in BOOLEAN /\ enabled \in BOOLEAN /\ checked \in BOOLEAN
  /\ mode \in {"paper", "live"}

\* Whatever is held, a strategy believes it holds it; and of the last candle's
\* code nothing is held after two o'clock.
Believed ==
  kind \in DayKind =>
    \A c \in Holdings(account) :
      /\ \E n \in Traders(kind) : states[n][c].inside = TRUE
      /\ worker \in {"waiting", "closing"} /\ c = candle.code => candle.time < Two

\* The last candle has closed at one of the prices, at which whatever is held
\* was bought; before the first nothing is held.
Seen ==
  /\ worker = "handling" => next > 0
  /\ next > 0 => candle.close \in Closes
  /\ next = 0 => Holdings(account) = {}
  /\ \A c \in Holdings(account) : account.positions[c].avg \in Closes

\* A replay is polled as long as it runs, and an end not yet handled is that of
\* the last run, which is over, with everything sold if it did not fail.
Polled ==
  /\ outcome \in {"none", "finished", "error"}
  /\ worker # "idle" => outcome = "none"
  /\ event # "none" => worker = "idle" /\ outcome = event
  /\ event = "finished" => Holdings(account) = {}
  /\ worker # "idle" /\ kind # "backtest" => polling = TRUE

\* A stop of zero percent would sell a position at the price it was bought.
Positive == StopLoss > 0 /\ TakeProfit > 0

\* All of it; the stops hold under their assumption.
Inv ==
  /\ RunTypeOK /\ WindowTypeOK
  /\ Believed /\ Seen
  /\ Polled /\ CandlesShown
  /\ Positive => NothingHeldPastItsStop

-----------------------------------------------------------------------------
(* Costs *)

\* The assumptions on the constants, one by one.
LEMMA ConstantTypes ==
  /\ IsFiniteSet(Code)
  /\ BuyCommission \in Nat /\ SellCommission \in Nat /\ Tax \in Nat /\ Slippage \in Nat
  /\ Slippage <= 10000 /\ SellCommission + Tax <= 100000
  /\ InitialCapital \in Nat /\ MaxPositions \in Nat /\ StopLoss \in Nat /\ TakeProfit \in Nat
  /\ TrailingStop \in Nat /\ DailyLossLimit \in Nat /\ MaxSymbolWeight \in 0 .. 100
BY CostAssumption, EngineAssumption

\* The two sides of a whole division.
LEMMA Division ==
  ASSUME NEW a \in Nat, NEW d \in Nat \ {0}
  PROVE  a \div d \in Nat /\ d * (a \div d) <= a /\ a < d * (a \div d) + d
OBVIOUS

\* Products of natural numbers are natural and monotone.
LEMMA Product ==
  ASSUME NEW x \in Nat, NEW y \in Nat
  PROVE  /\ x * y \in Nat
         /\ \A z \in Nat : y <= z => x * y <= x * z
OBVIOUS

\* A quotient is at most what the multiple of the divisor allows.
LEMMA QuotientBound ==
  ASSUME NEW a \in Nat, NEW d \in Nat \ {0}, NEW q \in Nat, a <= d * q
  PROVE  a \div d <= q
<1> DEFINE m == a \div d
<1>1. m \in Nat /\ d * m <= a
  BY Division
<1>2. CASE m <= q
  BY <1>2
<1>3. CASE m > q
  <2> HIDE DEF m
  <2>1. q + 1 \in Nat /\ q + 1 <= m
    BY <1>1, <1>3
  <2>2. d * (q + 1) <= d * m
    BY <1>1, <2>1, Product
  <2>3. d * (q + 1) = d * q + d /\ d * q \in Nat
    OBVIOUS
  <2>4. d * m \in Nat
    BY <1>1
  <2> DEFINE x == d * q
             y == d * m
  <2>5. x + d <= y /\ y <= a /\ a <= x /\ x \in Nat /\ y \in Nat
    BY <1>1, <2>2, <2>3, <2>4
  <2> HIDE DEF x, y
  <2> QED
    BY <2>5
<1> QED
  BY <1>1, <1>2, <1>3

\* A commission or tax is a natural number.
LEMMA PartTypes ==
  ASSUME NEW amount \in Nat, NEW rate \in Nat
  PROVE  Part(amount, rate) \in Nat
BY Product, Division DEF Part

\* Slippage is at most the price.
LEMMA SlipTypes ==
  ASSUME NEW price \in Nat
  PROVE  Slip(price) \in Nat /\ Slip(price) <= price
<1> DEFINE a == price * Slippage
<1>1. a \in Nat /\ a <= price * 10000 /\ price * 10000 = 10000 * price
  BY ConstantTypes, Product
<1> HIDE DEF a
<1>2. a \div 10000 \in Nat /\ a \div 10000 <= price
  BY <1>1, Division, QuotientBound
<1> QED
  BY <1>2 DEF Slip, a

\* Neither costs nor proceeds are negative.
LEMMA CostTypes ==
  ASSUME NEW price \in Nat, NEW qty \in Nat
  PROVE  /\ CalcBuyCost(price, qty) \in Nat
         /\ CalcSellProceeds(price, qty) \in Nat
<1>1. Slip(price) \in Nat /\ Slip(price) <= price
  BY SlipTypes
<1> DEFINE b == (price + Slip(price)) * qty
           a == (price - Slip(price)) * qty
<1>2. b \in Nat /\ a \in Nat
  <2>1. price + Slip(price) \in Nat /\ price - Slip(price) \in Nat
    BY <1>1
  <2> QED
    BY <2>1, Product
<1> HIDE DEF a, b
<1>3. b + Part(b, BuyCommission) \in Nat
  BY <1>2, ConstantTypes, PartTypes
<1>4. a - Part(a, SellCommission) - Part(a, Tax) \in Nat
  <2> DEFINE x == a * SellCommission
             y == a * Tax
             p == x \div 100000
             q == y \div 100000
  <2>1. x \in Nat /\ y \in Nat
    BY <1>2, ConstantTypes, Product
  <2>2. x + y <= 100000 * a
    <3>1. SellCommission + Tax \in Nat
      BY ConstantTypes
    <3>2. a * (SellCommission + Tax) <= a * 100000
      BY <1>2, <3>1, ConstantTypes, Product
    <3>3. a * (SellCommission + Tax) = x + y
      BY <1>2, ConstantTypes
    <3> HIDE DEF x, y
    <3> QED
      BY <1>2, <3>2, <3>3
  <2> HIDE DEF x, y
  <2>3. p \in Nat /\ 100000 * p <= x /\ q \in Nat /\ 100000 * q <= y
    BY <2>1, Division
  <2>4. Part(a, SellCommission) = p /\ Part(a, Tax) = q
    BY DEF Part, x, y
  <2> HIDE DEF p, q
  <2> QED
    BY <1>2, <2>1, <2>2, <2>3, <2>4
<1> QED
  BY <1>3, <1>4 DEF CalcBuyCost, CalcSellProceeds, a, b

\* A trade costs the slippage and one of the fees.
LEMMA RateTypes ==
  /\ TradeRate \in Nat
  /\ 10 * Slippage + BuyCommission <= TradeRate
  /\ 10 * Slippage + (SellCommission + Tax) <= TradeRate
BY ConstantTypes DEF TradeRate, Top

\* What slippage takes of the price of some shares.
LEMMA SlipCosts ==
  ASSUME NEW price \in Nat, NEW qty \in Nat
  PROVE  /\ price * qty \in Nat /\ Slip(price) * qty \in Nat
         /\ Slip(price) * qty <= price * qty
         /\ 100000 * (Slip(price) * qty) <= (10 * Slippage) * (price * qty)
<1> DEFINE s == Slip(price)
           x == price * Slippage
<1>1. s \in Nat /\ s <= price
  BY SlipTypes
<1>2. x \in Nat
  BY ConstantTypes, Product
<1>3. 10000 * s <= x
  <2> HIDE DEF x
  <2>1. 10000 * (x \div 10000) <= x
    BY <1>2, Division
  <2> QED
    BY <2>1 DEF Slip, x
<1> HIDE DEF s
<1>4. price * qty \in Nat /\ s * qty \in Nat
  BY <1>1, Product
<1>5. s * qty <= price * qty
  <2>1. qty * s <= qty * price
    BY <1>1, Product
  <2>2. qty * s = s * qty /\ qty * price = price * qty
    BY <1>1
  <2> QED
    BY <2>1, <2>2
<1>6. 10000 * (s * qty) <= Slippage * (price * qty)
  <2>1. qty * (10000 * s) <= qty * x
    BY <1>1, <1>2, <1>3, Product
  <2>2. qty * (10000 * s) = 10000 * (s * qty)
    BY <1>1
  <2>3. qty * x = Slippage * (price * qty)
    BY ConstantTypes
  <2> QED
    BY <2>1, <2>2, <2>3
<1>7. 100000 * (s * qty) <= (10 * Slippage) * (price * qty)
  <2> DEFINE y == s * qty
             z == Slippage * (price * qty)
  <2>1. y \in Nat /\ z \in Nat /\ 10000 * y <= z
    BY <1>4, <1>6, ConstantTypes, Product
  <2>2. (10 * Slippage) * (price * qty) = 10 * z
    BY <1>4, ConstantTypes
  <2> HIDE DEF y, z
  <2>3. 100000 * y <= 10 * z
    BY <2>1
  <2> QED
    BY <2>2, <2>3 DEF y
<1> QED
  BY <1>4, <1>5, <1>7 DEF s

\* A fee is its rate of the amount at most.
IsPart(part, amount, rate) == part \in Nat /\ 100000 * part <= rate * amount

LEMMA PartCosts ==
  ASSUME NEW amount \in Nat, NEW rate \in Nat
  PROVE  IsPart(Part(amount, rate), amount, rate)
<1> DEFINE x == amount * rate
<1>1. x \in Nat /\ x = rate * amount
  BY Product
<1> HIDE DEF x
<1>2. x \div 100000 \in Nat /\ 100000 * (x \div 100000) <= x
  BY <1>1, Division
<1> QED
  BY <1>1, <1>2 DEF Part, IsPart, x

\* A buy that can be paid loses its costs.
LEMMA BuyCharges ==
  ASSUME NEW price \in Nat, NEW qty \in Nat, NEW worth \in Nat,
         CalcBuyCost(price, qty) <= worth
  PROVE  Costs(worth, (worth - CalcBuyCost(price, qty)) + price * qty, 1)
<1> DEFINE p == price * qty
           s == Slip(price) * qty
           amount == p + s
           fee == Part(amount, BuyCommission)
<1>1. p \in Nat /\ s \in Nat /\ 100000 * s <= (10 * Slippage) * p
  BY SlipCosts
<1>2. CalcBuyCost(price, qty) = amount + fee
  <2>1. (price + Slip(price)) * qty = amount
    BY SlipTypes
  <2> QED
    BY <2>1 DEF CalcBuyCost
<1> HIDE DEF p, s
<1>3. amount \in Nat
  BY <1>1
<1> HIDE DEF amount
<1>4. fee \in Nat /\ 100000 * fee <= BuyCommission * amount
  <2>1. IsPart(fee, amount, BuyCommission)
    BY <1>3, ConstantTypes, PartCosts
  <2> QED
    BY <2>1 DEF IsPart
<1> HIDE DEF fee
<1>5. p <= worth /\ amount <= worth
  BY <1>1, <1>2, <1>3, <1>4 DEF amount
<1>6. (10 * Slippage) * p <= (10 * Slippage) * worth /\ BuyCommission * amount <= BuyCommission * worth
  <2>1. 10 * Slippage \in Nat /\ BuyCommission \in Nat
    BY ConstantTypes
  <2> QED
    BY <1>1, <1>3, <1>5, <2>1, Product
<1>7. worth * (10 * Slippage + BuyCommission) <= worth * TradeRate
  BY ConstantTypes, RateTypes, Product
<1>8. worth * (10 * Slippage + BuyCommission) = (10 * Slippage) * worth + BuyCommission * worth
      /\ worth * TradeRate = TradeRate * worth
  BY ConstantTypes, RateTypes
<1> DEFINE u == (10 * Slippage) * p
           v == BuyCommission * amount
           x == (10 * Slippage) * worth
           y == BuyCommission * worth
           z == TradeRate * worth
<1>9. u \in Nat /\ v \in Nat /\ x \in Nat /\ y \in Nat /\ z \in Nat
  BY <1>1, <1>3, ConstantTypes, RateTypes
<1>10. 100000 * s <= u /\ u <= x /\ 100000 * fee <= v /\ v <= y /\ x + y <= z
  BY <1>1, <1>4, <1>6, <1>7, <1>8
<1> HIDE DEF u, v, x, y, z
<1>11. 100000 * (s + fee) <= z
  BY <1>1, <1>4, <1>9, <1>10
<1> DEFINE left == (worth - CalcBuyCost(price, qty)) + p
<1>12. worth - left = s + fee /\ left <= worth
  BY <1>1, <1>2, <1>3, <1>4 DEF amount
<1> HIDE DEF left
<1>13. Costs(worth, left, 1)
  BY <1>9, <1>11, <1>12 DEF Costs, z
<1> QED
  BY <1>13 DEF left, p

\* A sale loses its costs.
LEMMA SaleCharges ==
  ASSUME NEW price \in Nat, NEW qty \in Nat, NEW cash \in Nat
  PROVE  Costs(cash + price * qty, cash + CalcSellProceeds(price, qty), 1)
<1> DEFINE p == price * qty
           worth == cash + p
           s == Slip(price) * qty
           amount == p - s
           fee == Part(amount, SellCommission)
           tax == Part(amount, Tax)
<1>1. p \in Nat /\ s \in Nat /\ s <= p /\ 100000 * s <= (10 * Slippage) * p
  BY SlipCosts
<1>2. CalcSellProceeds(price, qty) = amount - fee - tax
  <2>1. (price - Slip(price)) * qty = amount
    BY SlipTypes
  <2> QED
    BY <2>1 DEF CalcSellProceeds
<1> HIDE DEF p, s
<1>3. amount \in Nat /\ amount <= worth /\ worth \in Nat /\ p <= worth
  BY <1>1
<1> HIDE DEF amount, worth
<1>4. /\ fee \in Nat /\ 100000 * fee <= SellCommission * amount
      /\ tax \in Nat /\ 100000 * tax <= Tax * amount
  <2>1. IsPart(fee, amount, SellCommission) /\ IsPart(tax, amount, Tax)
    BY <1>3, ConstantTypes, PartCosts
  <2> QED
    BY <2>1 DEF IsPart
<1> HIDE DEF fee, tax
<1> DEFINE rate == SellCommission + Tax
<1>5. rate \in Nat /\ SellCommission * amount + Tax * amount = rate * amount
  BY <1>3, ConstantTypes
<1>6. (10 * Slippage) * p <= (10 * Slippage) * worth /\ rate * amount <= rate * worth
  <2> HIDE DEF rate
  <2>1. 10 * Slippage \in Nat
    BY ConstantTypes
  <2> QED
    BY <1>1, <1>3, <1>5, <2>1, Product
<1>7. worth * (10 * Slippage + rate) <= worth * TradeRate
  BY <1>3, ConstantTypes, RateTypes, Product
<1>8. worth * (10 * Slippage + rate) = (10 * Slippage) * worth + rate * worth
      /\ worth * TradeRate = TradeRate * worth
  BY <1>3, ConstantTypes, RateTypes
<1> DEFINE u == (10 * Slippage) * p
           v == SellCommission * amount
           w == Tax * amount
           x == (10 * Slippage) * worth
           y == rate * worth
           z == TradeRate * worth
<1>9. u \in Nat /\ v \in Nat /\ w \in Nat /\ x \in Nat /\ y \in Nat /\ z \in Nat
  BY <1>1, <1>3, <1>5, ConstantTypes, RateTypes
<1>10. 100000 * s <= u /\ u <= x /\ 100000 * fee <= v /\ 100000 * tax <= w /\ v + w <= y /\ x + y <= z
  BY <1>1, <1>4, <1>5, <1>6, <1>7, <1>8
<1> HIDE DEF u, v, w, x, y, z
<1>11. 100000 * (s + fee + tax) <= z
  BY <1>1, <1>4, <1>9, <1>10
<1> DEFINE left == cash + CalcSellProceeds(price, qty)
<1>12. worth - left = s + fee + tax /\ left <= worth
  BY <1>1, <1>2, <1>3, <1>4 DEF amount, worth
<1> HIDE DEF left
<1>13. Costs(worth, left, 1)
  BY <1>9, <1>11, <1>12 DEF Costs, z
<1> QED
  BY <1>13 DEF worth, left, p

\* Charges of two stretches of trades, the second on what the first has left.
LEMMA ChargesAdd ==
  ASSUME NEW x \in Nat, NEW y \in Nat, NEW z \in Nat, NEW m \in Nat, NEW n \in Nat,
         Costs(x, y, m), Costs(y, z, n)
  PROVE  Costs(x, z, m + n)
<1> DEFINE u == TradeRate * x
           v == TradeRate * y
<1>0. /\ y <= x /\ 100000 * (x - y) <= m * u
      /\ z <= y /\ 100000 * (y - z) <= n * v
  BY DEF Costs
<1>1. u \in Nat /\ v \in Nat /\ v <= u
  BY <1>0, RateTypes, Product
<1> HIDE DEF u, v
<1>2. n * v <= n * u /\ (m + n) * u = m * u + n * u
  BY <1>1, Product
<1> DEFINE p == m * u
           q == n * u
           t == n * v
<1>3. p \in Nat /\ q \in Nat /\ t \in Nat
  BY <1>1, Product
<1>4. 100000 * (x - y) <= p /\ 100000 * (y - z) <= t /\ t <= q /\ (m + n) * u = p + q
  BY <1>0, <1>2
<1> HIDE DEF p, q, t
<1>5. z <= x /\ 100000 * (x - z) <= p + q
  BY <1>0, <1>3, <1>4
<1> QED
  BY <1>4, <1>5 DEF Costs, u

\* Nothing costs nothing.
LEMMA NoCost ==
  ASSUME NEW price \in Nat
  PROVE  CalcBuyCost(price, 0) = 0
<1>1. price + Slip(price) \in Nat
  BY SlipTypes
<1>2. (price + Slip(price)) * 0 = 0
  BY <1>1
<1>3. Part(0, BuyCommission) = 0
  BY ConstantTypes DEF Part
<1> QED
  BY <1>2, <1>3 DEF CalcBuyCost

\* The quantity of a buy is a whole number, though maybe a negative one.
LEMMA QuantityTypes ==
  ASSUME NEW capital \in Int, NEW price \in Nat \ {0}
  PROVE  Quantity(capital, price) \in Int
<1> DEFINE one == CalcBuyCost(price, 1)
<1>1. one \in Nat \ {0}
  <2>1. Slip(price) \in Nat
    BY SlipTypes
  <2>2. (price + Slip(price)) * 1 = price + Slip(price) /\ price + Slip(price) \in Nat
    BY <2>1
  <2>3. Part(price + Slip(price), BuyCommission) \in Nat
    <3> DEFINE amount == price + Slip(price)
    <3>1. amount \in Nat
      BY <2>2
    <3> HIDE DEF amount
    <3>2. BuyCommission \in Nat
      BY ConstantTypes
    <3>3. Part(amount, BuyCommission) \in Nat
      BY <3>1, <3>2, PartTypes
    <3> QED
      BY <3>3 DEF amount
  <2> QED
    BY <2>1, <2>2, <2>3 DEF CalcBuyCost
<1> HIDE DEF one
<1>2. capital \div one \in Int
  BY <1>1
<1>3. capital * MaxSymbolWeight \in Int /\ 100 * one \in Nat \ {0}
  BY <1>1, ConstantTypes
<1>4. (capital * MaxSymbolWeight) \div (100 * one) \in Int
  BY <1>3
<1> QED
  BY <1>2, <1>4 DEF Quantity, one

\* A cautious buy can be paid: with a weight of a half at most, rounding the
\* commission of all shares instead of one leaves enough.
LEMMA CautiousBuyIsPaid ==
  ASSUME Cautious, NEW capital \in Nat, NEW price \in Nat \ {0}
  PROVE  /\ Quantity(capital, price) \in Nat
         /\ CalcBuyCost(price, Quantity(capital, price)) <= capital
<1> DEFINE A == price + Slip(price)
           x == A * BuyCommission
           p == x \div 100000
           one == A + p
           W == capital * MaxSymbolWeight
           w == W \div (100 * one)
<1>1. A \in Nat \ {0}
  BY SlipTypes
<1>2. x \in Nat
  BY <1>1, ConstantTypes, Product
<1>3. p \in Nat /\ x < 100000 * p + 100000
  <2> HIDE DEF x
  <2> QED
    BY <1>2, Division
<1>4. one \in Nat \ {0} /\ one >= 1
  <2> HIDE DEF A, p
  <2> QED
    BY <1>1, <1>3
<1>5. CalcBuyCost(price, 1) = one
  <2>1. A * 1 = A
    BY <1>1
  <2> QED
    BY <2>1 DEF CalcBuyCost, Part
<1>6. W \in Nat /\ W <= 50 * capital
  BY ConstantTypes, Product DEF Cautious
<1>7. w \in Nat /\ (100 * one) * w <= W
  <2> HIDE DEF W, one
  <2>1. 100 * one \in Nat \ {0}
    BY <1>4
  <2> QED
    BY <1>6, <2>1, Division
<1> HIDE DEF w, W
<1> DEFINE paid == one * w
<1>8. paid \in Nat /\ w <= paid /\ 2 * paid <= capital
  <2> HIDE DEF one
  <2>1. paid \in Nat /\ (100 * one) * w = 100 * paid
    BY <1>4, <1>7, Product
  <2>2. w * 1 <= w * one /\ w * one = paid /\ w * 1 = w
    BY <1>4, <1>7, Product
  <2> HIDE DEF paid
  <2> QED
    BY <1>6, <1>7, <2>1, <2>2
<1>9. CalcBuyCost(price, w) <= paid + w
  <2> DEFINE y == (A * w) * BuyCommission
             r == p * w
             a == A * w
  <2>1. a \in Nat /\ r \in Nat /\ paid = a + r
    <3> HIDE DEF A, p
    <3> QED
      BY <1>1, <1>3, <1>7, Product
  <2>2. y \in Nat /\ y = w * x
    <3> HIDE DEF A
    <3> QED
      BY <1>1, <1>7, ConstantTypes, Product
  <2>3. w * x <= w * (100000 * p + 100000)
    <3>1. 100000 * p + 100000 \in Nat /\ x <= 100000 * p + 100000
      BY <1>2, <1>3
    <3> HIDE DEF x, p
    <3> QED
      BY <1>2, <1>7, <3>1, Product
  <2>4. w * (100000 * p + 100000) = 100000 * (r + w)
    <3> HIDE DEF p
    <3> QED
      BY <1>3, <1>7
  <2>5. y \div 100000 <= r + w
    <3>1. y <= 100000 * (r + w) /\ r + w \in Nat
      BY <1>7, <2>1, <2>2, <2>3, <2>4
    <3> HIDE DEF y, r
    <3> QED
      BY <2>2, <3>1, QuotientBound
  <2>6. CalcBuyCost(price, w) = a + y \div 100000
    BY DEF CalcBuyCost, Part
  <2>7. y \div 100000 \in Nat
    <3> HIDE DEF y
    <3> QED
      BY <2>2, Division
  <2> DEFINE z == y \div 100000
  <2> HIDE DEF a, r, z, paid, y
  <2>8. a + z <= a + r + w /\ paid = a + r /\ CalcBuyCost(price, w) = a + z
    BY <1>7, <2>1, <2>5, <2>6, <2>7 DEF z
  <2> QED
    BY <2>8
<1>10. CalcBuyCost(price, w) <= capital /\ CalcBuyCost(price, w) \in Nat
  <2>1. CalcBuyCost(price, w) \in Nat
    BY <1>7, CostTypes
  <2> DEFINE m == CalcBuyCost(price, w)
  <2> HIDE DEF m, paid
  <2>2. m <= paid + w /\ m \in Nat
    BY <1>9, <2>1 DEF m
  <2>3. m <= capital
    BY <1>7, <1>8, <2>2
  <2> QED
    BY <2>3, <2>1 DEF m
<1>11. Quantity(capital, price) = w
  <2> HIDE DEF one
  <2>1. (capital * MaxSymbolWeight) \div (100 * CalcBuyCost(price, 1)) = w
    BY <1>5 DEF w, W
  <2>2. ~(CalcBuyCost(price, w) > capital)
    <3> DEFINE m == CalcBuyCost(price, w)
    <3>1. m \in Nat /\ m <= capital
      BY <1>10
    <3> HIDE DEF m
    <3>2. ~(m > capital)
      BY <3>1
    <3> QED
      BY <3>2 DEF m
  <2> QED
    BY <2>1, <2>2 DEF Quantity
<1> QED
  BY <1>7, <1>10, <1>11

-----------------------------------------------------------------------------
(* The sales among the trades *)

\* The sales are finitely many of the trades.
LEMMA SalesTypes ==
  ASSUME NEW trades \in Seq(Trades), NEW i \in Nat, NEW j \in Nat
  PROVE  /\ SalesIn(trades, i, j) \subseteq Sells(trades) /\ IsFiniteSet(SalesIn(trades, i, j))
         /\ Sold(trades, i, j) \in Nat
         /\ j < i => Sold(trades, i, j) = 0 /\ AtLoss(trades, i, j)
<1> DEFINE s == SalesIn(trades, i, j)
<1>1. s \subseteq Sells(trades) /\ Sells(trades) \subseteq 1 .. Len(trades)
  BY DEF SalesIn, Sells
<1>2. IsFiniteSet(s)
  <2> DEFINE S == 1 .. Len(trades)
  <2>1. IsFiniteSet(S)
    BY FS_Interval
  <2>2. s \subseteq S
    BY <1>1
  <2> HIDE DEF S, s
  <2> QED
    BY <2>1, <2>2, FS_Subset
<1>3. j < i => s = {}
  BY <1>1 DEF SalesIn
<1> HIDE DEF s
<1>4. Cardinality(s) \in Nat /\ (j < i => Cardinality(s) = 0)
  BY <1>2, <1>3, FS_CardinalityType, FS_EmptySet
<1>5. j < i => Losing(trades, s)
  BY <1>3 DEF Losing
<1> QED
  BY <1>1, <1>2, <1>4, <1>5 DEF s, Sold, AtLoss

\* All sales are those from the first trade to the last.
LEMMA AllSales ==
  ASSUME NEW trades \in Seq(Trades)
  PROVE  SalesIn(trades, 1, Len(trades)) = Sells(trades)
BY DEF SalesIn, Sells

\* The next trade is one sale more, if it is one, and does not come before.
LEMMA SalesNext ==
  ASSUME NEW trades \in Seq(Trades), NEW k \in Nat, k + 1 <= Len(trades), NEW i \in Nat
  PROVE  IF trades[k + 1].side = "SELL" /\ i <= k + 1
         THEN /\ Sold(trades, i, k + 1) = Sold(trades, i, k) + 1
              /\ AtLoss(trades, i, k + 1) <=> AtLoss(trades, i, k) /\ trades[k + 1].pnl <= 0
         ELSE /\ Sold(trades, i, k + 1) = Sold(trades, i, k)
              /\ AtLoss(trades, i, k + 1) <=> AtLoss(trades, i, k)
<1> DEFINE e == k + 1
           s == SalesIn(trades, i, k)
           r == SalesIn(trades, i, k + 1)
<1>1. e \in DOMAIN trades /\ e \notin s /\ IsFiniteSet(s)
  BY SalesTypes DEF SalesIn
<1>2. CASE trades[k + 1].side = "SELL" /\ i <= k + 1
  <2>1. r = s \cup {e}
    BY <1>1, <1>2 DEF SalesIn, Sells
  <2> HIDE DEF e, s, r
  <2>2. Cardinality(r) = Cardinality(s) + 1
    BY <1>1, <2>1, FS_AddElement
  <2>3. Losing(trades, r) <=> Losing(trades, s) /\ trades[e].pnl <= 0
    BY <2>1 DEF Losing
  <2> QED
    BY <1>2, <2>2, <2>3 DEF e, s, r, Sold, AtLoss
<1>3. CASE ~(trades[k + 1].side = "SELL" /\ i <= k + 1)
  <2>1. r = s
    BY <1>1, <1>3 DEF SalesIn, Sells
  <2> QED
    BY <1>3, <2>1 DEF Sold, AtLoss
<1> QED
  BY <1>2, <1>3

\* A buy leaves one more to be sold, and a sale one less.
LEMMA MatchedNext ==
  ASSUME NEW trades \in Seq(Trades), NEW held \in Nat, Matched(trades, held), NEW t \in Trades
  PROVE  /\ t.side = "BUY" /\ t.pnl = 0 => Matched(Append(trades, t), held + 1)
         /\ t.side = "SELL" /\ held > 0 => Matched(Append(trades, t), held - 1)
<1> DEFINE n == Len(trades)
           more == Append(trades, t)
           s == Cardinality(Sells(trades))
           r == Cardinality(Sells(more))
<1>1. n \in Nat /\ DOMAIN trades = 1 .. n
  OBVIOUS
<1>2. /\ more \in Seq(Trades) /\ Len(more) = n + 1 /\ DOMAIN more = 1 .. (n + 1)
      /\ more[n + 1] = t /\ \A k \in 1 .. n : more[k] = trades[k]
  OBVIOUS
<1> HIDE DEF more, n
<1>3. ASSUME NEW k \in Nat, k <= n PROVE Sold(more, 1, k) = Sold(trades, 1, k)
  <2>1. ASSUME NEW i
        PROVE  i \in SalesIn(more, 1, k) <=> i \in SalesIn(trades, 1, k)
    <3>1. i \in 1 .. n \/ i \notin 1 .. n
      OBVIOUS
    <3>2. i \in 1 .. n => i \in 1 .. (n + 1) /\ more[i] = trades[i]
      BY <1>1, <1>2
    <3>3. i \in 1 .. (n + 1) /\ i <= k => i \in 1 .. n
      BY <1>1, <1>3
    <3> QED
      BY <1>1, <1>2, <3>1, <3>2, <3>3 DEF SalesIn, Sells
  <2>2. SalesIn(more, 1, k) = SalesIn(trades, 1, k)
    BY <2>1
  <2> QED
    BY <2>2 DEF Sold
<1>4. s \in Nat /\ s = Sold(trades, 1, n) /\ n = held + 2 * s
  <2>1. s = Sold(trades, 1, n)
    BY AllSales DEF Sold, n
  <2>2. Sold(trades, 1, n) \in Nat
    BY <1>1, SalesTypes
  <2> QED
    BY <2>1, <2>2 DEF Matched, n
<1>5. r = Sold(more, 1, n + 1)
  BY <1>2, AllSales DEF Sold
<1>6. IF t.side = "SELL" THEN r = s + 1 ELSE r = s
  <2>1. 1 \in Nat /\ 1 <= n + 1 /\ n + 1 <= Len(more) /\ n <= n
    BY <1>1, <1>2
  <2>2. IF t.side = "SELL" THEN Sold(more, 1, n + 1) = Sold(more, 1, n) + 1
        ELSE Sold(more, 1, n + 1) = Sold(more, 1, n)
    BY <1>1, <1>2, <2>1, SalesNext
  <2>3. Sold(more, 1, n) = s
    BY <1>1, <1>3, <1>4, <2>1
  <2> QED
    BY <1>5, <2>2, <2>3
<1> HIDE DEF r, s
<1>7. ASSUME 2 * r <= n + 1, t.side = "BUY" => t.pnl = 0, NEW h, n + 1 = h + 2 * r
      PROVE  Matched(more, h)
  <2>1. ASSUME NEW k \in DOMAIN more
        PROVE  2 * Sold(more, 1, k) <= k /\ (more[k].side = "BUY" => more[k].pnl = 0)
    <3>1. CASE k = n + 1
      BY <1>2, <1>5, <1>7, <3>1
    <3>2. CASE k # n + 1
      <4>1. k \in 1 .. n /\ k \in Nat /\ k <= n
        BY <1>1, <1>2, <3>2
      <4>2. Sold(more, 1, k) = Sold(trades, 1, k) /\ more[k] = trades[k]
        BY <1>2, <1>3, <4>1
      <4> QED
        BY <1>1, <4>1, <4>2 DEF Matched, Balanced
    <3> QED
      BY <3>1, <3>2
  <2>2. Balanced(more)
    BY <2>1 DEF Balanced
  <2> QED
    BY <1>2, <1>7, <2>1, <2>2 DEF Matched, r
<1>8. ASSUME t.side = "BUY", t.pnl = 0 PROVE Matched(more, held + 1)
  <2>1. r = s
    BY <1>6, <1>8
  <2>3. s \in Nat /\ n = held + 2 * s
    BY <1>4
  <2>2. 2 * r <= n + 1 /\ n + 1 = (held + 1) + 2 * r
    BY <2>1, <2>3
  <2> QED
    BY <1>7, <1>8, <2>2
<1>9. ASSUME t.side = "SELL", held > 0 PROVE Matched(more, held - 1)
  <2>1. r = s + 1
    BY <1>6, <1>9
  <2>4. s \in Nat /\ n = held + 2 * s
    BY <1>4
  <2>2. 2 * r <= n + 1 /\ n + 1 = (held - 1) + 2 * r
    BY <1>9, <2>1, <2>4
  <2>3. t.side # "BUY"
    BY <1>9
  <2> QED
    BY <1>7, <2>2, <2>3
<1> QED
  BY <1>8, <1>9 DEF more

-----------------------------------------------------------------------------
(* Buys, sales and stops *)

\* The fields of an account.
LEMMA AccountTypes ==
  ASSUME NEW a \in Accounts
  PROVE  /\ a.capital \in Int /\ a.pnl \in Ledgers
         /\ a.positions \in [Code -> Positions] /\ a.trades \in Seq(Trades)
         /\ a.curve \in Seq(Int)
         /\ \A c \in Code : /\ a.positions[c].qty \in Nat /\ a.positions[c].avg \in Nat
                            /\ a.positions[c].highest \in Nat
BY DEF Accounts, Positions

\* The profit of the trades grows by that of a new one.
LEMMA ProfitGrows ==
  ASSUME NEW trades \in Seq(Trades), NEW t \in Trades
  PROVE  /\ ProfitOf(trades) \in Int
         /\ ProfitOf(Append(trades, t)) = ProfitOf(trades) + t.pnl
         /\ Append(trades, t) \in Seq(Trades)
         /\ Len(trades) \in Nat /\ Len(Append(trades, t)) = Len(trades) + 1
<1> DEFINE n == Len(trades)
           S == 1 .. n
           more == Append(trades, t)
           f == [k \in S |-> trades[k].pnl]
           g == [k \in S \cup {n + 1} |-> more[k].pnl]
<1>1. n \in Nat /\ DOMAIN trades = S /\ \A k \in S : trades[k] \in Trades
  OBVIOUS
<1>2. /\ more \in Seq(Trades) /\ Len(more) = n + 1 /\ DOMAIN more = S \cup {n + 1}
      /\ more[n + 1] = t /\ \A k \in S : more[k] = trades[k]
  OBVIOUS
<1> HIDE DEF more
<1>3. \A x \in Trades : x.pnl \in Int
  BY DEF Trades
<1>4. Numbers(f, S) /\ Agree(f, g, S) /\ Numbers(g, S) /\ g[n + 1] = t.pnl /\ t.pnl \in Int
  BY <1>1, <1>2, <1>3 DEF Numbers, Agree
<1>5. IsFiniteSet(S) /\ n + 1 \notin S
  BY <1>1, FS_Interval
<1>6. ProfitOf(trades) = SumFunctionOnSet(f, S) /\ ProfitOf(more) = SumFunctionOnSet(g, S \cup {n + 1})
  BY <1>1, <1>2 DEF ProfitOf, ProfitIn
<1> HIDE DEF f, g, S
<1> DEFINE e == n + 1
<1>8. e \notin S /\ g[e] = t.pnl /\ g[e] \in Int
  BY <1>4, <1>5
<1> HIDE DEF e
<1>7. SumFunctionOnSet(g, S \cup {e}) = g[e] + SumFunctionOnSet(g, S)
  BY <1>4, <1>5, <1>8, SumAdd
<1>9. SumFunctionOnSet(g, S) = SumFunctionOnSet(f, S) /\ SumFunctionOnSet(f, S) \in Int
  BY <1>4, <1>5, SumSame, SumType
<1>10. ProfitOf(more) = ProfitOf(trades) + t.pnl /\ ProfitOf(trades) \in Int
  <2> DEFINE x == SumFunctionOnSet(f, S)
  <2>1. ProfitOf(trades) = x /\ ProfitOf(more) = t.pnl + x /\ x \in Int
    BY <1>6, <1>7, <1>8, <1>9 DEF e
  <2> HIDE DEF x
  <2> QED
    BY <1>4, <2>1
<1> QED
  BY <1>1, <1>2, <1>10 DEF more

\* What is paid is a number for every code.
LEMMA PaidTypes ==
  ASSUME NEW a \in Accounts
  PROVE  /\ Numbers(Paid(a), Code)
         /\ \A c \in Code : Paid(a)[c] = CalcBuyCost(a.positions[c].avg, a.positions[c].qty)
         /\ SumFunctionOnSet(Paid(a), Code) \in Int
<1>1. \A c \in Code : Paid(a)[c] = CalcBuyCost(a.positions[c].avg, a.positions[c].qty)
  BY DEF Paid
<1>2. Numbers(Paid(a), Code)
  <2>1. ASSUME NEW c \in Code PROVE Paid(a)[c] \in Int
    <3>1. a.positions[c].avg \in Nat /\ a.positions[c].qty \in Nat
      BY AccountTypes
    <3>2. CalcBuyCost(a.positions[c].avg, a.positions[c].qty) \in Nat
      BY <3>1, CostTypes
    <3> QED
      BY <1>1, <3>2
  <2> QED
    BY <2>1 DEF Numbers
<1> QED
  BY <1>1, <1>2, ConstantTypes, SumType

\* A change of one position changes what is paid by as much.
LEMMA PaidChange ==
  ASSUME NEW a \in Accounts, NEW b \in Accounts, NEW code \in Code,
         \A c \in Code \ {code} : b.positions[c] = a.positions[c]
  PROVE  SumFunctionOnSet(Paid(b), Code)
           = SumFunctionOnSet(Paid(a), Code)
             + (CalcBuyCost(b.positions[code].avg, b.positions[code].qty)
                - CalcBuyCost(a.positions[code].avg, a.positions[code].qty))
<1>1. Numbers(Paid(a), Code) /\ Numbers(Paid(b), Code)
  BY PaidTypes
<1>2. Agree(Paid(a), Paid(b), Code \ {code})
  BY DEF Agree, Paid
<1>3. SumFunctionOnSet(Paid(b), Code)
        = SumFunctionOnSet(Paid(a), Code) + (Paid(b)[code] - Paid(a)[code])
  BY <1>1, <1>2, ConstantTypes, SumChange
<1> QED
  BY <1>3, PaidTypes

\* The codes held are finitely many.
LEMMA HoldingsTypes ==
  ASSUME NEW a
  PROVE  /\ Holdings(a) \subseteq Code /\ IsFiniteSet(Holdings(a))
         /\ Cardinality(Holdings(a)) \in Nat
<1>1. Holdings(a) \subseteq Code
  BY DEF Holdings
<1> QED
  BY <1>1, ConstantTypes, FS_Subset, FS_CardinalityType

\* What is held after one position changed.
LEMMA HoldingsChange ==
  ASSUME NEW a, NEW b, NEW code \in Code,
         \A c \in Code \ {code} : b.positions[c] = a.positions[c]
  PROVE  /\ b.positions[code].qty > 0 /\ code \notin Holdings(a) =>
              Cardinality(Holdings(b)) = Cardinality(Holdings(a)) + 1
         /\ ~(b.positions[code].qty > 0 /\ code \notin Holdings(a)) =>
              Cardinality(Holdings(b)) <= Cardinality(Holdings(a))
<1>1. IsFiniteSet(Holdings(a)) /\ IsFiniteSet(Holdings(b))
  BY HoldingsTypes
<1>2. ASSUME b.positions[code].qty > 0, code \notin Holdings(a)
      PROVE  Cardinality(Holdings(b)) = Cardinality(Holdings(a)) + 1
  <2>1. Holdings(b) = Holdings(a) \cup {code}
    BY <1>2 DEF Holdings
  <2> QED
    BY <1>1, <1>2, <2>1, FS_AddElement
<1>3. ASSUME ~(b.positions[code].qty > 0 /\ code \notin Holdings(a))
      PROVE  Cardinality(Holdings(b)) <= Cardinality(Holdings(a))
  <2>1. Holdings(b) \subseteq Holdings(a)
    BY <1>3 DEF Holdings
  <2> QED
    BY <1>1, <2>1, FS_Subset
<1> QED
  BY <1>2, <1>3

\* What is held after a position went, and after one stayed.
LEMMA HoldingsLeft ==
  ASSUME NEW a, NEW b, NEW code \in Holdings(a),
         \A c \in Code \ {code} : b.positions[c] = a.positions[c]
  PROVE  /\ Cardinality(Holdings(a)) > 0
         /\ ~(b.positions[code].qty > 0) =>
              Cardinality(Holdings(b)) = Cardinality(Holdings(a)) - 1
         /\ b.positions[code].qty > 0 => Holdings(b) = Holdings(a)
<1>1. IsFiniteSet(Holdings(a)) /\ Cardinality(Holdings(a)) \in Nat
  BY HoldingsTypes
<1>2. Cardinality(Holdings(a)) > 0
  <2>1. Cardinality(Holdings(a)) # 0
    BY <1>1, FS_EmptySet
  <2> DEFINE m == Cardinality(Holdings(a))
  <2>2. m \in Nat /\ m # 0
    BY <1>1, <2>1
  <2> HIDE DEF m
  <2>3. m > 0
    BY <2>2
  <2> QED
    BY <2>3 DEF m
<1>3. ASSUME ~(b.positions[code].qty > 0)
      PROVE  Cardinality(Holdings(b)) = Cardinality(Holdings(a)) - 1
  <2>1. Holdings(b) = Holdings(a) \ {code}
    BY <1>3 DEF Holdings
  <2> QED
    BY <1>1, <2>1, FS_RemoveElement
<1>4. b.positions[code].qty > 0 => Holdings(b) = Holdings(a)
  BY DEF Holdings
<1> QED
  BY <1>2, <1>3, <1>4

\* A candle is priced.
LEMMA CandlePriced ==
  ASSUME NEW k \in Candles
  PROVE  Priced(k)
BY DEF Candles, Priced

\* What a cautious account trades with is a natural number.
LEMMA WorthTypes ==
  ASSUME NEW a, NEW k, Cautious, WellKept(a), Priced(k)
  PROVE  /\ a.capital \in Nat /\ k.close * a.positions[k.code].qty \in Nat
         /\ WorthOf(a, k) \in Nat /\ Len(a.trades) \in Nat
<1>1. a.capital \in Nat /\ a.positions[k.code].qty \in Nat /\ Len(a.trades) \in Nat
  BY AccountTypes DEF WellKept, Priced
<1>2. k.close * a.positions[k.code].qty \in Nat
  BY <1>1, Product DEF Priced
<1> QED
  BY <1>1, <1>2 DEF WorthOf

\* An account with the same cash, shares and trades has lost nothing.
LEMMA SameCharged ==
  ASSUME NEW a, NEW b, NEW k, Cautious, WellKept(a), Priced(k),
         b.capital = a.capital, b.trades = a.trades,
         b.positions[k.code].qty = a.positions[k.code].qty
  PROVE  Charged(a, b, k)
<1> DEFINE x == WorthOf(a, k)
           n == Len(a.trades)
           y == TradeRate * x
<1>1. x \in Nat /\ n \in Nat
  BY WorthTypes
<1>2. WorthOf(b, k) = x /\ Len(b.trades) = n
  BY DEF WorthOf
<1> HIDE DEF x, n
<1>3. y \in Nat
  BY <1>1, RateTypes, Product
<1>4. Costs(x, x, n - n)
  <2>1. x <= x /\ 100000 * (x - x) = 0 /\ (n - n) * y = 0
    BY <1>1, <1>3
  <2> QED
    BY <2>1 DEF Costs, y
<1> QED
  BY <1>2, <1>4 DEF Charged, x, n

\* An account left alone.
LEMMA StaysKept ==
  ASSUME NEW a, WellKept(a), NEW k, Priced(k)
  PROVE  Stepped(a, a, k)
<1>1. Len(a.trades) <= Len(a.trades)
  BY AccountTypes DEF WellKept
<1>2. Cautious => Charged(a, a, k)
  BY SameCharged
<1> QED
  BY <1>1, <1>2 DEF Stepped

\* What two stretches of trades cost adds up.
LEMMA ChargesJoin ==
  ASSUME NEW a, NEW b, NEW c, NEW k, Cautious, WellKept(a), WellKept(b), WellKept(c),
         Priced(k), Len(a.trades) <= Len(b.trades), Len(b.trades) <= Len(c.trades),
         Charged(a, b, k), Charged(b, c, k)
  PROVE  Charged(a, c, k)
<1> DEFINE x == WorthOf(a, k)
           y == WorthOf(b, k)
           z == WorthOf(c, k)
           l == Len(a.trades)
           m == Len(b.trades)
           n == Len(c.trades)
<1>1. /\ x \in Nat /\ y \in Nat /\ z \in Nat
      /\ l \in Nat /\ m \in Nat /\ n \in Nat /\ l <= m /\ m <= n
  BY WorthTypes
<1>2. Costs(x, y, m - l) /\ Costs(y, z, n - m)
  BY DEF Charged
<1> HIDE DEF x, y, z, l, m, n
<1> DEFINE i == m - l
           j == n - m
<1>3. i \in Nat /\ j \in Nat /\ i + j = n - l
  BY <1>1
<1> HIDE DEF i, j
<1>4. Costs(x, z, i + j)
  BY <1>1, <1>2, <1>3, ChargesAdd DEF i, j
<1> QED
  BY <1>3, <1>4 DEF Charged, x, z, l, n

\* Two steps on the same code are one.
LEMMA StepsJoin ==
  ASSUME NEW a, NEW b, NEW c, NEW k, WellKept(a), Stepped(a, b, k), Stepped(b, c, k)
  PROVE  Stepped(a, c, k)
<1>1. a.trades \in Seq(Trades) /\ b.trades \in Seq(Trades) /\ c.trades \in Seq(Trades)
  BY AccountTypes DEF WellKept, Stepped
<1>2. Len(a.trades) <= Len(c.trades)
  BY <1>1 DEF Stepped
<1>3. Cautious => Charged(a, c, k)
  BY ChargesJoin DEF Stepped
<1> QED
  BY <1>2, <1>3 DEF Stepped

\* A buy is kept: nothing is bought of what is held, and a new position is at
\* the close of the candle.
LEMMA BuyKeeps ==
  ASSUME NEW a, WellKept(a), NEW k \in Candles
  PROVE  LET b == ExecuteBuy(a, k)
             code == k.code
         IN /\ Stepped(a, b, k)
            /\ Len(b.trades) <= Len(a.trades) + 1
            /\ code \in Holdings(a) => b = a
            /\ code \notin Holdings(a) /\ code \in Holdings(b) =>
                 /\ k.close > 0
                 /\ b.positions[code].avg = k.close
                 /\ b.positions[code].highest = k.close
<1> DEFINE code == k.code
           price == k.close
           qty == Quantity(a.capital, price)
           new == [qty |-> qty, avg |-> price, highest |-> price]
           cost == CalcBuyCost(price, qty)
           trade == Trade("BUY", k, 0)
           b == [capital |-> a.capital - cost,
                 positions |-> [a.positions EXCEPT ![code] = new],
                 pnl |-> a.pnl, trades |-> Append(a.trades, trade), curve |-> a.curve]
           No == \/ Cardinality(Holdings(a)) >= MaxPositions
                 \/ code \in Holdings(a) \/ price <= 0 \/ qty <= 0
<1>1. code \in Code /\ price \in Nat /\ k.time \in Nat
  BY DEF Candles
<1>2. a \in Accounts
  BY DEF WellKept
<1>3. CASE No
  <2>1. ExecuteBuy(a, k) = a
    BY <1>3 DEF ExecuteBuy
  <2> HIDE DEF No
  <2>2. Len(a.trades) <= Len(a.trades) + 1
    BY <1>2, AccountTypes
  <2> QED
    BY <2>1, <2>2, CandlePriced, StaysKept
<1>4. CASE ~No
  <2>1. ExecuteBuy(a, k) = b
    BY <1>4 DEF ExecuteBuy
  <2>2. /\ ~(Cardinality(Holdings(a)) >= MaxPositions) /\ code \notin Holdings(a)
        /\ ~(price <= 0) /\ ~(qty <= 0)
    BY <1>4
  <2> HIDE DEF No
  <2>3. price \in Nat \ {0}
    BY <1>1, <2>2
  <2>4. qty \in Nat \ {0}
    <3>1. qty \in Int
      BY <1>2, <2>3, AccountTypes, QuantityTypes
    <3> HIDE DEF qty
    <3> QED
      BY <2>2, <3>1
  <2> HIDE DEF qty, code, price
  <2>5. cost \in Nat
    BY <2>3, <2>4, CostTypes
  <2>6. trade \in Trades /\ trade.pnl = 0
    BY <1>1 DEF Trade, Trades, code
  <2>7. new \in Positions /\ new.qty > 0
    BY <2>3, <2>4 DEF Positions
  <2> HIDE DEF cost, trade
  <2>8. b \in Accounts
    <3>1. a.capital - cost \in Int /\ Append(a.trades, trade) \in Seq(Trades)
      BY <1>2, <2>5, <2>6, AccountTypes
    <3>2. [a.positions EXCEPT ![code] = new] \in [Code -> Positions]
      BY <1>2, <2>7, AccountTypes
    <3> HIDE DEF new
    <3> QED
      BY <1>2, <3>1, <3>2, AccountTypes DEF Accounts
  <2>9. /\ b.capital = a.capital - cost /\ b.trades = Append(a.trades, trade)
        /\ b.positions[code] = new
        /\ \A c \in Code \ {code} : b.positions[c] = a.positions[c]
    BY <1>1, <1>2, AccountTypes
  <2> HIDE DEF b
  <2>10. \A c \in Code : b.positions[c].highest >= b.positions[c].avg
    <3> SUFFICES ASSUME NEW c \in Code PROVE b.positions[c].highest >= b.positions[c].avg
      OBVIOUS
    <3>1. CASE c = code
      BY <2>3, <2>9, <3>1
    <3>2. CASE c # code
      BY <2>9, <3>2 DEF WellKept
    <3> QED
      BY <3>1, <3>2
  <2>11. Cardinality(Holdings(b)) <= MaxPositions
    <3>1. b.positions[code].qty > 0
      BY <2>7, <2>9
    <3>2. code \in Code
      BY <1>1 DEF code
    <3>3. Cardinality(Holdings(b)) = Cardinality(Holdings(a)) + 1
      BY <2>2, <2>9, <3>1, <3>2, HoldingsChange
    <3>4. Cardinality(Holdings(a)) \in Nat
      BY HoldingsTypes
    <3> DEFINE m == Cardinality(Holdings(a))
    <3> HIDE DEF m
    <3>5. m \in Nat /\ ~(m >= MaxPositions) /\ Cardinality(Holdings(b)) = m + 1
      BY <2>2, <3>3, <3>4 DEF m
    <3> QED
      BY <3>5, ConstantTypes
  <2>12. b.capital + SumFunctionOnSet(Paid(b), Code) = InitialCapital + ProfitOf(b.trades)
    <3> DEFINE x == SumFunctionOnSet(Paid(a), Code)
               y == SumFunctionOnSet(Paid(b), Code)
    <3>1. y = x + (CalcBuyCost(b.positions[code].avg, b.positions[code].qty)
                   - CalcBuyCost(a.positions[code].avg, a.positions[code].qty))
      BY <1>1, <1>2, <2>8, <2>9, PaidChange DEF code
    <3>2. CalcBuyCost(b.positions[code].avg, b.positions[code].qty) = cost
      BY <2>9 DEF cost
    <3>3. CalcBuyCost(a.positions[code].avg, a.positions[code].qty) = 0
      <4>1. a.positions[code].qty = 0 /\ a.positions[code].avg \in Nat
        BY <1>1, <1>2, <2>2, AccountTypes DEF Holdings, code
      <4> QED
        BY <4>1, NoCost
    <3>4. ProfitOf(b.trades) = ProfitOf(a.trades) + 0 /\ ProfitOf(a.trades) \in Int
      BY <1>2, <2>6, <2>9, AccountTypes, ProfitGrows
    <3>5. x \in Int /\ a.capital \in Int
      BY <1>2, PaidTypes, AccountTypes
    <3>6. a.capital + x = InitialCapital + ProfitOf(a.trades)
      BY DEF WellKept
    <3> HIDE DEF x, y
    <3>7. b.capital + y = InitialCapital + ProfitOf(b.trades)
      BY <2>5, <2>9, <3>1, <3>2, <3>3, <3>4, <3>5, <3>6, ConstantTypes
    <3> QED
      BY <3>7 DEF y
  <2>13. Cautious => b.capital >= 0 /\ b.curve \in Seq(Nat)
    <3> SUFFICES ASSUME Cautious PROVE b.capital >= 0 /\ b.curve \in Seq(Nat)
      OBVIOUS
    <3>1. a.capital \in Nat
      BY <1>2, AccountTypes DEF WellKept
    <3>2. cost <= a.capital
      BY <2>3, <3>1, CautiousBuyIsPaid DEF cost, qty
    <3>3. b.curve = a.curve
      BY DEF b
    <3> QED
      BY <2>5, <2>9, <3>1, <3>2, <3>3 DEF WellKept
  <2>19. Matched(b.trades, Cardinality(Holdings(b)))
    <3>1. b.positions[code].qty > 0 /\ code \in Code
      BY <1>1, <2>7, <2>9 DEF code
    <3>2. Cardinality(Holdings(b)) = Cardinality(Holdings(a)) + 1
      BY <2>2, <2>9, <3>1, HoldingsChange
    <3>3. Cardinality(Holdings(a)) \in Nat /\ Matched(a.trades, Cardinality(Holdings(a)))
      BY HoldingsTypes DEF WellKept
    <3>4. a.trades \in Seq(Trades) /\ trade.side = "BUY"
      BY <1>2, AccountTypes DEF trade, Trade
    <3> DEFINE m == Cardinality(Holdings(a))
    <3> HIDE DEF m
    <3>5. Matched(Append(a.trades, trade), m + 1)
      BY <2>6, <3>3, <3>4, MatchedNext DEF m
    <3> QED
      BY <2>9, <3>2, <3>5 DEF m
  <2>14. WellKept(b)
    BY <2>8, <2>10, <2>11, <2>12, <2>13, <2>19 DEF WellKept
  <2>15. /\ Len(a.trades) \in Nat /\ Len(b.trades) = Len(a.trades) + 1
         /\ Len(a.trades) <= Len(b.trades)
    BY <1>2, <2>6, <2>9, AccountTypes, ProfitGrows
  <2>18. Cautious => Charged(a, b, k)
    <3> SUFFICES ASSUME Cautious PROVE Charged(a, b, k)
      OBVIOUS
    <3>6. a.capital \in Nat
      BY <1>2, AccountTypes DEF WellKept
    <3>1. a.capital \in Nat /\ cost <= a.capital
      BY <2>3, <3>6, CautiousBuyIsPaid DEF cost, qty
    <3>2. WorthOf(a, k) = a.capital
      <4>1. a.positions[code].qty = 0
        BY <1>1, <1>2, <2>2, AccountTypes DEF Holdings, code
      <4>2. price * 0 = 0
        BY <2>3
      <4> QED
        BY <3>1, <4>1, <4>2 DEF WorthOf, code, price
    <3>3. WorthOf(b, k) = (a.capital - cost) + price * qty
      BY <2>9 DEF WorthOf, code, price
    <3>4. Costs(a.capital, (a.capital - cost) + price * qty, 1)
      BY <2>3, <2>4, <3>1, BuyCharges DEF cost
    <3>5. Len(b.trades) - Len(a.trades) = 1
      BY <2>15
    <3> QED
      BY <3>2, <3>3, <3>4, <3>5 DEF Charged
  <2>16. Stepped(a, b, k)
    <3>1. b.positions[k.code].avg = k.close
      BY <2>9 DEF code, price
    <3> QED
      BY <2>9, <2>14, <2>15, <2>18, <3>1, CandlePriced DEF Stepped, code
  <2>17. price > 0 /\ b.positions[code].avg = price /\ b.positions[code].highest = price
    BY <2>3, <2>9
  <2> QED
    BY <2>1, <2>2, <2>15, <2>16, <2>17 DEF code, price
<1> QED
  BY <1>3, <1>4

\* A sale is booked on its day.
LEMMA BookedTypes ==
  ASSUME NEW pnl \in Ledgers, NEW time \in Nat, NEW gain \in Int
  PROVE  Booked(pnl, DayOf(time), gain) \in Ledgers
<1> DEFINE day == DayOf(time)
           days == DOMAIN pnl \cup {day}
<1>1. day \in Int
  BY DEF DayOf
<1>2. PICK old \in SUBSET Int : pnl \in [old -> Int]
  BY DEF Ledgers
<1> HIDE DEF day
<1>3. DOMAIN pnl \subseteq Int /\ \A d \in DOMAIN pnl : pnl[d] \in Int
  BY <1>2
<1>4. \A d \in days : ProfitOn(pnl, d) \in Int
  BY <1>3 DEF ProfitOn
<1>5. Booked(pnl, day, gain) \in [days -> Int]
  BY <1>3, <1>4 DEF Booked
<1>6. days \in SUBSET Int
  BY <1>1, <1>3
<1> QED
  BY <1>5, <1>6 DEF Ledgers, day

\* A sale is kept, and leaves nothing of the code.
LEMMA SellKeeps ==
  ASSUME NEW a, WellKept(a), NEW sale, sale.code \in Code, sale.close \in Nat, sale.time \in Nat
  PROVE  /\ Stepped(a, ExecuteSell(a, sale), sale)
         /\ sale.code \notin Holdings(ExecuteSell(a, sale))
         /\ Len(ExecuteSell(a, sale).trades) <= Len(a.trades) + 1
         /\ sale.code \notin Holdings(a) => ExecuteSell(a, sale) = a
<1> DEFINE code == sale.code
           pos == a.positions[code]
           proceeds == CalcSellProceeds(sale.close, pos.qty)
           paid == CalcBuyCost(pos.avg, pos.qty)
           gain == proceeds - paid
           trade == Trade("SELL", sale, gain)
           b == [capital |-> a.capital + proceeds,
                 positions |-> [a.positions EXCEPT ![code] = NoPosition],
                 pnl |-> Booked(a.pnl, DayOf(sale.time), gain), trades |-> Append(a.trades, trade), curve |-> a.curve]
<1>1. a \in Accounts /\ pos.qty \in Nat /\ pos.avg \in Nat
  BY AccountTypes DEF WellKept
<1>2. CASE code \notin Holdings(a)
  <2>1. ExecuteSell(a, sale) = a
    BY <1>2 DEF ExecuteSell
  <2>2. Len(a.trades) <= Len(a.trades) + 1
    BY <1>1, AccountTypes
  <2>3. Priced(sale)
    BY DEF Priced
  <2> QED
    BY <1>2, <2>1, <2>2, <2>3, StaysKept
<1>3. CASE code \in Holdings(a)
  <2>1. ExecuteSell(a, sale) = b
    BY <1>3 DEF ExecuteSell
  <2>2. proceeds \in Nat /\ paid \in Nat
    BY <1>1, CostTypes
  <2> HIDE DEF proceeds, paid
  <2>3. gain \in Int
    BY <2>2
  <2> HIDE DEF gain
  <2>4. trade \in Trades /\ trade.pnl = gain
    BY <2>3 DEF Trade, Trades
  <2>5. NoPosition \in Positions /\ NoPosition.qty = 0 /\ NoPosition.avg = 0 /\ NoPosition.highest = 0
    BY DEF NoPosition, Positions
  <2> HIDE DEF trade, pos
  <2>6. b \in Accounts
    <3>0. Booked(a.pnl, DayOf(sale.time), gain) \in Ledgers
      BY <1>1, <2>3, AccountTypes, BookedTypes
    <3>1. a.capital + proceeds \in Int /\ Append(a.trades, trade) \in Seq(Trades)
      BY <1>1, <2>2, <2>3, <2>4, AccountTypes
    <3>2. [a.positions EXCEPT ![code] = NoPosition] \in [Code -> Positions]
      BY <1>1, <2>5, AccountTypes
    <3> QED
      BY <1>1, <3>0, <3>1, <3>2, AccountTypes DEF Accounts
  <2>7. /\ b.capital = a.capital + proceeds /\ b.trades = Append(a.trades, trade)
        /\ b.positions[code] = NoPosition
        /\ \A c \in Code \ {code} : b.positions[c] = a.positions[c]
    BY <1>1, AccountTypes
  <2> HIDE DEF b
  <2>8. \A c \in Code : b.positions[c].highest >= b.positions[c].avg
    BY <2>5, <2>7 DEF WellKept
  <2>9. Cardinality(Holdings(b)) <= MaxPositions
    <3>1. ~(b.positions[code].qty > 0)
      BY <2>5, <2>7
    <3>2. Cardinality(Holdings(b)) <= Cardinality(Holdings(a))
      BY <2>7, <3>1, HoldingsChange
    <3>3. Cardinality(Holdings(a)) \in Nat /\ Cardinality(Holdings(b)) \in Nat
      BY HoldingsTypes
    <3>4. Cardinality(Holdings(a)) <= MaxPositions
      BY DEF WellKept
    <3> DEFINE m == Cardinality(Holdings(a))
               n == Cardinality(Holdings(b))
    <3> HIDE DEF m, n
    <3>5. m \in Nat /\ n \in Nat /\ n <= m /\ m <= MaxPositions
      BY <3>2, <3>3, <3>4 DEF m, n
    <3> QED
      BY <3>5, ConstantTypes DEF n
  <2>10. b.capital + SumFunctionOnSet(Paid(b), Code) = InitialCapital + ProfitOf(b.trades)
    <3> DEFINE x == SumFunctionOnSet(Paid(a), Code)
               y == SumFunctionOnSet(Paid(b), Code)
    <3>1. y = x + (CalcBuyCost(b.positions[code].avg, b.positions[code].qty)
                   - CalcBuyCost(a.positions[code].avg, a.positions[code].qty))
      BY <1>1, <2>6, <2>7, PaidChange
    <3>2. CalcBuyCost(b.positions[code].avg, b.positions[code].qty) = 0
      BY <2>5, <2>7, NoCost
    <3>3. CalcBuyCost(a.positions[code].avg, a.positions[code].qty) = paid
      BY DEF paid, pos
    <3>4. ProfitOf(b.trades) = ProfitOf(a.trades) + gain /\ ProfitOf(a.trades) \in Int
      BY <1>1, <2>4, <2>7, AccountTypes, ProfitGrows
    <3>5. x \in Int /\ a.capital \in Int /\ gain = proceeds - paid
      BY <1>1, PaidTypes, AccountTypes DEF gain
    <3>6. a.capital + x = InitialCapital + ProfitOf(a.trades)
      BY DEF WellKept
    <3> HIDE DEF x, y
    <3>7. b.capital = a.capital + proceeds /\ y = x + (0 - paid)
      BY <2>7, <3>1, <3>2, <3>3
    <3> DEFINE cash == a.capital
               profit == ProfitOf(a.trades)
    <3>8. /\ cash \in Int /\ profit \in Int /\ cash + x = InitialCapital + profit
          /\ b.capital = cash + proceeds /\ ProfitOf(b.trades) = profit + gain
      BY <3>4, <3>5, <3>6, <3>7
    <3> HIDE DEF cash, profit
    <3>9. b.capital + y = InitialCapital + ProfitOf(b.trades)
      BY <2>2, <3>5, <3>7, <3>8, ConstantTypes
    <3> QED
      BY <3>9 DEF y
  <2>11. Cautious => b.capital >= 0 /\ b.curve \in Seq(Nat)
    <3>1. a.capital \in Int /\ (Cautious => a.capital >= 0 /\ a.curve \in Seq(Nat))
      BY <1>1, AccountTypes DEF WellKept
    <3>2. b.curve = a.curve
      BY DEF b
    <3> QED
      BY <2>2, <2>7, <3>1, <3>2
  <2>17. Matched(b.trades, Cardinality(Holdings(b)))
    <3>1. ~(b.positions[code].qty > 0)
      BY <2>5, <2>7
    <3>2. /\ Cardinality(Holdings(a)) > 0
          /\ Cardinality(Holdings(b)) = Cardinality(Holdings(a)) - 1
      BY <1>3, <2>7, <3>1, HoldingsLeft
    <3>3. Cardinality(Holdings(a)) \in Nat /\ Matched(a.trades, Cardinality(Holdings(a)))
      BY HoldingsTypes DEF WellKept
    <3>4. a.trades \in Seq(Trades) /\ trade.side = "SELL"
      BY <1>1, AccountTypes DEF trade, Trade
    <3> DEFINE m == Cardinality(Holdings(a))
    <3>5. m \in Nat /\ m > 0 /\ Matched(a.trades, m) /\ Cardinality(Holdings(b)) = m - 1
      BY <3>2, <3>3
    <3> HIDE DEF m
    <3>6. Matched(Append(a.trades, trade), m - 1)
      BY <2>4, <3>4, <3>5, MatchedNext
    <3> QED
      BY <2>7, <3>5, <3>6
  <2>12. WellKept(b)
    BY <2>6, <2>8, <2>9, <2>10, <2>11, <2>17 DEF WellKept
  <2>13. /\ Len(a.trades) \in Nat /\ Len(b.trades) = Len(a.trades) + 1
         /\ Len(a.trades) <= Len(b.trades)
    BY <1>1, <2>4, <2>7, AccountTypes, ProfitGrows
  <2>16. Cautious => Charged(a, b, sale)
    <3> SUFFICES ASSUME Cautious PROVE Charged(a, b, sale)
      OBVIOUS
    <3>1. a.capital \in Nat /\ Priced(sale)
      BY WorthTypes DEF Priced
    <3>2. WorthOf(a, sale) = a.capital + sale.close * pos.qty
      BY DEF WorthOf, pos
    <3>3. WorthOf(b, sale) = a.capital + proceeds
      <4>1. sale.close * 0 = 0 /\ (a.capital + proceeds) + 0 = a.capital + proceeds
        BY <2>2, <3>1
      <4> QED
        BY <2>5, <2>7, <4>1 DEF WorthOf
    <3>4. Costs(a.capital + sale.close * pos.qty, a.capital + proceeds, 1)
      BY <1>1, <3>1, SaleCharges DEF proceeds, pos
    <3>5. Len(b.trades) - Len(a.trades) = 1
      BY <2>13
    <3> QED
      BY <3>2, <3>3, <3>4, <3>5 DEF Charged
  <2>15. code \notin Holdings(b)
    BY <2>5, <2>7 DEF Holdings
  <2>14. Stepped(a, b, sale)
    <3>1. Priced(sale)
      BY DEF Priced
    <3> QED
      BY <2>7, <2>12, <2>13, <2>15, <2>16, <3>1 DEF Stepped
  <2> QED
    BY <1>3, <2>1, <2>13, <2>14, <2>15
<1> QED
  BY <1>2, <1>3

\* The triggers ask what the property asks.
LEMMA TriggersAgree ==
  ASSUME NEW pos \in Positions, NEW close \in Nat
  PROVE  Triggered(pos, close) <=> PastItsStop(pos, close)
<1>1. pos.qty \in Nat /\ pos.avg \in Nat /\ pos.highest \in Nat
  BY DEF Positions
<1> DEFINE avg == pos.avg
           high == pos.highest
<1>2. avg \in Nat /\ high \in Nat
  BY <1>1
<1> HIDE DEF avg, high
<1>3. close * 100 <= avg * (100 - StopLoss) <=> 100 * (avg - close) >= StopLoss * avg
  BY <1>2, ConstantTypes
<1>4. close * 100 >= avg * (100 + TakeProfit) <=> 100 * (close - avg) >= TakeProfit * avg
  BY <1>2, ConstantTypes
<1>5. close * 100 <= high * (100 - TrailingStop) <=> 100 * (high - close) >= TrailingStop * high
  BY <1>2, ConstantTypes
<1> QED
  BY <1>3, <1>4, <1>5 DEF Triggered, PastItsStop, avg, high

\* The triggers are kept; they buy nothing, and what they leave is not past its
\* stop.
LEMMA TriggersKeep ==
  ASSUME NEW a, WellKept(a), NEW k \in Candles
  PROVE  LET b == CheckRiskTriggers(a, k)
         IN /\ Stepped(a, b, k)
            /\ Len(b.trades) <= Len(a.trades) + 1
            /\ k.code \notin Holdings(a) => b = a
            /\ k.code \in Holdings(b) =>
                 k.code \in Holdings(a) /\ ~PastItsStop(b.positions[k.code], k.close)
<1> DEFINE code == k.code
           pos == a.positions[code]
           high == IF k.close > pos.highest THEN k.close ELSE pos.highest
           top == [qty |-> pos.qty, avg |-> pos.avg, highest |-> high]
           b == [a EXCEPT !.positions = [@ EXCEPT ![code] = top]]
<1>1. code \in Code /\ k.close \in Nat /\ k.time \in Nat
  BY DEF Candles
<1>2. a \in Accounts /\ pos.qty \in Nat /\ pos.avg \in Nat /\ pos.highest \in Nat
      /\ pos.highest >= pos.avg
  BY <1>1, AccountTypes DEF WellKept
<1>3. high \in Nat /\ high >= pos.avg
  BY <1>1, <1>2
<1>4. CASE code \notin Holdings(a)
  <2>1. CheckRiskTriggers(a, k) = a
    BY <1>4 DEF CheckRiskTriggers
  <2>2. Len(a.trades) <= Len(a.trades) + 1
    BY <1>2, AccountTypes
  <2> QED
    BY <1>4, <2>1, <2>2, CandlePriced, StaysKept
<1>5. CASE code \in Holdings(a) /\ Triggered(top, k.close)
  <2>1. CheckRiskTriggers(a, k) = ExecuteSell(a, k)
    BY <1>5 DEF CheckRiskTriggers
  <2> QED
    BY <1>1, <1>5, <2>1, SellKeeps
<1>6. CASE code \in Holdings(a) /\ ~Triggered(top, k.close)
  <2>1. CheckRiskTriggers(a, k) = b
    BY <1>6 DEF CheckRiskTriggers
  <2> HIDE DEF high
  <2>2. top \in Positions /\ top.qty = pos.qty /\ top.avg = pos.avg /\ top.highest = high
    BY <1>2, <1>3 DEF Positions
  <2>3. ~PastItsStop(top, k.close)
    BY <1>1, <1>6, <2>2, TriggersAgree
  <2> HIDE DEF top
  <2>4. /\ b \in Accounts
        /\ b.capital = a.capital /\ b.trades = a.trades /\ b.curve = a.curve
        /\ b.positions[code] = top
        /\ \A c \in Code \ {code} : b.positions[c] = a.positions[c]
    <3> DEFINE after == [a.positions EXCEPT ![code] = top]
    <3>1. after \in [Code -> Positions] /\ after[code] = top
          /\ \A c \in Code \ {code} : after[c] = a.positions[c]
      BY <1>1, <1>2, <2>2, AccountTypes
    <3> HIDE DEF after
    <3>2. b = [a EXCEPT !.positions = after]
      BY DEF after
    <3>3. /\ b \in Accounts /\ b.capital = a.capital /\ b.trades = a.trades
          /\ b.curve = a.curve /\ b.positions = after
      BY <1>2, <3>1, <3>2 DEF Accounts
    <3> QED
      BY <3>1, <3>3
  <2> HIDE DEF b
  <2>5. \A c \in Code : b.positions[c].highest >= b.positions[c].avg
    <3> SUFFICES ASSUME NEW c \in Code PROVE b.positions[c].highest >= b.positions[c].avg
      OBVIOUS
    <3>1. CASE c = code
      BY <1>3, <2>2, <2>4, <3>1
    <3>2. CASE c # code
      BY <2>4, <3>2 DEF WellKept
    <3> QED
      BY <3>1, <3>2
  <2>6. Cardinality(Holdings(b)) <= MaxPositions
    <3>1. Cardinality(Holdings(b)) <= Cardinality(Holdings(a))
      BY <1>1, <1>6, <2>4, HoldingsChange
    <3>2. Cardinality(Holdings(a)) \in Nat /\ Cardinality(Holdings(b)) \in Nat
      BY HoldingsTypes
    <3>3. Cardinality(Holdings(a)) <= MaxPositions
      BY DEF WellKept
    <3> DEFINE m == Cardinality(Holdings(a))
               n == Cardinality(Holdings(b))
    <3> HIDE DEF m, n
    <3>4. m \in Nat /\ n \in Nat /\ n <= m /\ m <= MaxPositions
      BY <3>1, <3>2, <3>3 DEF m, n
    <3> QED
      BY <3>4, ConstantTypes DEF n
  <2>7. b.capital + SumFunctionOnSet(Paid(b), Code) = InitialCapital + ProfitOf(b.trades)
    <3>1. /\ b.positions[code].qty = a.positions[code].qty
          /\ b.positions[code].avg = a.positions[code].avg
      BY <2>2, <2>4
    <3>2. \A c \in Code : /\ b.positions[c].qty = a.positions[c].qty
                          /\ b.positions[c].avg = a.positions[c].avg
      BY <2>4, <3>1
    <3>3. Paid(b) = Paid(a)
      BY <3>2 DEF Paid
    <3> QED
      BY <2>4, <3>3 DEF WellKept
  <2>11. Holdings(b) = Holdings(a)
    <3>1. b.positions[code].qty > 0
      BY <1>6, <2>2, <2>4 DEF Holdings
    <3> QED
      BY <1>6, <2>4, <3>1, HoldingsLeft
  <2>8. WellKept(b)
    BY <2>4, <2>5, <2>6, <2>7, <2>11 DEF WellKept
  <2>9. Stepped(a, b, k)
    <3>1. Len(a.trades) <= Len(b.trades)
      BY <1>2, <2>4, AccountTypes
    <3>2. Cautious => Charged(a, b, k)
      BY <2>2, <2>4, CandlePriced, SameCharged
    <3> QED
      BY <1>6, <2>2, <2>4, <2>8, <3>1, <3>2, CandlePriced DEF Stepped
  <2>10. Len(b.trades) <= Len(a.trades) + 1
    BY <1>2, <2>4, AccountTypes
  <2> QED
    BY <1>6, <2>1, <2>3, <2>4, <2>9, <2>10
<1> QED
  BY <1>4, <1>5, <1>6

\* Recording the equity changes nothing else.
LEMMA RecordKeeps ==
  ASSUME NEW a, WellKept(a), NEW k \in Candles
  PROVE  /\ Stepped(a, RecordEquity(a, k), k)
         /\ RecordEquity(a, k).positions = a.positions
         /\ RecordEquity(a, k).trades = a.trades
<1> DEFINE worth == [c \in Code |-> a.positions[c].qty *
                       (IF c = k.code THEN k.close ELSE a.positions[c].avg)]
           b == RecordEquity(a, k)
<1>1. a \in Accounts
  BY DEF WellKept
<1>12. ASSUME NEW c \in Code PROVE worth[c] \in Nat
  <2>1. a.positions[c].qty \in Nat
        /\ (IF c = k.code THEN k.close ELSE a.positions[c].avg) \in Nat
    BY <1>1, AccountTypes DEF Candles
  <2> QED
    BY <2>1, Product
<1>2. Numbers(worth, Code)
  BY <1>12 DEF Numbers
<1>3. Equity(a, k) \in Int
  <2>1. SumFunctionOnSet(worth, Code) \in Int
    BY <1>2, ConstantTypes, SumType
  <2>2. a.capital \in Int
    BY <1>1, AccountTypes
  <2> QED
    BY <2>1, <2>2 DEF Equity
<1>11. Cautious => Equity(a, k) \in Nat
  <2> SUFFICES ASSUME Cautious PROVE Equity(a, k) \in Nat
    OBVIOUS
  <2>1. a.capital \in Nat
    BY <1>1, AccountTypes DEF WellKept
  <2>2. SumFunctionOnSet(worth, Code) \in Nat
    BY <1>12, ConstantTypes, SumNat
  <2> QED
    BY <2>1, <2>2 DEF Equity
<1> DEFINE curve == Append(a.curve, Equity(a, k))
<1>4. curve \in Seq(Int) /\ (Cautious => curve \in Seq(Nat))
  BY <1>1, <1>3, <1>11, AccountTypes DEF WellKept
<1>5. b = [a EXCEPT !.curve = curve]
  BY DEF RecordEquity
<1> HIDE DEF b, curve
<1>6. /\ b \in Accounts /\ b.positions = a.positions /\ b.trades = a.trades
      /\ b.capital = a.capital /\ b.curve = curve
  BY <1>1, <1>4, <1>5 DEF Accounts
<1>7. Paid(b) = Paid(a) /\ Holdings(b) = Holdings(a)
  BY <1>6 DEF Paid, Holdings
<1>8. WellKept(b)
  BY <1>4, <1>6, <1>7 DEF WellKept
<1>9. Len(a.trades) <= Len(b.trades)
  BY <1>1, <1>6, AccountTypes
<1>10. Cautious => Charged(a, b, k)
  BY <1>6, CandlePriced, SameCharged
<1> QED
  BY <1>6, <1>7, <1>8, <1>9, <1>10, CandlePriced DEF Stepped, b

\* What a backtest does with a candle.
LEMMA ObeyedKeeps ==
  ASSUME NEW a, WellKept(a), NEW k \in Candles, NEW sides, NEW i
  PROVE  /\ Stepped(a, Obeyed(a, k, sides, i), k)
         /\ Len(Obeyed(a, k, sides, i).trades) <= Len(a.trades) + 1
<1>1. k.code \in Code /\ k.close \in Nat /\ k.time \in Nat
  BY DEF Candles
<1>2. Stepped(a, a, k) /\ Len(a.trades) <= Len(a.trades) + 1
  BY CandlePriced, StaysKept, AccountTypes DEF WellKept
<1>3. Stepped(a, ExecuteSell(a, k), k) /\ Len(ExecuteSell(a, k).trades) <= Len(a.trades) + 1
  BY <1>1, SellKeeps
<1>4. Stepped(a, ExecuteBuy(a, k), k) /\ Len(ExecuteBuy(a, k).trades) <= Len(a.trades) + 1
  BY BuyKeeps
<1> QED
  BY <1>2, <1>3, <1>4 DEF Obeyed

\* A turn of the backtest leaves nothing past its stop, and trades three times
\* at most.
LEMMA BacktestKeeps ==
  ASSUME NEW a, WellKept(a), NEW k \in Candles, NEW sides
  PROVE  LET b == BacktestCandle(a, k, sides)
         IN /\ Stepped(a, b, k)
            /\ Len(b.trades) <= Len(a.trades) + 3
            /\ k.code \in Holdings(b) => ~PastItsStop(b.positions[k.code], k.close)
<1> DEFINE one == Obeyed(a, k, sides, 1)
           two == Obeyed(one, k, sides, 2)
           kept == CheckRiskTriggers(two, k)
           b == RecordEquity(kept, k)
<1>1. Stepped(a, one, k) /\ WellKept(one) /\ Len(one.trades) <= Len(a.trades) + 1
  BY ObeyedKeeps DEF Stepped
<1> HIDE DEF one
<1>2. Stepped(one, two, k) /\ WellKept(two) /\ Len(two.trades) <= Len(one.trades) + 1
  BY <1>1, ObeyedKeeps DEF Stepped
<1> HIDE DEF two
<1>3. /\ Stepped(two, kept, k) /\ WellKept(kept) /\ Len(kept.trades) <= Len(two.trades) + 1
      /\ k.code \in Holdings(kept) => ~PastItsStop(kept.positions[k.code], k.close)
  BY <1>2, TriggersKeep DEF Stepped
<1> HIDE DEF kept
<1>4. Stepped(kept, b, k) /\ b.positions = kept.positions /\ b.trades = kept.trades
  BY <1>3, RecordKeeps
<1> HIDE DEF b
<1>5. Stepped(a, kept, k)
  BY <1>1, <1>2, <1>3, StepsJoin
<1>6. Stepped(a, b, k)
  BY <1>4, <1>5, StepsJoin
<1>7. Holdings(b) = Holdings(kept)
  BY <1>4 DEF Holdings
<1>8. k.code \in Holdings(b) => ~PastItsStop(b.positions[k.code], k.close)
  BY <1>3, <1>4, <1>7
<1>9. BacktestCandle(a, k, sides) = b
  BY DEF BacktestCandle, b, kept, two, one
<1>10. Len(b.trades) <= Len(a.trades) + 3
  <2>1. /\ Len(a.trades) \in Nat /\ Len(one.trades) \in Nat /\ Len(two.trades) \in Nat
        /\ Len(kept.trades) \in Nat
    <3>1. \A x : WellKept(x) => Len(x.trades) \in Nat
      BY AccountTypes DEF WellKept
    <3> QED
      BY <1>1, <1>2, <1>3, <3>1
  <2> QED
    BY <1>1, <1>2, <1>3, <1>4, <2>1
<1> QED
  BY <1>6, <1>8, <1>9, <1>10

-----------------------------------------------------------------------------
(* What a replay does with a candle *)

\* What a strategy answers the candle at hand.
Sides(n) == AnswerOf(states, n, candle).sides

\* A position as a buy at the candle's close leaves it.
Fresh(pos) == pos.avg = candle.close /\ pos.highest = candle.close /\ candle.close > 0

\* In a replay b has at most two trades more than a, and until a bid at most one,
\* after which nothing of the code is held.
Counted(a, b, bought, k) ==
  /\ Len(b.trades) <= Len(a.trades) + 2
  /\ bought = FALSE => \/ Len(b.trades) = Len(a.trades)
                       \/ Len(b.trades) = Len(a.trades) + 1 /\ k.code \notin Holdings(b)

\* A turn after the bids of some strategies and the offers of others: `bought`
\* is of a strategy's bid, and without one only what was held before is held, if
\* no strategy offered it.
Turned(turn, bids, offers) ==
  /\ turn.bought \in BOOLEAN
  /\ Stepped(account, turn.account, candle)
  /\ Counted(account, turn.account, turn.bought, candle)
  /\ turn.bought = TRUE => \E n \in bids : n \in Traders(kind) /\ "BUY" \in Sides(n)
  /\ turn.bought = FALSE /\ candle.code \in Holdings(turn.account) =>
       /\ candle.code \in Holdings(account)
       /\ \A n \in offers : n \in Traders(kind) => "SELL" \notin Sides(n)
  /\ candle.code \in Holdings(turn.account) /\ candle.code \notin Holdings(account) =>
       Fresh(turn.account.positions[candle.code])

\* The fields of a turn.
LEMMA TurnFields ==
  ASSUME NEW a, NEW b
  PROVE  Turn(a, b).account = a /\ Turn(a, b).bought = b
BY DEF Turn

\* What bidding and offering come to.
LEMMA BuyIs ==
  ASSUME NEW turn, NEW k
  PROVE  Buy(turn, k) = turn \/ Buy(turn, k) = Turn(ExecuteBuy(turn.account, k), TRUE)
BY ZenonT(60) DEF Buy, ReplayBuy

\* An offer counts only if nothing was bid for in this candle.
LEMMA SellIs ==
  ASSUME NEW turn, NEW k
  PROVE  /\ turn.bought = TRUE => Sell(turn, k) = turn
         /\ turn.bought = FALSE => Sell(turn, k) = Turn(ExecuteSell(turn.account, k), FALSE)
<1>1. ASSUME turn.bought = TRUE PROVE Sell(turn, k) = turn
  BY <1>1, ZenonT(60) DEF Sell
<1>2. ASSUME turn.bought = FALSE
      PROVE  Sell(turn, k) = Turn(ExecuteSell(turn.account, k), FALSE)
  BY <1>2, ZenonT(60) DEF Sell, ReplaySell
<1> QED
  BY <1>1, <1>2

\* The count before a turn, after a buy and after a sale.
LEMMA NothingCounted ==
  ASSUME NEW a, WellKept(a), NEW k, NEW bought
  PROVE  Counted(a, a, bought, k)
<1>1. Len(a.trades) \in Nat
  BY AccountTypes DEF WellKept
<1> QED
  BY <1>1 DEF Counted

LEMMA BuyCounted ==
  ASSUME NEW a, NEW b, WellKept(a), WellKept(b), NEW k \in Candles, Counted(a, b, FALSE, k)
  PROVE  Counted(a, ExecuteBuy(b, k), TRUE, k)
<1> DEFINE c == ExecuteBuy(b, k)
<1>1. Len(c.trades) <= Len(b.trades) + 1 /\ WellKept(c)
  BY BuyKeeps DEF Stepped
<1>2. Len(a.trades) \in Nat /\ Len(b.trades) \in Nat /\ Len(c.trades) \in Nat
  BY <1>1, AccountTypes DEF WellKept
<1>3. Len(b.trades) <= Len(a.trades) + 1
  BY <1>2 DEF Counted
<1> HIDE DEF c
<1>4. Len(c.trades) <= Len(a.trades) + 2
  BY <1>1, <1>2, <1>3
<1> QED
  BY <1>4 DEF Counted, c

LEMMA SaleCounted ==
  ASSUME NEW a, NEW b, WellKept(a), WellKept(b), NEW k \in Candles, Counted(a, b, FALSE, k)
  PROVE  Counted(a, ExecuteSell(b, k), FALSE, k)
<1> DEFINE c == ExecuteSell(b, k)
<1>1. k.code \in Code /\ k.close \in Nat /\ k.time \in Nat
  BY DEF Candles
<1>2. /\ k.code \notin Holdings(c) /\ Len(c.trades) <= Len(b.trades) + 1
      /\ Stepped(b, c, k) /\ (k.code \notin Holdings(b) => c = b)
  BY <1>1, SellKeeps
<1> HIDE DEF c
<1>3. Len(a.trades) \in Nat /\ Len(b.trades) \in Nat /\ Len(c.trades) \in Nat
      /\ Len(b.trades) <= Len(c.trades)
  BY <1>2, AccountTypes DEF WellKept, Stepped
<1>4. CASE k.code \notin Holdings(b)
  BY <1>2, <1>4 DEF c
<1>5. CASE Len(b.trades) = Len(a.trades)
  <2>1. Len(c.trades) = Len(a.trades) \/ Len(c.trades) = Len(a.trades) + 1
    BY <1>2, <1>3, <1>5
  <2>2. Len(c.trades) <= Len(a.trades) + 2
    BY <1>3, <2>1
  <2> QED
    BY <1>2, <2>1, <2>2 DEF Counted, c
<1> QED
  BY <1>4, <1>5 DEF Counted

\* A bid, carried out or declined, keeps the turn.
LEMMA BidKeeps ==
  ASSUME NEW turn, NEW done, NEW name \in Traders(kind),
         WellKept(account), candle \in Candles, Turned(turn, done, done),
         "BUY" \in Sides(name), turn.bought = FALSE
  PROVE  Turned(Buy(turn, candle), done \cup {name}, done)
<1> DEFINE a == turn.account
           b == ExecuteBuy(a, candle)
           all == done \cup {name}
<1>1. Stepped(account, a, candle) /\ WellKept(a)
  BY DEF Turned, Stepped
<1>2. CASE Buy(turn, candle) = turn
  <2>1. Turned(turn, all, done)
    BY DEF Turned
  <2> QED
    BY <1>2, <2>1
<1>3. CASE Buy(turn, candle) = Turn(b, TRUE)
  <2>1. /\ Stepped(a, b, candle)
        /\ candle.code \in Holdings(a) => b = a
        /\ candle.code \notin Holdings(a) /\ candle.code \in Holdings(b) =>
             Fresh(b.positions[candle.code])
    BY <1>1, BuyKeeps DEF Fresh
  <2>2. candle.code \in Holdings(b) /\ candle.code \notin Holdings(account) =>
          Fresh(b.positions[candle.code])
    BY <2>1 DEF Turned
  <2> HIDE DEF a, b
  <2>3. Stepped(account, b, candle)
    BY <1>1, <2>1, StepsJoin
  <2>4. \E n \in all : n \in Traders(kind) /\ "BUY" \in Sides(n)
    OBVIOUS
  <2>6. Counted(account, b, TRUE, candle)
    <3>1. Counted(account, a, FALSE, candle)
      BY DEF Turned, a
    <3> QED
      BY <1>1, <3>1, BuyCounted DEF b, a
  <2> HIDE DEF all
  <2>5. Turned(Turn(b, TRUE), all, done)
    BY <2>2, <2>3, <2>4, <2>6, TurnFields, ZenonT(60) DEF Turned
  <2> QED
    BY <1>3, <2>5 DEF b, all
<1> HIDE DEF b
<1> QED
  BY <1>2, <1>3, BuyIs DEF b, a

\* An offer keeps the turn, and leaves nothing of the code that was not bid for.
LEMMA OfferKeeps ==
  ASSUME NEW turn, NEW all, NEW done, NEW name,
         WellKept(account), candle \in Candles, Turned(turn, all, done),
         \E n \in all : n = name
  PROVE  /\ "SELL" \notin Sides(name) => Turned(turn, all, done \cup {name})
         /\ "SELL" \in Sides(name) => Turned(Sell(turn, candle), all, done \cup {name})
<1> DEFINE a == turn.account
           b == ExecuteSell(a, candle)
<1>1. Stepped(account, a, candle) /\ WellKept(a)
  BY DEF Turned, Stepped
<1>2. ASSUME "SELL" \notin Sides(name) PROVE Turned(turn, all, done \cup {name})
  BY <1>2 DEF Turned
<1>3. ASSUME "SELL" \in Sides(name) PROVE Turned(Sell(turn, candle), all, done \cup {name})
  <2>1. CASE turn.bought = TRUE
    <3>1. Turned(turn, all, done \cup {name})
      BY <2>1 DEF Turned
    <3> QED
      BY <2>1, <3>1, SellIs
  <2>2. CASE turn.bought = FALSE
    <3>1. candle.code \in Code /\ candle.close \in Nat /\ candle.time \in Nat
      BY DEF Candles
    <3>2. Stepped(a, b, candle) /\ candle.code \notin Holdings(b)
      BY <1>1, <3>1, SellKeeps
    <3>5. Counted(account, b, FALSE, candle)
      <4>1. Counted(account, a, FALSE, candle)
        BY <2>2 DEF Turned
      <4> QED
        BY <1>1, <4>1, SaleCounted
    <3> HIDE DEF a, b
    <3>3. Stepped(account, b, candle)
      BY <1>1, <3>2, StepsJoin
    <3>4. Turned(Turn(b, FALSE), all, done \cup {name})
      <4> DEFINE sold == Turn(b, FALSE)
      <4>1. sold.account = b /\ sold.bought = FALSE
        BY TurnFields
      <4>2. sold.bought \in BOOLEAN /\ sold.bought # TRUE
        BY <4>1
      <4> HIDE DEF sold
      <4>3. candle.code \notin Holdings(sold.account)
        BY <3>2, <4>1
      <4>4. Stepped(account, sold.account, candle)
        BY <3>3, <4>1
      <4>6. Counted(account, sold.account, sold.bought, candle)
        BY <3>5, <4>1
      <4>5. Turned(sold, all, done \cup {name})
        BY <4>2, <4>3, <4>4, <4>6, ZenonT(60) DEF Turned
      <4> QED
        BY <4>5 DEF sold
    <3> QED
      BY <2>2, <3>4, SellIs DEF a, b
  <2> QED
    BY <2>1, <2>2 DEF Turned
<1> QED
  BY <1>2, <1>3

\* One strategy's answer keeps the turn.
LEMMA AnsweredKeeps ==
  ASSUME NEW turn, NEW done, NEW name,
         WellKept(account), candle \in Candles, Turned(turn, done, done)
  PROVE  Turned(Answered(turn, name, kind, states, candle),
                done \cup {name}, done \cup {name})
<1> DEFINE all == done \cup {name}
           sides == Sides(name)
           bid == IF "BUY" \in sides /\ ~turn.bought THEN Buy(turn, candle) ELSE turn
<1>1. CASE name \notin Traders(kind)
  <2>1. Answered(turn, name, kind, states, candle) = turn
    BY <1>1 DEF Answered
  <2>2. Turned(turn, all, all)
    BY <1>1 DEF Turned
  <2> QED
    BY <2>1, <2>2
<1>2. CASE name \in Traders(kind)
  <2>1. Turned(bid, all, done)
    <3>1. CASE "BUY" \in sides /\ turn.bought = FALSE
      <4>1. bid = Buy(turn, candle)
        BY <3>1, ZenonT(60)
      <4>2. Turned(Buy(turn, candle), all, done)
        BY <1>2, <3>1, BidKeeps
      <4> QED
        BY <4>1, <4>2
    <3>2. CASE "BUY" \notin sides
      <4>1. bid = turn
        BY <3>2
      <4>2. Turned(turn, all, done)
        BY DEF Turned
      <4> QED
        BY <4>1, <4>2
    <3>3. CASE turn.bought = TRUE
      <4>1. bid = turn
        BY <3>3, ZenonT(60)
      <4>2. Turned(turn, all, done)
        BY DEF Turned
      <4> QED
        BY <4>1, <4>2
    <3>4. turn.bought = TRUE \/ turn.bought = FALSE
      BY DEF Turned
    <3> HIDE DEF bid
    <3> QED
      BY <3>1, <3>2, <3>3, <3>4
  <2>2. Answered(turn, name, kind, states, candle)
          = IF "SELL" \in sides THEN Sell(bid, candle) ELSE bid
    BY <1>2, ZenonT(60) DEF Answered, DaySignals, Sides
  <2> HIDE DEF bid
  <2>3. /\ "SELL" \notin sides => Turned(bid, all, all)
        /\ "SELL" \in sides => Turned(Sell(bid, candle), all, all)
    BY <2>1, OfferKeeps
  <2> HIDE DEF all, sides
  <2> QED
    BY <2>2, <2>3 DEF all
<1> QED
  BY <1>1, <1>2

\* The answers of all the strategies.
AllAnswered(first) ==
  LET orb    == Answered(first, "ORB", kind, states, candle)
      vwap   == Answered(orb, "VWAP_BOUNCE", kind, states, candle)
      before == Answered(vwap, "PREV_DAY_BRK", kind, states, candle)
      gap    == Answered(before, "GAP_TRADE", kind, states, candle)
  IN Answered(gap, "ORDER_FLOW", kind, states, candle)

\* The five strategies one after the other.
LEMMA AllAnsweredKeeps ==
  ASSUME NEW first, WellKept(account), candle \in Candles, Turned(first, {}, {})
  PROVE  Turned(AllAnswered(first), DayStrategy, DayStrategy)
<1> DEFINE orb    == Answered(first, "ORB", kind, states, candle)
           vwap   == Answered(orb, "VWAP_BOUNCE", kind, states, candle)
           before == Answered(vwap, "PREV_DAY_BRK", kind, states, candle)
           gap    == Answered(before, "GAP_TRADE", kind, states, candle)
           last   == Answered(gap, "ORDER_FLOW", kind, states, candle)
           done1 == {} \cup {"ORB"}
           done2 == done1 \cup {"VWAP_BOUNCE"}
           done3 == done2 \cup {"PREV_DAY_BRK"}
           done4 == done3 \cup {"GAP_TRADE"}
           done5 == done4 \cup {"ORDER_FLOW"}
<1>1. Turned(orb, done1, done1)
  BY AnsweredKeeps
<1> HIDE DEF orb, done1
<1>2. Turned(vwap, done2, done2)
  BY <1>1, AnsweredKeeps
<1> HIDE DEF vwap, done2
<1>3. Turned(before, done3, done3)
  BY <1>2, AnsweredKeeps
<1> HIDE DEF before, done3
<1>4. Turned(gap, done4, done4)
  BY <1>3, AnsweredKeeps
<1> HIDE DEF gap, done4
<1>5. Turned(last, done5, done5)
  BY <1>4, AnsweredKeeps
<1>6. done5 = DayStrategy
  BY DEF done5, done4, done3, done2, done1, DayStrategy
<1>7. AllAnswered(first) = last
  BY DEF AllAnswered, last, gap, before, vwap, orb
<1> HIDE DEF last, done5
<1> QED
  BY <1>5, <1>6, <1>7

\* The strategies of the settings keep the account.
LEMMA ConfigKeeps ==
  ASSUME NEW a, WellKept(a), NEW k \in Candles, NEW sides
  PROVE  LET turn == ConfigSignals(Turn(a, FALSE), k, sides)
         IN /\ turn.bought \in BOOLEAN /\ Stepped(a, turn.account, k)
            /\ Counted(a, turn.account, turn.bought, k)
<1> DEFINE start == Turn(a, FALSE)
           bid == IF "BUY" \in Range(sides) THEN Buy(start, k) ELSE start
           turn == ConfigSignals(start, k, sides)
<1>1. start.account = a /\ start.bought = FALSE
  BY TurnFields
<1>2. Stepped(a, a, k) /\ Counted(a, a, FALSE, k)
  BY CandlePriced, StaysKept, NothingCounted
<1>3. /\ bid.bought \in BOOLEAN /\ Stepped(a, bid.account, k)
      /\ Counted(a, bid.account, bid.bought, k)
  <2>1. CASE bid = start
    BY <1>1, <1>2, <2>1
  <2>2. CASE bid = Turn(ExecuteBuy(a, k), TRUE)
    <3>1. Stepped(a, ExecuteBuy(a, k), k) /\ Counted(a, ExecuteBuy(a, k), TRUE, k)
      BY <1>2, BuyKeeps, BuyCounted
    <3> HIDE DEF bid
    <3> QED
      BY <2>2, <3>1, TurnFields
  <2>3. bid = start \/ bid = Turn(ExecuteBuy(a, k), TRUE)
    <3> HIDE DEF start
    <3>1. Buy(start, k) = start \/ Buy(start, k) = Turn(ExecuteBuy(start.account, k), TRUE)
      BY BuyIs
    <3> QED
      BY <1>1, <3>1
  <2> QED
    BY <2>1, <2>2, <2>3
<1>4. turn = bid \/ turn = Sell(bid, k)
  BY ZenonT(60) DEF ConfigSignals
<1> HIDE DEF bid, turn
<1>5. \/ Sell(bid, k) = bid
      \/ bid.bought = FALSE /\ Sell(bid, k) = Turn(ExecuteSell(bid.account, k), FALSE)
  BY <1>3, SellIs
<1>6. Stepped(a, ExecuteSell(bid.account, k), k)
  <2>1. k.code \in Code /\ k.close \in Nat /\ k.time \in Nat
    BY DEF Candles
  <2>2. WellKept(bid.account)
    BY <1>3 DEF Stepped
  <2>3. Stepped(bid.account, ExecuteSell(bid.account, k), k)
    BY <2>1, <2>2, SellKeeps
  <2> QED
    BY <1>3, <2>3, StepsJoin
<1>7. /\ turn.bought \in BOOLEAN /\ Stepped(a, turn.account, k)
      /\ Counted(a, turn.account, turn.bought, k)
  <2>1. CASE turn = bid
    BY <1>3, <2>1
  <2>2. CASE bid.bought = FALSE /\ turn = Turn(ExecuteSell(bid.account, k), FALSE)
    <3>1. Counted(a, bid.account, FALSE, k) /\ WellKept(bid.account)
      BY <1>3, <2>2 DEF Stepped
    <3>2. Counted(a, ExecuteSell(bid.account, k), FALSE, k)
      BY <3>1, SaleCounted
    <3> DEFINE b == ExecuteSell(bid.account, k)
    <3> HIDE DEF b
    <3>3. turn = Turn(b, FALSE) /\ Counted(a, b, FALSE, k) /\ Stepped(a, b, k)
      BY <1>6, <2>2, <3>2 DEF b
    <3>4. turn.account = b /\ turn.bought = FALSE
      BY <3>3, TurnFields
    <3> QED
      BY <3>3, <3>4
  <2> QED
    BY <1>4, <1>5, <2>1, <2>2
<1> QED
  BY <1>7 DEF turn

\* What the end of a turn makes of the account c: nothing, or what the triggers
\* leave of it.
Ended(a, b, c, bought, k) ==
  /\ Stepped(a, b, k)
  /\ Len(b.trades) <= Len(a.trades) + 2
  /\ bought = TRUE => b.positions = c.positions
  /\ bought = FALSE /\ k.code \in Holdings(b) =>
       k.code \in Holdings(c) /\ ~PastItsStop(b.positions[k.code], k.close)

\* The end of a turn: the triggers, and the equity.
LEMMA TurnEnds ==
  ASSUME NEW a, WellKept(a), NEW k \in Candles, NEW c, NEW bought \in BOOLEAN,
         Stepped(a, c, k), Counted(a, c, bought, k)
  PROVE  Ended(a, ReplayEquity(ReplayTriggers(c, k, bought), k), c, bought, k)
<1> DEFINE d == ReplayTriggers(c, k, bought)
           b == ReplayEquity(d, k)
<1>1. WellKept(c)
  BY DEF Stepped
<1>2. /\ Stepped(c, d, k) /\ Len(d.trades) <= Len(c.trades) + 1
      /\ bought = TRUE \/ k.code \notin Holdings(c) => d = c
      /\ bought = FALSE /\ k.code \in Holdings(d) =>
           k.code \in Holdings(c) /\ ~PastItsStop(d.positions[k.code], k.close)
  <2>1. CASE bought = TRUE
    <3>1. d = c
      BY <2>1, ZenonT(60) DEF ReplayTriggers
    <3>2. Stepped(c, c, k) /\ Len(c.trades) <= Len(c.trades) + 1
      <4> DEFINE n == Len(c.trades)
      <4>1. n \in Nat
        BY <1>1, AccountTypes DEF WellKept
      <4>2. n <= n + 1
        <5> HIDE DEF n
        <5> QED
          BY <4>1
      <4>3. Stepped(c, c, k)
        BY <1>1, CandlePriced, StaysKept
      <4> QED
        BY <4>2, <4>3
    <3> QED
      BY <2>1, <3>1, <3>2
  <2>2. CASE bought = FALSE
    <3>1. d = CheckRiskTriggers(c, k)
      BY <2>2, ZenonT(60) DEF ReplayTriggers
    <3> HIDE DEF d
    <3> QED
      BY <1>1, <2>2, <3>1, TriggersKeep
  <2> QED
    BY <2>1, <2>2
<1> HIDE DEF d
<1>3. Stepped(d, b, k) /\ b.positions = d.positions /\ b.trades = d.trades
  BY <1>2, RecordKeeps DEF Stepped, ReplayEquity
<1> HIDE DEF b
<1>4. Holdings(b) = Holdings(d)
  BY <1>3 DEF Holdings
<1>5. Stepped(a, d, k)
  BY <1>2, StepsJoin
<1>6. Stepped(a, b, k)
  BY <1>3, <1>5, StepsJoin
<1>7. Len(b.trades) <= Len(a.trades) + 2
  <2>1. Len(a.trades) \in Nat /\ Len(c.trades) \in Nat /\ Len(d.trades) \in Nat
    BY <1>1, <1>2, AccountTypes DEF WellKept, Stepped
  <2>2. CASE d = c
    BY <1>3, <2>2 DEF Counted
  <2>3. CASE d # c
    <3>1. Len(c.trades) = Len(a.trades)
      BY <1>2, <2>3 DEF Counted
    <3> QED
      BY <1>2, <1>3, <2>1, <3>1
  <2> QED
    BY <2>2, <2>3
<1> QED
  BY <1>2, <1>3, <1>4, <1>6, <1>7 DEF Ended, b, d

\* The replay of a candle in its parts.
LEMMA ReplayIs ==
  ASSUME NEW sides
  PROVE  LET turn == AllAnswered(ConfigSignals(Turn(account, FALSE), candle, sides))
         IN ReplayCandle(account, kind, states, candle, sides)
              = ReplayEquity(ReplayTriggers(turn.account, candle, turn.bought), candle)
BY ZenonT(60) DEF ReplayCandle, AllAnswered

\* With the strategies of the settings no day strategy answers.
LEMMA ConfigReplay ==
  ASSUME NEW sides, WellKept(account), candle \in Candles, kind = "config"
  PROVE  LET b == ReplayCandle(account, kind, states, candle, sides)
         IN Stepped(account, b, candle) /\ Len(b.trades) <= Len(account.trades) + 2
<1> DEFINE first == ConfigSignals(Turn(account, FALSE), candle, sides)
<1>1. /\ first.bought \in BOOLEAN /\ Stepped(account, first.account, candle)
      /\ Counted(account, first.account, first.bought, candle)
  BY ConfigKeeps
<1> HIDE DEF first
<1>2. \A n \in DayStrategy : n \notin Traders(kind)
  BY DEF Traders, DayStrategy
<1>3. AllAnswered(first) = first
  <2>1. /\ "ORB" \notin Traders(kind) /\ "VWAP_BOUNCE" \notin Traders(kind)
        /\ "PREV_DAY_BRK" \notin Traders(kind) /\ "GAP_TRADE" \notin Traders(kind)
        /\ "ORDER_FLOW" \notin Traders(kind)
    BY <1>2 DEF DayStrategy
  <2> QED
    BY <2>1, ZenonT(60) DEF AllAnswered, Answered
<1>4. ReplayCandle(account, kind, states, candle, sides)
        = ReplayEquity(ReplayTriggers(first.account, candle, first.bought), candle)
  BY <1>3, ReplayIs DEF first
<1> DEFINE b == ReplayEquity(ReplayTriggers(first.account, candle, first.bought), candle)
<1>5. Ended(account, b, first.account, first.bought, candle)
  BY <1>1, TurnEnds
<1> HIDE DEF b
<1>6. Stepped(account, b, candle) /\ Len(b.trades) <= Len(account.trades) + 2
  BY <1>5 DEF Ended
<1> QED
  BY <1>4, <1>6 DEF b

\* Whatever is held after a day strategies' candle was either bid for by one of
\* them, or held before, offered by none and not past its stop.
LEMMA DayReplay ==
  ASSUME WellKept(account), candle \in Candles
  PROVE  LET b == ReplayCandle(account, kind, states, candle, <<>>)
             code == candle.code
         IN /\ Stepped(account, b, candle)
            /\ Len(b.trades) <= Len(account.trades) + 2
            /\ code \in Holdings(b) =>
                 \/ /\ \E n \in DayStrategy : n \in Traders(kind) /\ "BUY" \in Sides(n)
                    /\ code \notin Holdings(account) => Fresh(b.positions[code])
                 \/ /\ code \in Holdings(account)
                    /\ \A n \in DayStrategy : n \in Traders(kind) => "SELL" \notin Sides(n)
                    /\ ~PastItsStop(b.positions[code], candle.close)
<1> DEFINE start == Turn(account, FALSE)
           turn == AllAnswered(start)
           b == ReplayEquity(ReplayTriggers(turn.account, candle, turn.bought), candle)
           code == candle.code
<1>1. ConfigSignals(start, candle, <<>>) = start
  <2>1. Range(<<>>) = {}
    BY DEF Range
  <2> QED
    BY <2>1 DEF ConfigSignals
<1>2. Turned(start, {}, {})
  <2>1. start.account = account /\ start.bought = FALSE
    BY TurnFields
  <2>2. Stepped(account, account, candle) /\ Counted(account, account, FALSE, candle)
    BY CandlePriced, StaysKept, NothingCounted
  <2> HIDE DEF start
  <2> QED
    BY <2>1, <2>2 DEF Turned
<1> HIDE DEF start
<1>3. Turned(turn, DayStrategy, DayStrategy)
  BY <1>2, AllAnsweredKeeps
<1>4. ReplayCandle(account, kind, states, candle, <<>>) = b
  BY <1>1, ReplayIs DEF start
<1> HIDE DEF turn
<1>5. /\ Stepped(account, b, candle) /\ Len(b.trades) <= Len(account.trades) + 2
      /\ turn.bought = TRUE => b.positions = turn.account.positions
      /\ turn.bought = FALSE /\ code \in Holdings(b) =>
           /\ code \in Holdings(turn.account)
           /\ ~PastItsStop(b.positions[code], candle.close)
  <2>1. /\ turn.bought \in BOOLEAN /\ Stepped(account, turn.account, candle)
        /\ Counted(account, turn.account, turn.bought, candle)
    BY <1>3 DEF Turned
  <2>2. Ended(account, b, turn.account, turn.bought, candle)
    BY <2>1, TurnEnds
  <2> HIDE DEF b, turn
  <2> QED
    BY <2>2 DEF Ended
<1> HIDE DEF b
<1>6. ASSUME code \in Holdings(b), turn.bought = TRUE
      PROVE  /\ \E n \in DayStrategy : n \in Traders(kind) /\ "BUY" \in Sides(n)
             /\ code \notin Holdings(account) => Fresh(b.positions[code])
  <2>1. code \in Holdings(turn.account) /\ b.positions = turn.account.positions
    BY <1>5, <1>6 DEF Holdings
  <2> QED
    BY <1>3, <1>6, <2>1 DEF Turned
<1>7. ASSUME code \in Holdings(b), turn.bought = FALSE
      PROVE  /\ code \in Holdings(account)
             /\ \A n \in DayStrategy : n \in Traders(kind) => "SELL" \notin Sides(n)
             /\ ~PastItsStop(b.positions[code], candle.close)
  BY <1>3, <1>5, <1>7 DEF Turned
<1>8. turn.bought = TRUE \/ turn.bought = FALSE
  BY <1>3 DEF Turned
<1> HIDE DEF code
<1> QED
  BY <1>4, <1>5, <1>6, <1>7, <1>8 DEF code

-----------------------------------------------------------------------------
(* What the day strategies believe *)

\* An answer enters only from outside and before two, and without a sale who is
\* inside stays so, and it is before two.
Sound(st, answer, k, all) ==
  /\ answer.state \in all
  /\ "BUY" \in answer.sides =>
       st.inside = FALSE /\ answer.state.inside = TRUE /\ k.time < Two
  /\ "SELL" \notin answer.sides /\ st.inside = TRUE =>
       answer.state.inside = TRUE /\ k.time < Two

\* What a state that does not enter, and one that does, make of the one before.
Stays(st, new, k)  == st.inside = TRUE => new.inside = TRUE /\ k.time < Two
Enters(st, new, k) == st.inside = FALSE /\ new.inside = TRUE /\ k.time < Two

\* The three kinds of answers are sound.
LEMMA NothingSound ==
  ASSUME NEW st, NEW new, NEW k, NEW all, new \in all, Stays(st, new, k)
  PROVE  Sound(st, Nothing(new), k, all)
BY DEF Sound, Nothing, Answer, Stays

LEMMA LeavesSound ==
  ASSUME NEW st, NEW new, NEW k, NEW all, [new EXCEPT !.inside = FALSE] \in all
  PROVE  Sound(st, Leaves(new), k, all)
BY DEF Sound, Leaves, Answer

LEMMA BuysSound ==
  ASSUME NEW st, NEW new, NEW k, NEW all, new \in all, Enters(st, new, k)
  PROVE  Sound(st, Answer(new, {"BUY"}), k, all)
BY DEF Sound, Answer, Enters

\* Each strategy of its own: the opening range breakout,
LEMMA ORBSound ==
  ASSUME NEW st \in StateSet("ORB"), NEW k \in Candles
  PROVE  Sound(st, OnCandleORB(st, k), k, StateSet("ORB"))
<1> DEFINE ORBs == [high : Nat, low : Nat, traded : BOOLEAN, inside : BOOLEAN]
           all == StateSet("ORB")
<1>1. st \in ORBs /\ (st.inside = TRUE => st.traded = TRUE /\ st.high > 0)
  BY DEF StateSet
<1>2. \A x \in ORBs : (x.inside = TRUE => x.traded = TRUE /\ x.high > 0) => x \in all
  BY DEF StateSet
<1>3. k.high \in Nat /\ k.low \in Nat /\ k.time \in Nat
  BY DEF Candles
<1>4. Two = 300 /\ HalfPast = 30
  BY DEF Two, HalfPast
<1>5. CASE k.time < HalfPast
  <2> DEFINE low == IF st.high = 0 THEN k.low ELSE Bottom(st.low, k.low)
             new == [st EXCEPT !.high = Top(st.high, k.high), !.low = low]
  <2>1. OnCandleORB(st, k) = Nothing(new)
    <3> DEFINE Out == /\ k.time >= HalfPast /\ st.high > 0 /\ st.traded /\ st.inside
                      /\ k.time >= Two
               Bids == k.time >= HalfPast /\ st.high > 0 /\ ~st.traded /\ k.time < Two
                         /\ 1000 * k.close > 1001 * st.high
               in == [st EXCEPT !.traded = TRUE, !.inside = TRUE]
    <3>1. ~Out /\ ~Bids
      BY <1>3, <1>4, <1>5
    <3>2. OnCandleORB(st, k) =
            CASE k.time < HalfPast -> Nothing(new)
              [] Out -> Leaves(st)
              [] Bids -> Answer(in, {"BUY"})
              [] OTHER -> Nothing(st)
      BY DEF OnCandleORB
    <3> HIDE DEF new, in, Bids, Out
    <3> QED
      BY <1>5, <3>1, <3>2, ZenonT(60)
  <2>2. low \in Nat /\ Top(st.high, k.high) \in Nat /\ Top(st.high, k.high) >= st.high
    BY <1>1, <1>3 DEF Bottom, Top
  <2> HIDE DEF low
  <2>3. new \in ORBs /\ new.inside = st.inside /\ new.traded = st.traded /\ new.high >= st.high
    BY <1>1, <2>2
  <2> HIDE DEF new
  <2>4. new \in all
    BY <1>1, <1>2, <2>3
  <2>5. Stays(st, new, k)
    BY <1>3, <1>4, <1>5, <2>3 DEF Stays
  <2> QED
    BY <2>1, <2>4, <2>5, NothingSound
<1>6. CASE ~(k.time < HalfPast)
  <2>0. k.time >= HalfPast
    BY <1>3, <1>4, <1>6
  <2>1. CASE st.inside = TRUE /\ k.time >= Two
    <3> DEFINE new == [st EXCEPT !.inside = FALSE]
    <3>1. OnCandleORB(st, k) = Leaves(st)
      BY <1>1, <1>6, <2>0, <2>1, ZenonT(60) DEF OnCandleORB
    <3>2. new \in ORBs /\ new.inside = FALSE
      BY <1>1
    <3>3. new \in all
      BY <1>2, <3>2
    <3> QED
      BY <3>1, <3>3, LeavesSound
  <2>2. CASE st.inside = TRUE /\ ~(k.time >= Two)
    <3>1. OnCandleORB(st, k) = Nothing(st)
      BY <1>1, <1>6, <2>2, ZenonT(60) DEF OnCandleORB
    <3>2. Stays(st, st, k)
      BY <1>3, <1>4, <2>2 DEF Stays
    <3> QED
      BY <3>1, <3>2, NothingSound
  <2>3. CASE st.inside = FALSE
    <3> DEFINE new == [st EXCEPT !.traded = TRUE, !.inside = TRUE]
               Out == /\ k.time >= HalfPast /\ st.high > 0 /\ st.traded /\ st.inside
                      /\ k.time >= Two
               Bids == k.time >= HalfPast /\ st.high > 0 /\ ~st.traded /\ k.time < Two
                         /\ 1000 * k.close > 1001 * st.high
    <3>1. CASE Bids
      <4>1. OnCandleORB(st, k) = Answer(new, {"BUY"})
        <5>1. ~Out
          BY <2>3
        <5>2. OnCandleORB(st, k) =
                CASE k.time < HalfPast ->
                       Nothing([st EXCEPT !.high = Top(@, k.high),
                                          !.low = IF st.high = 0 THEN k.low
                                                  ELSE Bottom(@, k.low)])
                  [] Out -> Leaves(st)
                  [] Bids -> Answer(new, {"BUY"})
                  [] OTHER -> Nothing(st)
          BY DEF OnCandleORB
        <5> HIDE DEF new, Bids, Out
        <5> QED
          BY <1>6, <3>1, <5>1, <5>2, ZenonT(60)
      <4>2. new \in ORBs /\ new.inside = TRUE /\ new.traded = TRUE /\ new.high > 0
        BY <1>1, <3>1, ZenonT(60)
      <4>3. new \in all
        BY <1>2, <4>2
      <4>4. Enters(st, new, k)
        BY <2>3, <3>1, <4>2 DEF Enters
      <4> QED
        BY <4>1, <4>3, <4>4, BuysSound
    <3>2. CASE ~Bids
      <4>1. OnCandleORB(st, k) = Nothing(st)
        BY <1>6, <2>3, <3>2, ZenonT(60) DEF OnCandleORB
      <4>2. Stays(st, st, k)
        BY <2>3 DEF Stays
      <4> QED
        BY <4>1, <4>2, NothingSound
    <3> QED
      BY <3>1, <3>2
  <2> QED
    BY <1>1, <2>1, <2>2, <2>3
<1> QED
  BY <1>5, <1>6

\* the gap trade,
LEMMA GapSound ==
  ASSUME NEW st \in StateSet("GAP_TRADE"), NEW k \in Candles
  PROVE  Sound(st, OnCandleGap(st, k), k, StateSet("GAP_TRADE"))
<1> DEFINE all == StateSet("GAP_TRADE")
           gap == IF st.gap = "unknown" THEN GapOf(k) ELSE st.gap
           now == [st EXCEPT !.gap = gap]
           in == [now EXCEPT !.traded = TRUE, !.inside = TRUE]
           out == [now EXCEPT !.inside = FALSE]
           Bids == /\ ~now.inside /\ ~now.traded
                   /\ k.time >= Ten /\ k.time < Eleven
                   /\ now.gap = "down" /\ 1000 * k.close < 995 * PrevClose[k.code]
           Out == k.close >= PrevClose[k.code] \/ k.time >= Two
<1> DEFINE Gap == {"unknown", "down", "up", "none"}
           Gaps == [gap : Gap, traded : BOOLEAN, inside : BOOLEAN]
<1>1. all = Gaps
  BY DEF StateSet
<1>0. st \in Gaps
  BY <1>1
<1> HIDE DEF all, Gap
<1>2. gap \in Gap
  <2>1. GapOf(k) \in Gap
    BY DEF GapOf, Gap
  <2> QED
    BY <1>0, <2>1
<1> HIDE DEF gap
<1>3. /\ now \in all /\ now.inside = st.inside
      /\ in \in all /\ in.inside = TRUE /\ out \in all
  <2>1. now \in Gaps /\ now.inside = st.inside
    BY <1>0, <1>2
  <2> HIDE DEF now
  <2>2. in \in Gaps /\ in.inside = TRUE /\ out \in Gaps
    BY <2>1
  <2> QED
    BY <1>1, <2>1, <2>2
<1>4. k.time \in Nat /\ Two = 300 /\ Eleven = 120
  BY DEF Candles, Two, Eleven
<1>5. OnCandleGap(st, k) =
        CASE now.inside -> IF Out THEN Leaves(now) ELSE Nothing(now)
          [] Bids -> Answer(in, {"BUY"})
          [] OTHER -> Nothing(now)
  BY DEF OnCandleGap, gap
<1>6. ASSUME st.inside = TRUE PROVE Sound(st, OnCandleGap(st, k), k, all)
  <2>1. OnCandleGap(st, k) = IF Out THEN Leaves(now) ELSE Nothing(now)
    <3>1. now.inside
      BY <1>3, <1>6
    <3>2. ~Bids
      BY <3>1
    <3> HIDE DEF now, Bids, Out
    <3> QED
      BY <1>5, <3>1, <3>2, ZenonT(60)
  <2> HIDE DEF now
  <2>2. CASE Out
    BY <1>3, <2>1, <2>2, LeavesSound
  <2>3. CASE ~Out
    <3>1. Stays(st, now, k)
      BY <1>3, <1>4, <1>6, <2>3 DEF Stays
    <3> QED
      BY <1>3, <2>1, <2>3, <3>1, NothingSound
  <2> QED
    BY <2>2, <2>3
<1>7. ASSUME st.inside = FALSE PROVE Sound(st, OnCandleGap(st, k), k, all)
  <2>1. ~now.inside
    BY <1>3, <1>7
  <2>2. CASE Bids
    <3>1. Enters(st, in, k)
      BY <1>3, <1>4, <1>7, <2>2 DEF Enters
    <3>2. OnCandleGap(st, k) = Answer(in, {"BUY"})
      <4> HIDE DEF now, in, Bids, Out
      <4> QED
        BY <1>5, <2>1, <2>2, ZenonT(60)
    <3> HIDE DEF now, in
    <3> QED
      BY <1>3, <3>1, <3>2, BuysSound
  <2>3. CASE ~Bids
    <3>1. Stays(st, now, k)
      BY <1>7 DEF Stays
    <3>2. OnCandleGap(st, k) = Nothing(now)
      <4> HIDE DEF now, in, Bids, Out
      <4> QED
        BY <1>5, <2>1, <2>3, ZenonT(60)
    <3> HIDE DEF now
    <3> QED
      BY <1>3, <3>1, <3>2, NothingSound
  <2> QED
    BY <2>2, <2>3
<1> QED
  BY <1>0, <1>6, <1>7 DEF all

\* the bounce off the average price,
LEMMA VWAPSound ==
  ASSUME NEW st \in StateSet("VWAP_BOUNCE"), NEW k \in Candles
  PROVE  Sound(st, OnCandleVWAP(st, k), k, StateSet("VWAP_BOUNCE"))
<1> DEFINE all == StateSet("VWAP_BOUNCE")
           VWAPs == [pv : Nat, vol : Nat, below : BOOLEAN, count : Nat, inside : BOOLEAN,
                     entry : Nat]
           pv == st.pv + (k.high + k.low + k.close) * k.volume
           vol == st.vol + k.volume
           now == [st EXCEPT !.pv = pv, !.vol = vol]
           low == [now EXCEPT !.below = TRUE]
           in == [now EXCEPT !.below = FALSE, !.count = now.count + 1, !.inside = TRUE,
                             !.entry = k.close]
           out == [now EXCEPT !.inside = FALSE]
           above == 3 * now.vol * k.close - now.pv
           Out == Gained(now, k, 5) \/ Lost(now, k, 3) \/ k.time >= Two
           Done == now.count >= 3 \/ k.time >= Two
           Low == 1000 * above < -(3 * now.pv)
           Bids == now.below /\ above > 0
<1>1. st \in VWAPs /\ (st.inside = TRUE => st.vol > 0)
  BY DEF StateSet
<1>2. \A x \in VWAPs : (x.inside = TRUE => x.vol > 0) => x \in all
  BY DEF StateSet
<1>3. k.time \in Nat /\ k.close \in Nat /\ k.volume \in Nat /\ Two = 300
  BY DEF Candles, Two
<1>4. pv \in Nat /\ vol \in Nat /\ vol >= st.vol
  <2>1. (k.high + k.low + k.close) \in Nat
    BY DEF Candles
  <2>2. (k.high + k.low + k.close) * k.volume \in Nat
    BY <1>3, <2>1, Product
  <2> QED
    BY <1>1, <1>3, <2>2
<1> HIDE DEF pv, vol, all
<1>5. now \in VWAPs /\ now.inside = st.inside /\ now.vol = vol
  BY <1>1, <1>4
<1>6. OnCandleVWAP(st, k) =
        CASE now.vol = 0 -> Nothing(now)
          [] now.vol > 0 /\ now.inside -> IF Out THEN Leaves(now) ELSE Nothing(now)
          [] now.vol > 0 /\ ~now.inside /\ Done -> Nothing(now)
          [] OTHER -> IF Low THEN Nothing(low)
                      ELSE IF Bids THEN Answer(in, {"BUY"}) ELSE Nothing(now)
  BY DEF OnCandleVWAP, VWAPUpdated, pv, vol
<1>7. /\ low \in VWAPs /\ low.inside = now.inside /\ low.vol = now.vol
      /\ in \in VWAPs /\ in.inside = TRUE /\ in.vol = now.vol
      /\ out \in VWAPs /\ out.inside = FALSE
  <2> DEFINE count == now.count + 1
             close == k.close
  <2> HIDE DEF now
  <2>1. count \in Nat /\ close \in Nat
    BY <1>3, <1>5
  <2> HIDE DEF count, close
  <2>2. in = [now EXCEPT !.below = FALSE, !.count = count, !.inside = TRUE, !.entry = close]
    BY DEF count, close
  <2>3. in \in VWAPs /\ in.inside = TRUE /\ in.vol = now.vol
    BY <1>5, <2>1, <2>2
  <2>4. /\ low \in VWAPs /\ low.inside = now.inside /\ low.vol = now.vol
        /\ out \in VWAPs /\ out.inside = FALSE
    BY <1>5
  <2> QED
    BY <2>3, <2>4
<1>8. now \in all /\ low \in all /\ out \in all /\ (now.vol > 0 => in \in all)
  <2>1. now.inside = TRUE => now.vol > 0
    BY <1>1, <1>4, <1>5
  <2> HIDE DEF now, low, in, out
  <2> QED
    BY <1>2, <1>5, <1>7, <2>1
<1>9. now.vol \in Nat
  BY <1>4, <1>5
<1> HIDE DEF low, Low, Done, Bids
<1>10. ASSUME st.inside = TRUE PROVE Sound(st, OnCandleVWAP(st, k), k, all)
  <2>1. now.inside /\ now.vol > 0 /\ ~(now.vol = 0)
    BY <1>1, <1>4, <1>5, <1>10
  <2>2. OnCandleVWAP(st, k) = IF Out THEN Leaves(now) ELSE Nothing(now)
    <3> HIDE DEF now, in, Out
    <3> QED
      BY <1>6, <2>1, ZenonT(60)
  <2>3. CASE Out
    <3>1. OnCandleVWAP(st, k) = Leaves(now)
      BY <2>2, <2>3
    <3> HIDE DEF now
    <3> QED
      BY <1>8, <3>1, LeavesSound
  <2>4. CASE ~Out
    <3>1. Stays(st, now, k)
      BY <1>3, <1>5, <1>10, <2>4 DEF Stays
    <3>2. OnCandleVWAP(st, k) = Nothing(now)
      BY <2>2, <2>4
    <3> HIDE DEF now
    <3> QED
      BY <1>8, <3>1, <3>2, NothingSound
  <2> QED
    BY <2>3, <2>4
<1>11. ASSUME st.inside = FALSE PROVE Sound(st, OnCandleVWAP(st, k), k, all)
  <2>1. ~now.inside
    BY <1>5, <1>11
  <2>2. Stays(st, now, k) /\ Stays(st, low, k)
    BY <1>11 DEF Stays
  <2>3. /\ OnCandleVWAP(st, k) = Nothing(now) \/ OnCandleVWAP(st, k) = Nothing(low)
           \/ (now.vol > 0 /\ ~Done /\ OnCandleVWAP(st, k) = Answer(in, {"BUY"}))
    <3>1. now.vol = 0 \/ now.vol > 0
      BY <1>9
    <3>2. now.vol = 0 => ~(now.vol > 0)
      BY <1>9
    <3> HIDE DEF now, in, Out
    <3> QED
      BY <1>6, <2>1, <3>1, <3>2, ZenonT(60)
  <2> HIDE DEF now, in
  <2>4. CASE OnCandleVWAP(st, k) = Nothing(now)
    BY <1>8, <2>2, <2>4, NothingSound
  <2>5. CASE OnCandleVWAP(st, k) = Nothing(low)
    BY <1>8, <2>2, <2>5, NothingSound
  <2>6. CASE now.vol > 0 /\ ~Done /\ OnCandleVWAP(st, k) = Answer(in, {"BUY"})
    <3>1. Enters(st, in, k)
      BY <1>3, <1>7, <1>11, <2>6 DEF Enters, Done
    <3> QED
      BY <1>8, <2>6, <3>1, BuysSound
  <2> QED
    BY <2>3, <2>4, <2>5, <2>6
<1> QED
  BY <1>1, <1>10, <1>11 DEF all

\* The volumes a strategy looks back on.
LEMMA WindowTypes ==
  ASSUME NEW s \in Seq(Nat), NEW v \in Nat, NEW n \in Nat
  PROVE  Window(Append(s, v), n) \in Seq(Nat)
<1>1. Append(s, v) \in Seq(Nat) /\ Len(Append(s, v)) = Len(s) + 1
  OBVIOUS
<1> DEFINE more == Append(s, v)
<1> HIDE DEF more
<1>2. more \in Seq(Nat) /\ Len(more) # 0
  BY <1>1 DEF more
<1>3. more # <<>>
  BY <1>2
<1>4. Tail(more) \in Seq(Nat)
  BY <1>2, <1>3
<1> QED
  BY <1>1, <1>4 DEF Window, more

\* the order flow,
LEMMA FlowSound ==
  ASSUME NEW st \in StateSet("ORDER_FLOW"), NEW k \in Candles
  PROVE  Sound(st, OnCandleFlow(st, k), k, StateSet("ORDER_FLOW"))
<1> DEFINE all == StateSet("ORDER_FLOW")
           Flows == [buy : Seq(Nat), sell : Seq(Nat), count : Nat, inside : BOOLEAN,
                     entry : Nat]
           up == IF k.close >= k.open THEN k.volume ELSE 0
           down == IF k.close >= k.open THEN 0 ELSE k.volume
           buy == Window(Append(st.buy, up), 10)
           sell == Window(Append(st.sell, down), 10)
           now == [st EXCEPT !.buy = buy, !.sell = sell]
           in == [now EXCEPT !.count = now.count + 1, !.inside = TRUE, !.entry = k.close]
           out == [now EXCEPT !.inside = FALSE]
           Out == Gained(now, k, 4) \/ Lost(now, k, 3) \/ k.time >= Two
           Bids == /\ ~now.inside /\ now.count < 2 /\ k.time < Two
                   /\ Total(now.sell) > 0 /\ 2 * Total(now.buy) >= 3 * Total(now.sell)
<1>1. all = Flows
  BY DEF StateSet
<1>2. st \in Flows
  BY <1>1
<1>3. k.time \in Nat /\ k.close \in Nat /\ k.volume \in Nat /\ Two = 300
  BY DEF Candles, Two
<1>4. buy \in Seq(Nat) /\ sell \in Seq(Nat)
  <2>1. st.buy \in Seq(Nat) /\ st.sell \in Seq(Nat) /\ up \in Nat /\ down \in Nat
    BY <1>2, <1>3
  <2> QED
    BY <2>1, WindowTypes
<1>5. OnCandleFlow(st, k) =
        CASE now.inside -> IF Out THEN Leaves(now) ELSE Nothing(now)
          [] Bids -> Answer(in, {"BUY"})
          [] OTHER -> Nothing(now)
  BY DEF OnCandleFlow, FlowUpdated
<1> HIDE DEF buy, sell, all
<1>6. /\ now \in all /\ now.inside = st.inside
      /\ in \in all /\ in.inside = TRUE /\ out \in all
  <2>1. now \in Flows /\ now.inside = st.inside
    BY <1>2, <1>4
  <2> HIDE DEF now
  <2> DEFINE count == now.count + 1
             close == k.close
  <2>2. count \in Nat /\ close \in Nat
    BY <1>3, <2>1
  <2> HIDE DEF count, close
  <2>3. in = [now EXCEPT !.count = count, !.inside = TRUE, !.entry = close]
    BY DEF count, close
  <2>4. in \in Flows /\ in.inside = TRUE
    BY <2>1, <2>2, <2>3
  <2>5. out \in Flows
    BY <2>1
  <2> QED
    BY <1>1, <2>1, <2>4, <2>5
<1>7. ASSUME st.inside = TRUE PROVE Sound(st, OnCandleFlow(st, k), k, all)
  <2>1. OnCandleFlow(st, k) = IF Out THEN Leaves(now) ELSE Nothing(now)
    <3>1. now.inside
      BY <1>6, <1>7
    <3>2. ~Bids
      BY <3>1
    <3> HIDE DEF now, in, Bids, Out
    <3> QED
      BY <1>5, <3>1, <3>2, ZenonT(60)
  <2> HIDE DEF now
  <2>2. CASE Out
    BY <1>6, <2>1, <2>2, LeavesSound
  <2>3. CASE ~Out
    <3>1. Stays(st, now, k)
      BY <1>3, <1>6, <1>7, <2>3 DEF Stays
    <3> QED
      BY <1>6, <2>1, <2>3, <3>1, NothingSound
  <2> QED
    BY <2>2, <2>3
<1>8. ASSUME st.inside = FALSE PROVE Sound(st, OnCandleFlow(st, k), k, all)
  <2>1. ~now.inside
    BY <1>6, <1>8
  <2>2. CASE Bids
    <3>1. Enters(st, in, k)
      BY <1>6, <1>8, <2>2 DEF Enters
    <3>2. OnCandleFlow(st, k) = Answer(in, {"BUY"})
      <4> HIDE DEF now, in, Bids, Out
      <4> QED
        BY <1>5, <2>1, <2>2, ZenonT(60)
    <3> HIDE DEF now, in
    <3> QED
      BY <1>6, <3>1, <3>2, BuysSound
  <2>3. CASE ~Bids
    <3>1. Stays(st, now, k)
      BY <1>8 DEF Stays
    <3>2. OnCandleFlow(st, k) = Nothing(now)
      <4> HIDE DEF now, in, Bids, Out
      <4> QED
        BY <1>5, <2>1, <2>3, ZenonT(60)
    <3> HIDE DEF now
    <3> QED
      BY <1>6, <3>1, <3>2, NothingSound
  <2> QED
    BY <2>2, <2>3
<1> QED
  BY <1>2, <1>7, <1>8 DEF all

\* and the breakout of the day before, which never buys what it sells at once,
\* because the highest price of a day is none below its lowest.
LEMMA PrevDaySound ==
  ASSUME NEW st \in StateSet("PREV_DAY_BRK"), NEW k \in Candles
  PROVE  Sound(st, OnCandlePrevDay(st, k), k, StateSet("PREV_DAY_BRK"))
<1> DEFINE all == StateSet("PREV_DAY_BRK")
           PrevDays == [vols : Seq(Nat), traded : BOOLEAN, inside : BOOLEAN]
           vols == Window(Append(st.vols, k.volume), 20)
           now == [st EXCEPT !.vols = vols]
           in == [now EXCEPT !.traded = TRUE, !.inside = TRUE]
           out == [now EXCEPT !.inside = FALSE]
           Buys == /\ k.close > PrevHigh[k.code]
                   /\ 2 * Len(now.vols) * k.volume > 3 * Total(now.vols)
           bid == IF Buys THEN in ELSE now
           drops == bid.inside /\ k.close < PrevLow[k.code]
           last == [bid EXCEPT !.inside = bid.inside /\ ~drops]
           sides == (IF Buys THEN {"BUY"} ELSE {}) \cup (IF drops THEN {"SELL"} ELSE {})
<1>1. st \in PrevDays /\ (st.inside = TRUE => st.traded = TRUE)
  BY DEF StateSet
<1>2. \A x \in PrevDays : (x.inside = TRUE => x.traded = TRUE) => x \in all
  BY DEF StateSet
<1>3. /\ k.time \in Nat /\ k.close \in Nat /\ k.volume \in Nat /\ k.code \in Code
      /\ Two = 300 /\ Ten = 10
  BY DEF Candles, Two, Ten
<1>4. vols \in Seq(Nat)
  BY <1>1, <1>3, WindowTypes
<1>5. OnCandlePrevDay(st, k) =
        CASE k.time < Ten -> Nothing(st)
          [] k.time >= Two /\ now.inside -> Leaves(now)
          [] k.time >= Two /\ ~now.inside -> Nothing(now)
          [] k.time >= Ten /\ k.time < Two /\ now.traded -> Nothing(now)
          [] OTHER -> Answer(last, sides)
  BY DEF OnCandlePrevDay
<1> HIDE DEF vols, all
<1>6. /\ now \in PrevDays /\ now.inside = st.inside /\ now.traded = st.traded
  BY <1>1, <1>4
<1> HIDE DEF now
<1>7. /\ in \in PrevDays /\ in.inside = TRUE /\ in.traded = TRUE
      /\ out \in PrevDays /\ out.inside = FALSE
  BY <1>6
<1> HIDE DEF in
<1>8. now \in all /\ in \in all /\ out \in all /\ st \in all
  <2> HIDE DEF out
  <2> QED
    BY <1>1, <1>2, <1>6, <1>7
<1> HIDE DEF Buys
<1>9. ASSUME st.traded = FALSE
      PROVE  \/ Buys /\ last = in /\ sides = {"BUY"}
             \/ ~Buys /\ last = now /\ sides = {}
  <2>1. ASSUME Buys PROVE last = in /\ sides = {"BUY"}
    <3>1. bid = in
      BY <2>1
    <3>2. ~(k.close < PrevLow[k.code])
      BY <1>3, <2>1, DayBeforeAssumption DEF Buys
    <3>3. ~drops
      BY <3>2
    <3>4. (bid.inside /\ ~drops) = TRUE
      BY <1>7, <3>1, <3>3
    <3> HIDE DEF bid, drops
    <3>5. last = [in EXCEPT !.inside = TRUE]
      BY <3>1, <3>4
    <3> QED
      BY <1>7, <2>1, <3>3, <3>5
  <2>2. ASSUME ~Buys PROVE last = now /\ sides = {}
    <3>1. bid = now
      BY <2>2
    <3>2. now.inside = FALSE
      BY <1>1, <1>6, <1>9
    <3>3. (bid.inside /\ ~drops) = FALSE /\ ~drops
      BY <3>1, <3>2
    <3> HIDE DEF bid, drops
    <3>4. last = [now EXCEPT !.inside = FALSE]
      BY <3>1, <3>3
    <3> QED
      BY <1>6, <2>2, <3>2, <3>3, <3>4
  <2> HIDE DEF last, sides
  <2> QED
    BY <2>1, <2>2, ZenonT(60)
<1> HIDE DEF last, sides
<1>10. CASE k.time < Ten
  <2>1. OnCandlePrevDay(st, k) = Nothing(st)
    <3>1. ~(k.time >= Two) /\ ~(k.time >= Ten)
      BY <1>3, <1>10
    <3> QED
      BY <1>5, <1>10, <3>1, ZenonT(60)
  <2>2. Stays(st, st, k)
    BY <1>3, <1>10 DEF Stays
  <2>3. Sound(st, Nothing(st), k, all)
    BY <1>8, <2>2, NothingSound
  <2> QED
    BY <2>1, <2>3 DEF all
<1>11. CASE k.time >= Two
  <2>1. ~(k.time < Ten) /\ ~(k.time < Two)
    BY <1>3, <1>11
  <2>2. CASE st.inside = TRUE
    <3>1. now.inside
      BY <1>6, <2>2
    <3>2. OnCandlePrevDay(st, k) = Leaves(now)
      BY <1>5, <1>11, <2>1, <3>1, ZenonT(60)
    <3>3. Sound(st, Leaves(now), k, all)
      BY <1>8, LeavesSound
    <3> QED
      BY <3>2, <3>3 DEF all
  <2>3. CASE st.inside = FALSE
    <3>1. ~now.inside
      BY <1>6, <2>3
    <3>2. OnCandlePrevDay(st, k) = Nothing(now)
      BY <1>5, <1>11, <2>1, <3>1, ZenonT(60)
    <3>3. Stays(st, now, k)
      BY <2>3 DEF Stays
    <3>4. Sound(st, Nothing(now), k, all)
      BY <1>8, <3>3, NothingSound
    <3> QED
      BY <3>2, <3>4 DEF all
  <2> QED
    BY <1>1, <2>2, <2>3
<1>12. CASE k.time >= Ten /\ k.time < Two
  <2>1. ~(k.time < Ten) /\ ~(k.time >= Two)
    BY <1>3, <1>12
  <2>2. CASE st.traded = TRUE
    <3>1. now.traded
      BY <1>6, <2>2
    <3>2. OnCandlePrevDay(st, k) = Nothing(now)
      BY <1>5, <1>12, <2>1, <3>1, ZenonT(60)
    <3>3. Stays(st, now, k)
      BY <1>6, <1>12 DEF Stays
    <3>4. Sound(st, Nothing(now), k, all)
      BY <1>8, <3>3, NothingSound
    <3> QED
      BY <3>2, <3>4 DEF all
  <2>3. CASE st.traded = FALSE
    <3>1. ~now.traded
      BY <1>6, <2>3
    <3>2. OnCandlePrevDay(st, k) = Answer(last, sides)
      BY <1>5, <1>12, <2>1, <3>1, ZenonT(60)
    <3>3. st.inside = FALSE
      BY <1>1, <2>3
    <3>4. CASE last = in /\ sides = {"BUY"}
      <4>1. Enters(st, in, k)
        BY <1>7, <1>12, <3>3 DEF Enters
      <4>2. Sound(st, Answer(in, {"BUY"}), k, all)
        BY <1>8, <4>1, BuysSound
      <4> QED
        BY <3>2, <3>4, <4>2 DEF all
    <3>5. CASE last = now /\ sides = {}
      <4>1. Stays(st, now, k)
        BY <3>3 DEF Stays
      <4>2. Sound(st, Nothing(now), k, all)
        BY <1>8, <4>1, NothingSound
      <4> QED
        BY <3>2, <3>5, <4>2 DEF all, Nothing
    <3> QED
      BY <1>9, <2>3, <3>4, <3>5
  <2> QED
    BY <1>1, <2>2, <2>3
<1> QED
  BY <1>3, <1>10, <1>11, <1>12

\* Every strategy's answer is sound.
LEMMA AnswersSound ==
  ASSUME NEW n \in DayStrategy, NEW st \in StateSet(n), NEW k \in Candles
  PROVE  Sound(st, OnCandle(n, st, k), k, StateSet(n))
<1>1. CASE n = "ORB"
  BY <1>1, ORBSound DEF OnCandle
<1>2. CASE n = "VWAP_BOUNCE"
  BY <1>2, VWAPSound DEF OnCandle
<1>3. CASE n = "PREV_DAY_BRK"
  BY <1>3, PrevDaySound DEF OnCandle
<1>4. CASE n = "GAP_TRADE"
  BY <1>4, GapSound DEF OnCandle
<1>5. CASE n = "ORDER_FLOW"
  BY <1>5, FlowSound DEF OnCandle
<1> QED
  BY <1>1, <1>2, <1>3, <1>4, <1>5 DEF DayStrategy

-----------------------------------------------------------------------------
(* The steps *)

\* A new account is well kept.
LEMMA NewAccountKept == WellKept(NewAccount) /\ Holdings(NewAccount) = {}
<1> DEFINE a == NewAccount
<1>1. NoPosition \in Positions /\ NoPosition.qty = 0 /\ NoPosition.avg = 0 /\ NoPosition.highest = 0
  BY DEF NoPosition, Positions
<1>2. a \in Accounts
  <2>1. [c \in Code |-> NoPosition] \in [Code -> Positions]
    BY <1>1
  <2>2. <<>> \in Ledgers
    <3>1. <<>> \in [{} -> Int] /\ {} \in SUBSET Int
      OBVIOUS
    <3> QED
      BY <3>1 DEF Ledgers
  <2> QED
    BY <2>1, <2>2, ConstantTypes DEF NewAccount, Accounts
<1>3. /\ a.capital = InitialCapital /\ a.trades = <<>>
      /\ \A c \in Code : a.positions[c] = NoPosition
  BY DEF NewAccount
<1> HIDE DEF a
<1>4. Holdings(a) = {}
  BY <1>1, <1>3 DEF Holdings
<1>5. Cardinality(Holdings(a)) <= MaxPositions
  BY <1>4, ConstantTypes, FS_EmptySet
<1>6. SumFunctionOnSet(Paid(a), Code) = 0
  <2>1. \A c \in Code : Paid(a)[c] = 0
    BY <1>1, <1>3, NoCost DEF Paid
  <2> QED
    BY <2>1, ConstantTypes, SumZero
<1>7. ProfitOf(a.trades) = 0
  <2>1. DOMAIN a.trades = {}
    BY <1>3
  <2> QED
    BY <2>1, SumEmpty DEF ProfitOf, ProfitIn
<1>8. \A c \in Code : a.positions[c].highest >= a.positions[c].avg
  BY <1>1, <1>3
<1>9. a.capital + SumFunctionOnSet(Paid(a), Code) = InitialCapital + ProfitOf(a.trades)
  BY <1>3, <1>6, <1>7, ConstantTypes
<1>11. Matched(a.trades, Cardinality(Holdings(a)))
  <2>1. DOMAIN a.trades = {} /\ Len(a.trades) = 0 /\ Sells(a.trades) = {}
    BY <1>3 DEF Sells
  <2>2. Cardinality({}) = 0
    BY FS_EmptySet
  <2> QED
    BY <1>4, <2>1, <2>2 DEF Matched, Balanced
<1>12. a.curve \in Seq(Nat)
  BY DEF NewAccount, a
<1>10. WellKept(a)
  BY <1>2, <1>3, <1>5, <1>8, <1>9, <1>11, <1>12, ConstantTypes DEF WellKept
<1> QED
  BY <1>4, <1>10 DEF a

\* New strategies have sound states.
LEMMA NewStatesOK ==
  /\ NewStates = [n \in DayStrategy |-> NewStates[n]]
  /\ \A n \in DayStrategy : NewStates[n] \in [Code -> StateSet(n)]
<1>1. ASSUME NEW n \in DayStrategy PROVE NewState(n) \in StateSet(n)
  <2>1. <<>> \in Seq(Nat)
    OBVIOUS
  <2>2. CASE n = "ORB"
    BY <2>2 DEF NewState, StateSet, NewORB
  <2>3. CASE n = "VWAP_BOUNCE"
    BY <2>3 DEF NewState, StateSet, NewVWAP
  <2>4. CASE n = "PREV_DAY_BRK"
    BY <2>1, <2>4 DEF NewState, StateSet, NewPrevDay
  <2>5. CASE n = "GAP_TRADE"
    BY <2>5 DEF NewState, StateSet, NewGap
  <2>6. CASE n = "ORDER_FLOW"
    BY <2>1, <2>6 DEF NewState, StateSet, NewFlow
  <2> QED
    BY <2>2, <2>3, <2>4, <2>5, <2>6 DEF DayStrategy
<1>2. \A n \in DayStrategy : NewStates[n] = [c \in Code |-> NewState(n)]
  BY DEF NewStates
<1>3. NewStates = [n \in DayStrategy |-> NewStates[n]]
  BY DEF NewStates
<1> QED
  BY <1>1, <1>2, <1>3

\* The times of the candles, whatever runs.
LEMMA TimesTypes ==
  ASSUME NEW k
  PROVE  TimesOf(k) \in Seq(Nat) /\ 0 \in 0 .. Len(TimesOf(k))
<1>1. TimesOf(k) \in Seq(Nat)
  BY SimulationAssumption DEF TimesOf
<1>2. Len(TimesOf(k)) \in Nat
  BY <1>1
<1> QED
  BY <1>1, <1>2

\* Before its first candle a run has nothing.
Cleared ==
  /\ account = NewAccount /\ states = NewStates
  /\ next = 0 /\ candle = NoCandle /\ published = 0 /\ outcome = "none"
  /\ shown = [candles |-> 0, trades |-> 0]

\* What holds then.
NothingYet ==
  /\ WellKept(account) /\ StatesOK
  /\ next = 0 /\ candle \in Candles \cup {NoCandle}
  /\ published \in 0 .. Len(account.trades)
  /\ shown \in [candles : Nat, trades : Nat]
  /\ shown.candles <= next /\ shown.trades <= published
  /\ Holdings(account) = {}

\* A run that begins is in order.
LEMMA ClearedOK == Cleared => NothingYet
<1> SUFFICES ASSUME Cleared PROVE NothingYet
  OBVIOUS
<1>1. WellKept(account) /\ Holdings(account) = {}
  BY NewAccountKept DEF Cleared
<1>2. StatesOK
  BY NewStatesOK DEF Cleared, StatesOK
<1>3. Len(account.trades) = 0
  BY DEF Cleared, NewAccount
<1> QED
  BY <1>1, <1>2, <1>3 DEF Cleared, NothingYet

\* The program starts with the invariant.
LEMMA InitOK ==
  ASSUME Init
  PROVE  Inv
<1>1. Cleared
  BY DEF Init, Cleared
<1>2. RunTypeOK
  BY <1>1, ClearedOK, TimesTypes DEF NothingYet, RunTypeOK, Init, Replay
<1>3. WindowTypeOK
  <2>1. checked \in BOOLEAN
    BY ZenonT(60) DEF Init
  <2>2. enabled \in BOOLEAN
    BY ZenonT(60) DEF Init
  <2> QED
    BY <1>1, <2>1, <2>2, ClearedOK DEF NothingYet, WindowTypeOK, Init
<1>4. Believed
  BY <1>1, ClearedOK DEF NothingYet, Believed
<1>5. Polled /\ CandlesShown
  BY DEF Init, Polled, CandlesShown
<1>6. NothingHeldPastItsStop
  BY <1>1, ClearedOK DEF NothingYet, NothingHeldPastItsStop
<1>7. Seen
  BY <1>1, ClearedOK DEF NothingYet, Cleared, Seen, Init
<1> QED
  BY <1>2, <1>3, <1>4, <1>5, <1>6, <1>7 DEF Inv

\* A candle arrives: what was published can only have grown.
LEMMA ArrivesKeeps ==
  ASSUME Inv, CandleArrives
  PROVE  Inv'
<1> USE DEF Inv
<1> DEFINE times == TimesOf(kind)
<1>1. /\ candle' \in Candles /\ next' \in 0 .. Len(times) /\ next' = next + 1 /\ next \in Nat
      /\ candle'.close \in Closes
  <2>0. times \in Seq(Nat) /\ next \in 0 .. Len(times) /\ next < Len(times) /\ next' = next + 1
    BY TimesTypes DEF CandleArrives, RunTypeOK
  <2>3. PICK c \in Code, shape \in Shapes :
          candle' = [code |-> c, time |-> times[next + 1], open |-> shape.open,
                     high |-> shape.high, low |-> shape.low, close |-> shape.close,
                     volume |-> shape.volume]
    BY DEF CandleArrives
  <2> HIDE DEF times
  <2>1. next \in Nat /\ next + 1 \in 1 .. Len(times)
    BY <2>0
  <2>2. times[next + 1] \in Nat
    BY <2>0, <2>1
  <2>4. shape \in [open : Nat, high : Nat, low : Nat, close : Nat, volume : Nat]
    BY SimulationAssumption
  <2>5. candle' \in Candles
    BY <2>2, <2>3, <2>4 DEF Candles
  <2>6. candle'.close \in Closes
    BY <2>3 DEF Closes
  <2> QED
    BY <2>0, <2>1, <2>5, <2>6
<1>2. /\ published' \in 0 .. Len(account.trades)
      /\ shown.trades <= published' /\ (kind = "backtest" => published' = 0)
  <2>1. Len(account.trades) \in Nat
    BY AccountTypes DEF RunTypeOK, WellKept
  <2> QED
    BY <2>1 DEF CandleArrives, RunTypeOK, WindowTypeOK
<1>3. RunTypeOK'
  BY <1>1, <1>2 DEF CandleArrives, RunTypeOK, StatesOK
<1>4. WindowTypeOK'
  BY <1>1, <1>2 DEF CandleArrives, windowVars, WindowTypeOK
<1>5. Believed'
  BY DEF CandleArrives, Believed
<1>6. Polled' /\ CandlesShown'
  BY <1>1 DEF CandleArrives, windowVars, Polled, CandlesShown
<1>7. NothingHeldPastItsStop'
  BY DEF CandleArrives, NothingHeldPastItsStop
<1>8. Seen'
  <2>1. next + 1 > 0 /\ next + 1 # 0
    BY <1>1
  <2> QED
    BY <1>1, <2>1 DEF CandleArrives, Seen
<1> QED
  BY <1>3, <1>4, <1>5, <1>6, <1>7, <1>8

\* The end of the data changes only where the thread is.
LEMMA DataEndsKeeps ==
  ASSUME Inv, DataEnds
  PROVE  Inv'
<1>1. RunTypeOK'
  BY DEF Inv, DataEnds, RunTypeOK, StatesOK
<1>2. WindowTypeOK'
  BY DEF Inv, DataEnds, windowVars, WindowTypeOK
<1>3. Believed'
  BY DEF Inv, DataEnds, Believed
<1>4. Polled' /\ CandlesShown'
  BY DEF Inv, DataEnds, windowVars, Polled, CandlesShown
<1>5. NothingHeldPastItsStop <=> NothingHeldPastItsStop'
  BY DEF DataEnds, NothingHeldPastItsStop
<1>6. Seen'
  BY DEF Inv, DataEnds, Seen
<1> QED
  BY <1>1, <1>2, <1>3, <1>4, <1>5, <1>6 DEF Inv

\* A run that ends, by itself or by an error.
LEMMA EndsKeep ==
  ASSUME Inv, Finishes \/ Fails
  PROVE  Inv'
<1>1. RunTypeOK'
  BY DEF Inv, Finishes, Fails, RunTypeOK, StatesOK
<1>2. WindowTypeOK'
  BY DEF Inv, Finishes, Fails, windowVars, WindowTypeOK
<1>3. Believed'
  BY DEF Inv, Finishes, Fails, Believed
<1>4. Polled' /\ CandlesShown'
  BY DEF Inv, Finishes, Fails, windowVars, Polled, CandlesShown, RunTypeOK
<1>5. NothingHeldPastItsStop'
  BY DEF Finishes, Fails, NothingHeldPastItsStop
<1>6. Seen'
  BY DEF Inv, Finishes, Fails, Seen
<1> QED
  BY <1>1, <1>2, <1>3, <1>4, <1>5, <1>6 DEF Inv

\* The window's steps on a run that goes on, and steps that change nothing.
LEMMA WindowKeeps ==
  ASSUME Inv, Poll \/ HandleEnd \/ ClickMode \/ MarketStateChanges \/ UNCHANGED vars
  PROVE  Inv'
<1>1. /\ UNCHANGED <<kind, account, states, next, candle, worker, published, outcome>>
      /\ event' \in {event, "none"}
  BY DEF Poll, HandleEnd, ClickMode, MarketStateChanges, vars, workerVars
<1>2. RunTypeOK'
  BY <1>1 DEF Inv, RunTypeOK, StatesOK
<1>3. shown' = shown \/ shown' = [candles |-> next, trades |-> published]
  BY DEF Poll, HandleEnd, ClickMode, MarketStateChanges, vars, windowVars, AllTaken
<1>4. slot' = slot /\ mode' \in {"paper", "live"}
  BY DEF Inv, WindowTypeOK, Poll, HandleEnd, ClickMode, MarketStateChanges, vars, windowVars
<1>5. polling' \in BOOLEAN /\ enabled' \in BOOLEAN /\ checked' \in BOOLEAN
  <2>1. CASE Poll
    BY <2>1 DEF Inv, WindowTypeOK, Poll
  <2>2. CASE HandleEnd
    BY <2>2 DEF Inv, WindowTypeOK, HandleEnd
  <2>3. CASE ClickMode
    BY <2>3 DEF Inv, WindowTypeOK, ClickMode
  <2>4. CASE MarketStateChanges
    BY <2>4 DEF Inv, WindowTypeOK, MarketStateChanges
  <2>5. CASE UNCHANGED vars
    BY <2>5 DEF Inv, WindowTypeOK, vars, windowVars
  <2> QED
    BY <2>1, <2>2, <2>3, <2>4, <2>5
<1>6. WindowTypeOK'
  <2>1. next \in Nat /\ published \in Nat
    BY DEF Inv, RunTypeOK
  <2>2. /\ shown' \in [candles : Nat, trades : Nat]
        /\ shown'.candles <= next /\ shown'.trades <= published
    BY <1>3, <2>1 DEF Inv, WindowTypeOK
  <2> QED
    BY <1>1, <1>4, <1>5, <2>2 DEF Inv, WindowTypeOK
<1>7. Believed'
  BY <1>1 DEF Inv, Believed
<1>8. Polled' /\ CandlesShown'
  <2>1. CASE HandleEnd
    BY <2>1 DEF Inv, Polled, CandlesShown, HandleEnd, AllTaken, RunTypeOK
  <2>2. CASE Poll
    BY <2>2 DEF Inv, Polled, CandlesShown, Poll, AllTaken, workerVars
  <2>3. CASE ClickMode \/ MarketStateChanges \/ UNCHANGED vars
    BY <2>3 DEF Inv, Polled, CandlesShown, ClickMode, MarketStateChanges, vars, workerVars,
                windowVars
  <2> QED
    BY <2>1, <2>2, <2>3
<1>9. NothingHeldPastItsStop <=> NothingHeldPastItsStop'
  BY <1>1 DEF NothingHeldPastItsStop
<1>10. Seen'
  BY <1>1 DEF Inv, Seen
<1> QED
  BY <1>2, <1>6, <1>7, <1>8, <1>9, <1>10 DEF Inv

\* The steps that begin a run or throw one away.
LEMMA StartsKeep ==
  ASSUME Inv, ClickStart \/ StartBacktest
  PROVE  Inv'
<1>1. /\ Cleared' /\ worker' = "waiting" /\ event = "none" /\ event' = "none"
      /\ mode' = mode /\ enabled' = enabled
  BY DEF ClickStart, StartBacktest, Prepare, Clean, Cleared
<1>2. \/ kind' \in Replay /\ slot' = "stop" /\ polling' = TRUE /\ checked' = FALSE
      \/ kind' = "backtest" /\ UNCHANGED <<polling, slot, checked>>
  BY DEF ClickStart, StartBacktest, Prepare
<1>3. NothingYet'
  BY <1>1, ClearedOK, PTL
<1>4. RunTypeOK'
  BY <1>1, <1>2, <1>3, TimesTypes DEF NothingYet, RunTypeOK, Cleared
<1>5. WindowTypeOK'
  BY <1>1, <1>2, <1>3 DEF NothingYet, Inv, WindowTypeOK
<1>6. Believed'
  BY <1>3 DEF NothingYet, Believed
<1>7. Polled' /\ CandlesShown'
  BY <1>1, <1>2 DEF Polled, CandlesShown, Cleared, Replay, DayKind, DayStrategy
<1>8. NothingHeldPastItsStop'
  BY <1>3 DEF NothingYet, NothingHeldPastItsStop
<1>9. Seen'
  BY <1>1, <1>3 DEF NothingYet, Cleared, Seen
<1> QED
  BY <1>4, <1>5, <1>6, <1>7, <1>8, <1>9 DEF Inv

\* A click that stops the run throws its account away.
LEMMA StopKeeps ==
  ASSUME Inv, ClickStop
  PROVE  Inv'
<1>1. slot' = "start" /\ polling' = FALSE /\ checked' = FALSE
      /\ UNCHANGED <<kind, event, enabled, mode>>
  BY DEF ClickStop
<1>2. CASE kind # "backtest" /\ worker # "idle"
  <2>1. worker' = "idle" /\ Cleared'
    BY <1>2 DEF ClickStop, Clean, Cleared
  <2>2. event = "none"
    BY <1>2 DEF Inv, Polled
  <2>3. NothingYet'
    BY <2>1, ClearedOK, PTL
  <2>4. RunTypeOK'
    BY <1>1, <2>1, <2>3, TimesTypes DEF NothingYet, Inv, RunTypeOK, Cleared
  <2>5. WindowTypeOK'
    BY <1>1, <2>3 DEF NothingYet, Inv, WindowTypeOK
  <2>6. Believed'
    BY <2>3 DEF NothingYet, Believed
  <2>7. Polled' /\ CandlesShown'
    BY <1>1, <2>1, <2>2 DEF Polled, CandlesShown, Cleared
  <2>8. NothingHeldPastItsStop'
    BY <2>3 DEF NothingYet, NothingHeldPastItsStop
  <2>9. Seen'
    BY <2>1, <2>3 DEF NothingYet, Cleared, Seen
  <2> QED
    BY <2>4, <2>5, <2>6, <2>7, <2>8, <2>9 DEF Inv
<1>3. CASE ~(kind # "backtest" /\ worker # "idle")
  <2>1. UNCHANGED <<account, states, next, candle, published, outcome, shown, worker>>
    BY <1>3 DEF NothingYet, ClickStop
  <2>2. RunTypeOK'
    BY <1>1, <2>1 DEF Inv, RunTypeOK, StatesOK
  <2>3. WindowTypeOK'
    BY <1>1, <2>1 DEF Inv, WindowTypeOK
  <2>4. Believed'
    BY <1>1, <2>1 DEF Inv, Believed
  <2>5. Polled' /\ CandlesShown'
    BY <1>1, <1>3, <2>1 DEF Inv, Polled, CandlesShown
  <2>6. NothingHeldPastItsStop <=> NothingHeldPastItsStop'
    BY <1>1, <2>1 DEF NothingHeldPastItsStop
  <2>7. Seen'
    BY <2>1 DEF Inv, Seen
  <2> QED
    BY <2>2, <2>3, <2>4, <2>5, <2>6, <2>7 DEF Inv
<1> QED
  BY <1>2, <1>3

\* A step of the account alone keeps the types.
LEMMA AccountStepKeeps ==
  ASSUME RunTypeOK, NEW k, Stepped(account, account', k), StatesOK',
         UNCHANGED <<kind, next, candle, event, published>>,
         worker' \in {"waiting", "closing"}
  PROVE  RunTypeOK'
<1>1. /\ account.trades \in Seq(Trades) /\ account'.trades \in Seq(Trades)
      /\ Len(account.trades) <= Len(account'.trades)
  BY AccountTypes DEF RunTypeOK, Stepped, WellKept
<1>2. published \in 0 .. Len(account'.trades)
  <2>1. /\ Len(account.trades) \in Nat /\ Len(account'.trades) \in Nat
        /\ Len(account.trades) <= Len(account'.trades) /\ published \in 0 .. Len(account.trades)
    BY <1>1 DEF RunTypeOK
  <2> DEFINE m == Len(account.trades)
             n == Len(account'.trades)
  <2> HIDE DEF m, n
  <2>2. m \in Nat /\ n \in Nat /\ m <= n /\ published \in 0 .. m
    BY <2>1 DEF m, n
  <2>3. published \in 0 .. n
    BY <2>2
  <2> QED
    BY <2>3 DEF n
<1>3. WellKept(account)'
  BY DEF Stepped
<1> QED
  BY <1>2, <1>3 DEF RunTypeOK

\* The forced close of a code is a sale at the last close, or at the average.
LEMMA CloseSteps ==
  ASSUME Inv, CloseOne
  PROVE  \E k : /\ Stepped(account, account', k) /\ k.code \notin Holdings(account')
               /\ Len(account'.trades) <= Len(account.trades) + 3
               /\ k.close \in Closes
<1>1. PICK c \in Holdings(account) :
        account' = IF kind = "backtest"
                   THEN ExecuteSell(account, [code |-> c, close |-> candle.close,
                                              time |-> candle.time])
                   ELSE CloseAtAverage(account, c, candle.time)
  BY DEF CloseOne
<1>2. c \in Code /\ candle.close \in Nat /\ candle.time \in Nat /\ account.positions[c].avg \in Nat
  BY AccountTypes DEF Holdings, Inv, RunTypeOK, WellKept, Candles, NoCandle
<1>3. WellKept(account)
  BY DEF Inv, RunTypeOK
<1> DEFINE close == IF kind = "backtest" THEN candle.close ELSE account.positions[c].avg
           k == [code |-> c, close |-> close, time |-> candle.time]
<1>4. account' = ExecuteSell(account, k)
  BY <1>1 DEF CloseAtAverage, ReplaySell
<1>5. close \in Closes
  <2>1. next > 0
    BY <1>1 DEF Inv, Seen, RunTypeOK
  <2> QED
    BY <1>1, <2>1 DEF Inv, Seen
<1>6. k.code \in Code /\ k.close \in Nat /\ k.time \in Nat /\ k.close = close
  BY <1>2
<1> HIDE DEF k, close
<1>7. /\ Stepped(account, account', k) /\ k.code \notin Holdings(account')
      /\ Len(account'.trades) <= Len(account.trades) + 1
  BY <1>3, <1>4, <1>6, SellKeeps
<1>8. Len(account.trades) \in Nat /\ Len(account'.trades) \in Nat
  BY <1>3, <1>7, AccountTypes DEF WellKept, Stepped
<1>9. Len(account'.trades) <= Len(account.trades) + 3
  BY <1>7, <1>8
<1> QED
  BY <1>5, <1>6, <1>7, <1>9

\* The forced close of a code.
LEMMA CloseKeeps ==
  ASSUME Inv, CloseOne
  PROVE  Inv'
<1>1. PICK k : Stepped(account, account', k) /\ k.code \notin Holdings(account')
  BY CloseSteps
<1>3. StatesOK
  BY DEF Inv, RunTypeOK
<1>5. /\ UNCHANGED <<kind, states, next, candle, event, published, outcome>> /\ worker' = "closing"
      /\ UNCHANGED windowVars
  BY DEF CloseOne
<1>6. StatesOK'
  BY <1>3, <1>5 DEF StatesOK
<1>7. RunTypeOK'
  BY <1>1, <1>5, <1>6, AccountStepKeeps DEF Inv
<1>8. WindowTypeOK'
  BY <1>5 DEF Inv, windowVars, WindowTypeOK
<1>9. \A d \in Holdings(account') :
        d \in Holdings(account) /\ account'.positions[d] = account.positions[d]
  BY <1>1 DEF Stepped, Holdings
<1>10. Believed'
  BY <1>5, <1>9 DEF Inv, Believed, CloseOne
<1>11. Polled' /\ CandlesShown'
  BY <1>5 DEF Inv, Polled, CandlesShown, windowVars, CloseOne
<1>12. NothingHeldPastItsStop => NothingHeldPastItsStop'
  BY <1>5, <1>9 DEF NothingHeldPastItsStop, CloseOne
<1>13. Seen'
  BY <1>5, <1>9 DEF Inv, Seen
<1> QED
  BY <1>7, <1>8, <1>10, <1>11, <1>12, <1>13 DEF Inv

\* The states after a candle: a trading strategy has its answer's for the code
\* and no other state changes.
LEMMA StatesKept ==
  ASSUME StatesOK, candle \in Candles, states' = StatesAfter(kind, states, candle)
  PROVE  /\ StatesOK'
         /\ \A n \in DayStrategy, c \in Code :
              /\ n \in Traders(kind) /\ c = candle.code =>
                   states'[n][c] = AnswerOf(states, n, candle).state
              /\ c # candle.code => states'[n][c] = states[n][c]
         /\ \A n \in DayStrategy :
              Sound(states[n][candle.code], AnswerOf(states, n, candle), candle, StateSet(n))
<1> DEFINE code == candle.code
           A(n) == AnswerOf(states, n, candle)
<1>1. code \in Code
  BY DEF Candles
<1>2. \A n \in DayStrategy : Sound(states[n][code], A(n), candle, StateSet(n))
  BY <1>1, AnswersSound DEF StatesOK, AnswerOf
<1>3. \A n \in DayStrategy : A(n).state \in StateSet(n)
  BY <1>2 DEF Sound
<1> HIDE DEF A
<1>4. DOMAIN states = DayStrategy
  BY DEF StatesOK
<1>5. states' = [n \in DayStrategy |-> IF n \in Traders(kind)
                                       THEN [states[n] EXCEPT ![code] = A(n).state]
                                       ELSE states[n]]
  BY <1>4 DEF StatesAfter, A
<1> HIDE DEF code
<1>6. \A n \in DayStrategy :
        /\ n \in Traders(kind) => states'[n] = [states[n] EXCEPT ![code] = A(n).state]
        /\ n \notin Traders(kind) => states'[n] = states[n]
  BY <1>5
<1>7. ASSUME NEW n \in DayStrategy
      PROVE  /\ states'[n] \in [Code -> StateSet(n)]
             /\ n \in Traders(kind) => states'[n][code] = A(n).state
             /\ \A c \in Code \ {code} : states'[n][c] = states[n][c]
  <2>1. states[n] \in [Code -> StateSet(n)]
    BY DEF StatesOK
  <2>2. CASE n \in Traders(kind)
    <3> DEFINE new == A(n).state
    <3>1. new \in StateSet(n)
      BY <1>3
    <3> HIDE DEF new
    <3>2. states'[n] = [states[n] EXCEPT ![code] = new]
      BY <1>6, <2>2 DEF new
    <3> QED
      BY <1>1, <2>1, <3>1, <3>2 DEF new
  <2>3. CASE n \notin Traders(kind)
    BY <1>6, <2>1, <2>3
  <2> QED
    BY <2>2, <2>3
<1>8. states' = [n \in DayStrategy |-> states'[n]]
  BY <1>5
<1>9. StatesOK'
  BY <1>7, <1>8 DEF StatesOK
<1> QED
  BY <1>2, <1>7, <1>9 DEF A, code

\* Of the code of a candle: who holds it after the strategies' candle believes
\* so, and it is before two.
LEMMA BelievedKept ==
  ASSUME Inv, HandleCandle, kind \in DayKind, candle.code \in Holdings(account')
  PROVE  /\ \E n \in Traders(kind) : states'[n][candle.code].inside = TRUE
         /\ candle.time < Two
<1> DEFINE code == candle.code
<1>1. WellKept(account) /\ StatesOK /\ candle \in Candles
  BY DEF Inv, RunTypeOK, HandleCandle
<1>2. states' = StatesAfter(kind, states, candle)
  BY DEF HandleCandle
<1>3. code \in Code
  BY <1>1 DEF Candles
<1>4. account' = ReplayCandle(account, kind, states, candle, <<>>)
  BY DEF HandleCandle, DayKind, DayStrategy
<1>5. ASSUME NEW n \in DayStrategy, n \in Traders(kind)
      PROVE  /\ states'[n][code] = AnswerOf(states, n, candle).state
             /\ Sound(states[n][code], AnswerOf(states, n, candle), candle, StateSet(n))
  BY <1>1, <1>2, <1>3, <1>5, StatesKept
<1>6. \/ \E n \in DayStrategy : n \in Traders(kind) /\ "BUY" \in Sides(n)
      \/ /\ code \in Holdings(account)
         /\ \A n \in DayStrategy : n \in Traders(kind) => "SELL" \notin Sides(n)
  BY <1>1, <1>4, DayReplay
<1>7. ASSUME NEW n \in DayStrategy, n \in Traders(kind), "BUY" \in Sides(n)
      PROVE  states'[n][code].inside = TRUE /\ candle.time < Two
  BY <1>5, <1>7 DEF Sound, Sides
<1>8. ASSUME code \in Holdings(account),
             \A n \in DayStrategy : n \in Traders(kind) => "SELL" \notin Sides(n)
      PROVE  /\ \E n \in Traders(kind) : states'[n][code].inside = TRUE
             /\ candle.time < Two
  <2>1. PICK n \in Traders(kind) : states[n][code].inside = TRUE
    BY <1>8 DEF Inv, Believed
  <2>2. n \in DayStrategy
    BY DEF Traders
  <2>3. "SELL" \notin Sides(n)
    BY <1>8, <2>2
  <2>4. states'[n][code].inside = TRUE /\ candle.time < Two
    BY <1>5, <2>1, <2>2, <2>3 DEF Sound, Sides
  <2> QED
    BY <2>4
<1> QED
  BY <1>6, <1>7, <1>8

\* A position that is fresh is not past a stop or a target that is not zero.
LEMMA FreshHolds ==
  ASSUME NEW pos, Fresh(pos), candle.close \in Nat, Positive
  PROVE  ~PastItsStop(pos, candle.close)
<1> DEFINE x == candle.close
<1>1. x \in Nat \ {0} /\ pos.avg = x /\ pos.highest = x
  BY DEF Fresh
<1> HIDE DEF x
<1>2. 100 * (x - x) = 0 /\ StopLoss * x > 0 /\ TakeProfit * x > 0 /\ ~(x > x)
  <2>1. 1 <= StopLoss /\ 1 <= TakeProfit
    BY ConstantTypes DEF Positive
  <2>2. x * 1 <= x * StopLoss /\ x * 1 <= x * TakeProfit
    BY <1>1, <2>1, ConstantTypes, Product
  <2>3. StopLoss * x = x * StopLoss /\ TakeProfit * x = x * TakeProfit
    BY <1>1, ConstantTypes
  <2> QED
    BY <1>1, <2>2, <2>3, ConstantTypes
<1>3. ~PastItsStop(pos, x)
  BY <1>1, <1>2, ConstantTypes DEF PastItsStop
<1> QED
  BY <1>3 DEF x

\* A candle steps the account by three trades at most.
LEMMA HandleSteps ==
  ASSUME Inv, HandleCandle
  PROVE  /\ Stepped(account, account', candle) /\ Len(account'.trades) <= Len(account.trades) + 3
         /\ candle.close \in Closes
<1>1. WellKept(account) /\ candle \in Candles /\ kind \in Replay \cup {"backtest"}
  BY DEF Inv, RunTypeOK, HandleCandle
<1>2. PICK sides \in IF kind \in DayKind THEN {<<>>} ELSE Signals :
        account' = IF kind = "backtest" THEN BacktestCandle(account, candle, sides)
                   ELSE ReplayCandle(account, kind, states, candle, sides)
  BY DEF HandleCandle
<1>3. /\ Stepped(account, account', candle)
      /\ \/ Len(account'.trades) <= Len(account.trades) + 2
         \/ Len(account'.trades) <= Len(account.trades) + 3
  <2>1. CASE kind = "backtest"
    BY <1>1, <1>2, <2>1, BacktestKeeps
  <2>2. CASE kind = "config"
    <3>1. account' = ReplayCandle(account, kind, states, candle, sides)
      BY <1>2, <2>2
    <3> QED
      BY <1>1, <2>2, <3>1, ConfigReplay
  <2>3. CASE kind \in DayKind
    <3>1. account' = ReplayCandle(account, kind, states, candle, <<>>)
      BY <1>2, <2>3 DEF DayKind, DayStrategy
    <3> QED
      BY <1>1, <3>1, DayReplay
  <2> QED
    BY <1>1, <2>1, <2>2, <2>3 DEF Replay
<1>4. Len(account.trades) \in Nat /\ Len(account'.trades) \in Nat
  BY <1>1, <1>3, AccountTypes DEF WellKept, Stepped
<1>5. Len(account'.trades) <= Len(account.trades) + 3
  BY <1>3, <1>4
<1>6. candle.close \in Closes
  BY DEF Inv, Seen, HandleCandle
<1> QED
  BY <1>3, <1>5, <1>6

\* A candle, of a backtest, the settings' strategies or the day strategies.
LEMMA HandleKeeps ==
  ASSUME Inv, HandleCandle
  PROVE  Inv'
<1> DEFINE code == candle.code
<1>1. WellKept(account) /\ StatesOK /\ candle \in Candles /\ kind \in Replay \cup {"backtest"}
  BY DEF Inv, RunTypeOK, HandleCandle
<1>2. code \in Code /\ candle.close \in Nat
  BY <1>1 DEF Candles
<1>3. /\ UNCHANGED <<kind, next, candle, event, published, outcome>> /\ worker' = "waiting"
      /\ UNCHANGED windowVars /\ worker = "handling"
      /\ states' = StatesAfter(kind, states, candle)
  BY DEF HandleCandle
<1>4. PICK sides \in IF kind \in DayKind THEN {<<>>} ELSE Signals :
        account' = IF kind = "backtest" THEN BacktestCandle(account, candle, sides)
                   ELSE ReplayCandle(account, kind, states, candle, sides)
  BY DEF HandleCandle
<1>5. Stepped(account, account', candle)
  BY HandleSteps
<1>6. StatesOK'
  BY <1>1, <1>3, StatesKept
<1>7. RunTypeOK'
  BY <1>3, <1>5, <1>6, AccountStepKeeps DEF Inv
<1>8. WindowTypeOK'
  BY <1>3 DEF Inv, windowVars, WindowTypeOK
<1>9. Believed'
  <2> SUFFICES ASSUME kind \in DayKind, NEW c \in Holdings(account')
               PROVE  /\ \E n \in Traders(kind) : states'[n][c].inside = TRUE
                      /\ c = code => candle.time < Two
    BY <1>3 DEF Believed
  <2>1. CASE c = code
    BY <2>1, BelievedKept
  <2>2. CASE c # code
    <3>1. c \in Code
      BY DEF Holdings
    <3>2. c \in Holdings(account)
      BY <1>5, <2>2, <3>1 DEF Holdings, Stepped
    <3>3. PICK n \in Traders(kind) : states[n][c].inside = TRUE
      BY <3>2 DEF Inv, Believed
    <3>4. n \in DayStrategy
      BY DEF Traders
    <3>5. states'[n][c] = states[n][c]
      BY <1>1, <1>3, <2>2, <3>1, <3>4, StatesKept
    <3> QED
      BY <2>2, <3>3, <3>5
  <2> QED
    BY <2>1, <2>2
<1>10. Polled' /\ CandlesShown'
  BY <1>3 DEF Inv, Polled, CandlesShown, windowVars
<1>11. ASSUME Positive PROVE NothingHeldPastItsStop'
  <2> SUFFICES ASSUME kind \notin {"config", "ALL"}, code \in Holdings(account')
               PROVE  ~PastItsStop(account'.positions[code], candle.close)
    BY <1>3 DEF NothingHeldPastItsStop
  <2>1. CASE kind = "backtest"
    <3>1. account' = BacktestCandle(account, candle, sides)
      BY <1>4, <2>1
    <3> QED
      BY <1>1, <3>1, BacktestKeeps
  <2>2. CASE kind \in DayStrategy
    <3>1. account' = ReplayCandle(account, kind, states, candle, <<>>)
      BY <1>4, <2>2 DEF DayKind, DayStrategy
    <3>2. \/ /\ \E n \in DayStrategy : n \in Traders(kind) /\ "BUY" \in Sides(n)
             /\ code \notin Holdings(account) => Fresh(account'.positions[code])
          \/ ~PastItsStop(account'.positions[code], candle.close)
      BY <1>1, <3>1, DayReplay
    <3>3. ASSUME NEW n \in DayStrategy, n \in Traders(kind), "BUY" \in Sides(n)
          PROVE  code \notin Holdings(account)
      <4>1. Traders(kind) = {kind}
        BY <2>2 DEF Traders, DayStrategy
      <4>2. Sound(states[n][code], AnswerOf(states, n, candle), candle, StateSet(n))
        BY <1>1, <1>3, StatesKept
      <4>3. states[n][code].inside = FALSE
        BY <3>3, <4>2 DEF Sound, Sides
      <4>4. \A m \in Traders(kind) : ~(states[m][code].inside = TRUE)
        BY <3>3, <4>1, <4>3
      <4> QED
        BY <2>2, <4>4 DEF Inv, Believed, DayKind
    <3>4. CASE \E n \in DayStrategy : n \in Traders(kind) /\ "BUY" \in Sides(n)
      <4>1. code \notin Holdings(account)
        BY <3>3, <3>4
      <4>2. Fresh(account'.positions[code]) \/ ~PastItsStop(account'.positions[code], candle.close)
        BY <3>2, <4>1
      <4>3. Fresh(account'.positions[code]) =>
              ~PastItsStop(account'.positions[code], candle.close)
        BY <1>2, <1>11, FreshHolds
      <4> QED
        BY <4>2, <4>3
    <3> QED
      BY <3>2, <3>4
  <2> QED
    BY <1>1, <2>1, <2>2 DEF Replay, DayKind
<1>12. Seen'
  <2>1. ASSUME NEW c \in Holdings(account') PROVE account'.positions[c].avg \in Closes
    <3>1. CASE c = code
      BY <1>5, <2>1, <3>1, HandleSteps DEF Inv, Seen, Stepped
    <3>2. CASE c # code
      <4>1. c \in Holdings(account) /\ account'.positions[c] = account.positions[c]
        BY <1>5, <2>1, <3>2 DEF Holdings, Stepped
      <4> QED
        BY <4>1 DEF Inv, Seen
    <3> QED
      BY <3>1, <3>2
  <2>2. next > 0 /\ next # 0
    BY <1>3 DEF Inv, Seen, RunTypeOK
  <2> QED
    BY <1>3, <2>1, <2>2 DEF Inv, Seen
<1> QED
  BY <1>7, <1>8, <1>9, <1>10, <1>11, <1>12 DEF Inv

\* Every step keeps the invariant.
LEMMA InvKept == Inv /\ [Next]_vars => Inv'
<1> SUFFICES ASSUME Inv, [Next]_vars PROVE Inv'
  OBVIOUS
<1>1. CASE CandleArrives
  BY <1>1, ArrivesKeeps
<1>2. CASE HandleCandle
  BY <1>2, HandleKeeps
<1>3. CASE DataEnds
  BY <1>3, DataEndsKeeps
<1>4. CASE CloseOne
  BY <1>4, CloseKeeps
<1>5. CASE Finishes \/ Fails
  BY <1>5, EndsKeep
<1>6. CASE Poll \/ HandleEnd \/ ClickMode \/ MarketStateChanges \/ UNCHANGED vars
  BY <1>6, WindowKeeps
<1>7. CASE ClickStart \/ StartBacktest
  BY <1>7, StartsKeep
<1>8. CASE ClickStop
  BY <1>8, StopKeeps
<1> QED
  BY <1>1, <1>2, <1>3, <1>4, <1>5, <1>6, <1>7, <1>8 DEF Next

-----------------------------------------------------------------------------
(* The longest streak *)

\* What the fold has found in the first k trades: the streak that ends them and
\* the longest.
Streaks(trades, v, k) ==
  /\ v \in [now : Nat, most : Nat] /\ v.now <= v.most
  /\ \E i \in 1 .. (k + 1) : AtLoss(trades, i, k) /\ Sold(trades, i, k) = v.now
  /\ \A i \in Nat : AtLoss(trades, i, k) => Sold(trades, i, k) <= v.now
  /\ \A i \in Nat, j \in 0 .. k : AtLoss(trades, i, j) => Sold(trades, i, j) <= v.most
  /\ v.most > 0 =>
       \E i \in Nat, j \in 0 .. k : AtLoss(trades, i, j) /\ Sold(trades, i, j) = v.most

\* One trade more.
LEMMA StreaksNext ==
  ASSUME NEW trades \in Seq(Trades), NEW k \in Nat, k + 1 <= Len(trades),
         NEW v, Streaks(trades, v, k)
  PROVE  Streaks(trades, LossStep(v, trades[k + 1]), k + 1)
<1> DEFINE t == trades[k + 1]
           e == k + 1
           w == LossStep(v, t)
<1>1. t \in Trades /\ e \in Nat
  OBVIOUS
<1>2. v.now \in Nat /\ v.most \in Nat /\ v.now <= v.most
  BY DEF Streaks
<1>3. PICK h \in 1 .. e : AtLoss(trades, h, k) /\ Sold(trades, h, k) = v.now
  BY DEF Streaks
<1>4. \A i \in Nat, j \in Nat : Sold(trades, i, j) \in Nat
  BY SalesTypes
<1>5. ASSUME NEW i \in Nat
      PROVE  IF t.side = "SELL" /\ i <= e
             THEN /\ Sold(trades, i, e) = Sold(trades, i, k) + 1
                  /\ AtLoss(trades, i, e) <=> AtLoss(trades, i, k) /\ t.pnl <= 0
             ELSE /\ Sold(trades, i, e) = Sold(trades, i, k)
                  /\ AtLoss(trades, i, e) <=> AtLoss(trades, i, k)
  BY SalesNext
<1>6. \A i \in Nat : e < i => Sold(trades, i, e) = 0 /\ AtLoss(trades, i, e)
  BY <1>1, SalesTypes
<1>7. \A j \in 0 .. e : j \in 0 .. k \/ j = e
  OBVIOUS
<1>8. ASSUME w \in [now : Nat, most : Nat], w.now <= w.most, v.most <= w.most,
             w.most = v.most \/ w.most = w.now,
             \E i \in 1 .. (e + 1) : AtLoss(trades, i, e) /\ Sold(trades, i, e) = w.now,
             \A i \in Nat : AtLoss(trades, i, e) => Sold(trades, i, e) <= w.now
      PROVE  Streaks(trades, w, e)
  <2>1. w.now \in Nat /\ w.most \in Nat
    BY <1>8
  <2> HIDE DEF w
  <2>2. ASSUME NEW i \in Nat, NEW j \in 0 .. e, AtLoss(trades, i, j)
        PROVE  Sold(trades, i, j) <= w.most
    <3> DEFINE n == Sold(trades, i, j)
    <3>4. j \in Nat
      BY <1>1
    <3>1. n \in Nat
      BY <1>4, <3>4
    <3>2. CASE j \in 0 .. k
      <4>1. n <= v.most
        BY <2>2, <3>2 DEF Streaks
      <4> HIDE DEF n
      <4>2. n <= w.most
        BY <1>2, <1>8, <2>1, <3>1, <4>1
      <4> QED
        BY <4>2 DEF n
    <3>3. CASE j = e
      <4>1. n <= w.now
        BY <1>8, <2>2, <3>3
      <4> HIDE DEF n
      <4>2. n <= w.most
        BY <1>8, <2>1, <3>1, <4>1
      <4> QED
        BY <4>2 DEF n
    <3> QED
      BY <1>7, <3>2, <3>3
  <2>3. ASSUME w.most > 0
        PROVE  \E i \in Nat, j \in 0 .. e : AtLoss(trades, i, j) /\ Sold(trades, i, j) = w.most
    <3>1. CASE w.most = v.most
      <4>1. PICK i \in Nat, j \in 0 .. k : AtLoss(trades, i, j) /\ Sold(trades, i, j) = v.most
        BY <2>3, <3>1 DEF Streaks
      <4>2. j \in 0 .. e
        OBVIOUS
      <4> QED
        BY <3>1, <4>1, <4>2
    <3>2. CASE w.most = w.now
      <4>1. e \in 0 .. e /\ 1 .. (e + 1) \subseteq Nat
        BY <1>1
      <4> HIDE DEF e
      <4> QED
        BY <1>8, <3>2, <4>1
    <3> QED
      BY <1>8, <3>1, <3>2
  <2> QED
    BY <1>8, <2>2, <2>3 DEF Streaks
<1>9. CASE t.side # "SELL"
  <2>1. w = v
    BY <1>9 DEF LossStep
  <2>2. v \in [now : Nat, most : Nat]
    BY DEF Streaks
  <2>3. \A i \in Nat : /\ Sold(trades, i, e) = Sold(trades, i, k)
                       /\ AtLoss(trades, i, e) <=> AtLoss(trades, i, k)
    BY <1>5, <1>9
  <2>4. h \in 1 .. (e + 1) /\ h \in Nat
    OBVIOUS
  <2>5. \E i \in 1 .. (e + 1) : AtLoss(trades, i, e) /\ Sold(trades, i, e) = v.now
    BY <1>3, <2>3, <2>4
  <2>6. \A i \in Nat : AtLoss(trades, i, e) => Sold(trades, i, e) <= v.now
    BY <2>3 DEF Streaks
  <2> HIDE DEF e, w
  <2>7. v.most <= v.most
    BY <1>2
  <2> QED
    BY <1>2, <1>8, <2>1, <2>2, <2>5, <2>6, <2>7 DEF e, w
<1>10. CASE t.side = "SELL" /\ t.pnl <= 0
  <2> DEFINE now == v.now + 1
             most == IF now > v.most THEN now ELSE v.most
  <2>1. w = [now |-> now, most |-> most]
    BY <1>10 DEF LossStep
  <2>2. now \in Nat /\ most \in Nat /\ now <= most /\ v.most <= most
        /\ (most = v.most \/ most = now)
    BY <1>2
  <2>3. AtLoss(trades, h, e) /\ Sold(trades, h, e) = now /\ h \in 1 .. (e + 1)
    BY <1>3, <1>5, <1>10
  <2>4. ASSUME NEW i \in Nat, AtLoss(trades, i, e) PROVE Sold(trades, i, e) <= now
    <3>1. CASE i <= e
      <4>1. AtLoss(trades, i, k) /\ Sold(trades, i, e) = Sold(trades, i, k) + 1
        BY <1>5, <1>10, <2>4, <3>1
      <4>2. Sold(trades, i, k) <= v.now /\ Sold(trades, i, k) \in Nat
        BY <1>4, <4>1 DEF Streaks
      <4> QED
        BY <1>2, <4>1, <4>2
    <3>2. CASE e < i
      BY <1>2, <1>6, <3>2
    <3> QED
      BY <1>1, <3>1, <3>2
  <2> HIDE DEF now, most, e
  <2>5. w \in [now : Nat, most : Nat] /\ w.now = now /\ w.most = most
    BY <2>1, <2>2
  <2> HIDE DEF w
  <2> QED
    BY <1>8, <2>2, <2>3, <2>4, <2>5 DEF e, w
<1>11. CASE t.side = "SELL" /\ ~(t.pnl <= 0)
  <2>0. w = [now |-> 0, most |-> IF 0 > v.most THEN 0 ELSE v.most]
    BY <1>11 DEF LossStep
  <2>1. w = [now |-> 0, most |-> v.most]
    BY <1>2, <2>0
  <2>2. e + 1 \in 1 .. (e + 1) /\ e + 1 \in Nat /\ e < e + 1
    BY <1>1
  <2>3. AtLoss(trades, e + 1, e) /\ Sold(trades, e + 1, e) = 0
    BY <1>6, <2>2
  <2>4. ASSUME NEW i \in Nat, AtLoss(trades, i, e) PROVE Sold(trades, i, e) <= 0
    <3>1. CASE i <= e
      BY <1>5, <1>11, <2>4, <3>1
    <3>2. CASE e < i
      BY <1>6, <3>2
    <3> QED
      BY <1>1, <3>1, <3>2
  <2> HIDE DEF e
  <2>5. w \in [now : Nat, most : Nat] /\ w.now = 0 /\ w.most = v.most
    BY <1>2, <2>1
  <2> HIDE DEF w
  <2>6. 0 <= v.most /\ v.most <= v.most
    BY <1>2
  <2> QED
    BY <1>8, <2>2, <2>3, <2>4, <2>5, <2>6 DEF e, w
<1> QED
  BY <1>9, <1>10, <1>11

\* The fold goes from trade to trade.
LEMMA LossFolds ==
  ASSUME NEW trades \in Seq(Trades)
  PROVE  \E h : /\ h[0] = [now |-> 0, most |-> 0]
                /\ \A k \in 0 .. (Len(trades) - 1) : h[k + 1] = LossStep(h[k], trades[k + 1])
                /\ h[Len(trades)] = FoldLeft(LossStep, [now |-> 0, most |-> 0], trades)
<1> DEFINE n == Len(trades)
           V == [now : Nat, most : Nat]
           base == [now |-> 0, most |-> 0]
           op == [k \in 1 .. n |-> [v \in V |-> LossStep(v, trades[k])]]
           Folds(g) == g = [s \in SUBSET (1 .. n) |->
                              IF s = {} THEN base ELSE LossStep(g[s \ {Max(s)}], trades[Max(s)])]
           c == CHOOSE g : Folds(g)
           h == [k \in 0 .. n |-> c[1 .. k]]
<1>1. n \in Nat /\ DOMAIN trades = 1 .. n /\ base \in V
  OBVIOUS
<1>2. op \in [1 .. n -> [V -> V]]
  <2>1. ASSUME NEW v \in V, NEW k \in 1 .. n PROVE LossStep(v, trades[k]) \in V
    BY DEF LossStep
  <2> HIDE DEF V
  <2> QED
    BY <2>1
<1>3. PICK g \in [SUBSET (1 .. n) -> V] : Folding(g, n, base, op)
  <2> HIDE DEF op, V, base, n
  <2> QED
    BY <1>1, <1>2, FoldExists
<1>4. Folds(g)
  <2>1. ASSUME NEW s \in SUBSET (1 .. n), s # {}
        PROVE  g[s] = LossStep(g[s \ {Max(s)}], trades[Max(s)])
    <3>1. Max(s) \in 1 .. n /\ g[s \ {Max(s)}] \in V
      BY <1>1, <2>1, MaxOf
    <3>2. op[Max(s)][g[s \ {Max(s)}]] = LossStep(g[s \ {Max(s)}], trades[Max(s)])
      <4> HIDE DEF V
      <4> QED
        BY <3>1
    <3> HIDE DEF V, op, base
    <3> QED
      BY <1>3, <2>1, <3>2 DEF Folding
  <2> HIDE DEF V, op, base
  <2>2. g[{}] = base
    BY <1>3 DEF Folding
  <2> QED
    BY <1>3, <2>1, <2>2
<1>5. Folds(c)
  <2> HIDE DEF Folds
  <2> QED
    BY <1>4
<1>6. FoldLeft(LossStep, base, trades) = c[1 .. n]
  BY <1>1 DEF FoldLeft, MapThenFoldSet
<1> HIDE DEF c, base
<1>7. c[{}] = base
  BY <1>5
<1>8. \A s \in SUBSET (1 .. n) :
        s # {} => c[s] = LossStep(c[s \ {Max(s)}], trades[Max(s)])
  BY <1>5
<1>9. ASSUME NEW k \in 1 .. n PROVE c[1 .. k] = LossStep(c[1 .. (k - 1)], trades[k])
  <2> HIDE DEF n, Folds
  <2>1. /\ 1 .. k \in SUBSET (1 .. n) /\ 1 .. k # {}
        /\ Max(1 .. k) = k /\ (1 .. k) \ {k} = 1 .. (k - 1)
    BY <1>1, Prefix
  <2> QED
    BY <1>8, <2>1
<1>10. h[0] = base /\ h[n] = c[1 .. n]
  <2>1. 1 .. 0 = {} /\ 0 \in 0 .. n /\ n \in 0 .. n
    BY <1>1
  <2> QED
    BY <1>7, <2>1
<1>11. ASSUME NEW k \in 0 .. (n - 1) PROVE h[k + 1] = LossStep(h[k], trades[k + 1])
  <2>1. k + 1 \in 1 .. n /\ k \in 0 .. n /\ k + 1 \in 0 .. n /\ (k + 1) - 1 = k
    BY <1>1
  <2>2. c[1 .. (k + 1)] = LossStep(c[1 .. ((k + 1) - 1)], trades[k + 1])
    BY <1>9, <2>1
  <2> QED
    BY <2>1, <2>2
<1> HIDE DEF h
<1> QED
  BY <1>6, <1>10, <1>11 DEF base

\* The streak that is reported is the longest there is.
LEMMA LongestStreak ==
  ASSUME NEW trades \in Seq(Trades)
  PROVE  \E v : v.most = MaxConsecutiveLosses(trades) /\ Streaks(trades, v, Len(trades))
<1> DEFINE n == Len(trades)
<1>1. PICK h : /\ h[0] = [now |-> 0, most |-> 0]
               /\ \A k \in 0 .. (n - 1) : h[k + 1] = LossStep(h[k], trades[k + 1])
               /\ h[n] = FoldLeft(LossStep, [now |-> 0, most |-> 0], trades)
  BY LossFolds
<1> DEFINE T == {k \in Nat : k <= n => Streaks(trades, h[k], k)}
<1>2. n \in Nat
  OBVIOUS
<1>3. 0 \in T
  <2>1. ASSUME NEW i \in Nat \ {0} PROVE Sold(trades, i, 0) = 0 /\ AtLoss(trades, i, 0)
    <3>1. 0 \in Nat /\ i \in Nat /\ 0 < i
      OBVIOUS
    <3> QED
      BY <3>1, SalesTypes
  <2>2. Sold(trades, 0, 0) = 0
    <3>1. SalesIn(trades, 0, 0) = {}
      BY DEF SalesIn, Sells
    <3> QED
      BY <3>1, FS_EmptySet DEF Sold
  <2>3. \A i \in Nat, j \in 0 .. 0 : Sold(trades, i, j) = 0
    BY <2>1, <2>2
  <2>4. Streaks(trades, [now |-> 0, most |-> 0], 0)
    BY <2>1, <2>3 DEF Streaks
  <2> QED
    BY <1>1, <2>4
<1>4. ASSUME NEW k \in T PROVE k + 1 \in T
  <2> SUFFICES ASSUME k + 1 <= n PROVE Streaks(trades, h[k + 1], k + 1)
    OBVIOUS
  <2>1. k \in Nat /\ k <= n /\ k \in 0 .. (n - 1)
    BY <1>2
  <2>2. Streaks(trades, h[k], k)
    BY <2>1
  <2> QED
    BY <1>1, <2>1, <2>2, StreaksNext
<1>5. T = Nat
  <2> HIDE DEF T
  <2>1. T \in SUBSET Nat
    BY DEF T
  <2> QED
    BY <1>3, <1>4, <2>1, NatSets
<1>6. Streaks(trades, h[n], n)
  BY <1>2, <1>5
<1> QED
  BY <1>1, <1>6 DEF MaxConsecutiveLosses

-----------------------------------------------------------------------------
(* The time between buys and sales *)

\* What a step makes of the queue, the sum and the number of pairs.
LEMMA PairTypes ==
  ASSUME NEW v \in [queue : Seq(Int), sum : Int, pairs : Nat], NEW t, t.time \in Int
  PROVE  /\ PairStep(v, t) \in [queue : Seq(Int), sum : Int, pairs : Nat]
         /\ t.side = "BUY" =>
              PairStep(v, t) = [queue |-> Append(v.queue, t.time), sum |-> v.sum, pairs |-> v.pairs]
         /\ t.side # "BUY" /\ v.queue # <<>> =>
              PairStep(v, t) = [queue |-> Tail(v.queue), sum |-> v.sum + t.time - Head(v.queue),
                                pairs |-> v.pairs + 1]
<1>1. CASE t.side = "BUY"
  <2>1. PairStep(v, t) = [v EXCEPT !.queue = Append(@, t.time)]
    BY <1>1 DEF PairStep
  <2>2. Append(v.queue, t.time) \in Seq(Int)
    OBVIOUS
  <2> QED
    BY <1>1, <2>1, <2>2
<1>2. CASE t.side # "BUY" /\ v.queue = <<>>
  BY <1>2 DEF PairStep
<1>3. CASE t.side # "BUY" /\ v.queue # <<>>
  <2>1. Tail(v.queue) \in Seq(Int) /\ Head(v.queue) \in Int
    BY <1>3
  <2> QED
    BY <1>3, <2>1 DEF PairStep
<1> QED
  BY <1>1, <1>2, <1>3

\* The fold goes from trade to trade.
LEMMA PairFolds ==
  ASSUME NEW trades \in Seq(Trades)
  PROVE  \E h : /\ h[0] = [queue |-> <<>>, sum |-> 0, pairs |-> 0]
                /\ \A k \in 0 .. (Len(trades) - 1) : h[k + 1] = PairStep(h[k], trades[k + 1])
                /\ h[Len(trades)] = FoldLeft(PairStep, [queue |-> <<>>, sum |-> 0, pairs |-> 0], trades)
<1> DEFINE n == Len(trades)
           V == [queue : Seq(Int), sum : Int, pairs : Nat]
           base == [queue |-> <<>>, sum |-> 0, pairs |-> 0]
           op == [k \in 1 .. n |-> [v \in V |-> PairStep(v, trades[k])]]
           Folds(g) == g = [s \in SUBSET (1 .. n) |->
                              IF s = {} THEN base ELSE PairStep(g[s \ {Max(s)}], trades[Max(s)])]
           c == CHOOSE g : Folds(g)
           h == [k \in 0 .. n |-> c[1 .. k]]
<1>1. n \in Nat /\ DOMAIN trades = 1 .. n /\ base \in V
  OBVIOUS
<1>2. op \in [1 .. n -> [V -> V]]
  <2>1. ASSUME NEW v \in V, NEW k \in 1 .. n PROVE PairStep(v, trades[k]) \in V
    <3>1. trades[k].time \in Nat
      <4>1. trades[k] \in Trades
        OBVIOUS
      <4> QED
        BY <4>1 DEF Trades
    <3> QED
      BY <3>1, PairTypes
  <2> HIDE DEF V
  <2> QED
    BY <2>1
<1>3. PICK g \in [SUBSET (1 .. n) -> V] : Folding(g, n, base, op)
  <2> HIDE DEF op, V, base, n
  <2> QED
    BY <1>1, <1>2, FoldExists
<1>4. Folds(g)
  <2>1. ASSUME NEW s \in SUBSET (1 .. n), s # {}
        PROVE  g[s] = PairStep(g[s \ {Max(s)}], trades[Max(s)])
    <3>1. Max(s) \in 1 .. n /\ g[s \ {Max(s)}] \in V
      BY <1>1, <2>1, MaxOf
    <3>2. op[Max(s)][g[s \ {Max(s)}]] = PairStep(g[s \ {Max(s)}], trades[Max(s)])
      <4> HIDE DEF V
      <4> QED
        BY <3>1
    <3> HIDE DEF V, op, base
    <3> QED
      BY <1>3, <2>1, <3>2 DEF Folding
  <2> HIDE DEF V, op, base
  <2>2. g[{}] = base
    BY <1>3 DEF Folding
  <2> QED
    BY <1>3, <2>1, <2>2
<1>5. Folds(c)
  <2> HIDE DEF Folds
  <2> QED
    BY <1>4
<1>6. FoldLeft(PairStep, base, trades) = c[1 .. n]
  BY <1>1 DEF FoldLeft, MapThenFoldSet
<1> HIDE DEF c, base
<1>7. c[{}] = base
  BY <1>5
<1>8. \A s \in SUBSET (1 .. n) :
        s # {} => c[s] = PairStep(c[s \ {Max(s)}], trades[Max(s)])
  BY <1>5
<1>9. ASSUME NEW k \in 1 .. n PROVE c[1 .. k] = PairStep(c[1 .. (k - 1)], trades[k])
  <2> HIDE DEF n, Folds
  <2>1. /\ 1 .. k \in SUBSET (1 .. n) /\ 1 .. k # {}
        /\ Max(1 .. k) = k /\ (1 .. k) \ {k} = 1 .. (k - 1)
    BY <1>1, Prefix
  <2> QED
    BY <1>8, <2>1
<1>10. h[0] = base /\ h[n] = c[1 .. n]
  <2>1. 1 .. 0 = {} /\ 0 \in 0 .. n /\ n \in 0 .. n
    BY <1>1
  <2> QED
    BY <1>7, <2>1
<1>11. ASSUME NEW k \in 0 .. (n - 1) PROVE h[k + 1] = PairStep(h[k], trades[k + 1])
  <2>1. k + 1 \in 1 .. n /\ k \in 0 .. n /\ k + 1 \in 0 .. n /\ (k + 1) - 1 = k
    BY <1>1
  <2>2. c[1 .. (k + 1)] = PairStep(c[1 .. ((k + 1) - 1)], trades[k + 1])
    BY <1>9, <2>1
  <2> QED
    BY <2>1, <2>2
<1> HIDE DEF h
<1> QED
  BY <1>6, <1>10, <1>11 DEF base

\* What the fold has after the first k trades: the buys not yet paired, and the
\* times of the others counted off against the sales.
Pairs(trades, v, k) ==
  /\ v \in [queue : Seq(Int), sum : Int, pairs : Nat]
  /\ v.pairs = Sold(trades, 1, k)
  /\ Len(v.queue) + 2 * Sold(trades, 1, k) = k
  /\ v.sum - Added(v.queue) = SumFunctionOnSet(Signed(trades), 1 .. k)

\* The times are numbers.
LEMMA SignedTypes ==
  ASSUME NEW trades \in Seq(Trades), NEW k \in Nat, k <= Len(trades)
  PROVE  Numbers(Signed(trades), 1 .. k)
<1>1. ASSUME NEW i \in 1 .. k PROVE Signed(trades)[i] \in Int
  <2>1. i \in DOMAIN trades /\ trades[i] \in Trades
    OBVIOUS
  <2>2. trades[i].time \in Nat
    BY <2>1 DEF Trades
  <2> QED
    BY <2>1, <2>2 DEF Signed
<1> QED
  BY <1>1 DEF Numbers

\* One trade more.
LEMMA PairsNext ==
  ASSUME NEW trades \in Seq(Trades), Balanced(trades), NEW k \in Nat, k + 1 <= Len(trades),
         NEW v, Pairs(trades, v, k)
  PROVE  Pairs(trades, PairStep(v, trades[k + 1]), k + 1)
<1> DEFINE t == trades[k + 1]
           w == PairStep(v, t)
           m == Sold(trades, 1, k)
           s == SumFunctionOnSet(Signed(trades), 1 .. k)
<1>1. k + 1 \in DOMAIN trades /\ t \in Trades
  OBVIOUS
<1>2. t.time \in Nat /\ t.side \in {"BUY", "SELL"}
  BY <1>1 DEF Trades
<1>3. m \in Nat
  BY SalesTypes
<1>4. IF t.side = "SELL" THEN Sold(trades, 1, k + 1) = m + 1 ELSE Sold(trades, 1, k + 1) = m
  <2>1. 1 \in Nat /\ 1 <= k + 1
    OBVIOUS
  <2> QED
    BY <2>1, SalesNext
<1>5. /\ s \in Int
      /\ SumFunctionOnSet(Signed(trades), 1 .. (k + 1))
           = s + (IF t.side = "SELL" THEN t.time ELSE -t.time)
  <2>1. Numbers(Signed(trades), 1 .. (k + 1))
    BY SignedTypes
  <2>2. Signed(trades)[k + 1] = IF t.side = "SELL" THEN t.time ELSE -t.time
    BY <1>1 DEF Signed
  <2>3. s \in Int /\ SumFunctionOnSet(Signed(trades), 1 .. (k + 1)) = s + Signed(trades)[k + 1]
    BY <2>1, SumNext
  <2> QED
    BY <2>2, <2>3
<1>6. /\ v.queue \in Seq(Int) /\ v.sum \in Int /\ v.pairs = m
      /\ Len(v.queue) \in Nat /\ Len(v.queue) + 2 * m = k
      /\ v.sum - Added(v.queue) = s /\ Added(v.queue) \in Int
  BY AddedAppend DEF Pairs
<1>9. /\ t.side = "BUY" =>
           w = [queue |-> Append(v.queue, t.time), sum |-> v.sum, pairs |-> v.pairs]
      /\ t.side # "BUY" /\ v.queue # <<>> =>
           w = [queue |-> Tail(v.queue), sum |-> v.sum + t.time - Head(v.queue),
                pairs |-> v.pairs + 1]
  <2>1. t.time \in Int /\ v \in [queue : Seq(Int), sum : Int, pairs : Nat]
    BY <1>2 DEF Pairs
  <2> HIDE DEF t
  <2> QED
    BY <2>1, PairTypes
<1> DEFINE time == t.time
<1>10. time \in Nat
  BY <1>2
<1> HIDE DEF m, s, t, w, time
<1>7. CASE t.side = "BUY"
  <2> DEFINE q == Append(v.queue, time)
  <2>1. w = [queue |-> q, sum |-> v.sum, pairs |-> v.pairs]
    BY <1>7, <1>9 DEF time
  <2>2. Added(q) = Added(v.queue) + time
    <3>1. time \in Int
      BY <1>10
    <3> QED
      BY <1>6, <3>1, AddedAppend
  <2>3. q \in Seq(Int) /\ Len(q) = Len(v.queue) + 1
    BY <1>6, <1>10
  <2>4. Sold(trades, 1, k + 1) = m
    BY <1>4, <1>7
  <2>5. SumFunctionOnSet(Signed(trades), 1 .. (k + 1)) = s + (-time)
    BY <1>5, <1>7 DEF time
  <2> DEFINE y == Added(v.queue)
             l == Len(v.queue)
  <2>8. y \in Int /\ Added(q) = y + time /\ v.sum - y = s
        /\ l \in Nat /\ Len(q) = l + 1 /\ l + 2 * m = k
    BY <1>6, <2>2, <2>3
  <2> HIDE DEF q, y, l
  <2>6. v.sum - Added(q) = s + (-time)
    <3> DEFINE u == v.sum
               z == Added(q)
    <3>1. u \in Int /\ s \in Int /\ z = y + time /\ u - y = s
      BY <1>5, <1>6, <2>8
    <3> HIDE DEF u, z
    <3>2. u - z = s + (-time)
      BY <1>10, <2>8, <3>1
    <3> QED
      BY <3>2 DEF u, z
  <2>7. Len(q) + 2 * m = k + 1
    BY <1>3, <2>8
  <2>9. Pairs(trades, w, k + 1)
    BY <1>3, <1>6, <2>1, <2>3, <2>4, <2>5, <2>6, <2>7 DEF Pairs
  <2> QED
    BY <2>9 DEF w, t
<1>8. CASE t.side = "SELL"
  <2> DEFINE q == Tail(v.queue)
             x == Head(v.queue)
             y == Added(v.queue)
             l == Len(v.queue)
  <2>1. Sold(trades, 1, k + 1) = m + 1
    BY <1>4, <1>8
  <2>2. 2 * (m + 1) <= k + 1
    BY <1>1, <2>1 DEF Balanced
  <2>3. v.queue # <<>>
    <3>1. l \in Nat /\ l + 2 * m = k
      BY <1>6
    <3> HIDE DEF l
    <3>2. l > 0
      BY <1>3, <2>2, <3>1
    <3> QED
      BY <3>2 DEF l
  <2>4. w = [queue |-> q, sum |-> v.sum + time - x, pairs |-> v.pairs + 1]
    BY <1>8, <1>9, <2>3 DEF time
  <2>5. q \in Seq(Int) /\ x \in Int /\ Len(q) = l - 1 /\ l \in Nat
    BY <1>6, <2>3
  <2>6. Added(q) = y - x /\ y \in Int
    BY <1>6, <2>3, AddedTail
  <2>7. SumFunctionOnSet(Signed(trades), 1 .. (k + 1)) = s + time
    BY <1>5, <1>8 DEF time
  <2>8. v.sum - y = s /\ l + 2 * m = k
    BY <1>6
  <2> HIDE DEF q, x, y, l
  <2>9. (v.sum + time - x) - Added(q) = s + time /\ v.sum + time - x \in Int
    <3> DEFINE u == v.sum
               z == Added(q)
    <3>1. u \in Int /\ s \in Int /\ z = y - x /\ y \in Int /\ u - y = s /\ x \in Int
      BY <1>5, <1>6, <2>5, <2>6, <2>8
    <3> HIDE DEF u, z
    <3>2. (u + time - x) - z = s + time /\ u + time - x \in Int
      BY <1>10, <3>1
    <3> QED
      BY <3>2 DEF u, z
  <2>10. Len(q) + 2 * (m + 1) = k + 1
    BY <1>3, <2>5, <2>8
  <2>11. v.pairs + 1 = m + 1 /\ m + 1 \in Nat
    BY <1>3, <1>6
  <2>12. Pairs(trades, w, k + 1)
    BY <2>1, <2>4, <2>5, <2>7, <2>9, <2>10, <2>11 DEF Pairs
  <2> QED
    BY <2>12 DEF w, t
<1> QED
  BY <1>2, <1>7, <1>8

\* As many trades are sales as are buys: then all buys are paired, and the sum is
\* that of the times, those of the sales for and those of the buys against.
LEMMA AllPaired ==
  ASSUME NEW trades \in Seq(Trades), Balanced(trades),
         Len(trades) = 2 * Cardinality(Sells(trades))
  PROVE  AvgHolding(trades) = <<SumFunctionOnSet(Signed(trades), DOMAIN trades),
                                Cardinality(Sells(trades))>>
<1> DEFINE n == Len(trades)
<1>1. PICK h : /\ h[0] = [queue |-> <<>>, sum |-> 0, pairs |-> 0]
               /\ \A k \in 0 .. (n - 1) : h[k + 1] = PairStep(h[k], trades[k + 1])
               /\ h[n] = FoldLeft(PairStep, [queue |-> <<>>, sum |-> 0, pairs |-> 0], trades)
  BY PairFolds
<1> DEFINE T == {k \in Nat : k <= n => Pairs(trades, h[k], k)}
<1>2. n \in Nat /\ DOMAIN trades = 1 .. n
  OBVIOUS
<1>3. 0 \in T
  <2>1. Sold(trades, 1, 0) = 0
    <3>1. 0 \in Nat /\ 1 \in Nat /\ 0 < 1
      OBVIOUS
    <3> QED
      BY <3>1, SalesTypes
  <2>2. 1 .. 0 = {} /\ DOMAIN <<>> = {} /\ <<>> \in Seq(Int) /\ Len(<<>>) = 0
    OBVIOUS
  <2>3. SumFunctionOnSet(Signed(trades), 1 .. 0) = 0 /\ Added(<<>>) = 0
    BY <2>2, SumEmpty DEF Added
  <2>4. Pairs(trades, [queue |-> <<>>, sum |-> 0, pairs |-> 0], 0)
    BY <2>1, <2>2, <2>3 DEF Pairs
  <2> QED
    BY <1>1, <2>4
<1>4. ASSUME NEW k \in T PROVE k + 1 \in T
  <2> SUFFICES ASSUME k + 1 <= n PROVE Pairs(trades, h[k + 1], k + 1)
    OBVIOUS
  <2>1. k \in Nat /\ k <= n /\ k \in 0 .. (n - 1)
    BY <1>2
  <2>2. Pairs(trades, h[k], k)
    BY <2>1
  <2> QED
    BY <1>1, <2>1, <2>2, PairsNext
<1>5. T = Nat
  <2> HIDE DEF T
  <2>1. T \in SUBSET Nat
    BY DEF T
  <2> QED
    BY <1>3, <1>4, <2>1, NatSets
<1> DEFINE v == h[n]
           m == Cardinality(Sells(trades))
<1>6. Pairs(trades, v, n)
  BY <1>2, <1>5
<1>7. Sold(trades, 1, n) = m /\ m \in Nat
  <2>1. Sold(trades, 1, n) = m
    BY AllSales DEF Sold
  <2>2. Sold(trades, 1, n) \in Nat
    BY <1>2, SalesTypes
  <2> QED
    BY <2>1, <2>2
<1>8. Paired(trades) = v
  BY <1>1 DEF Paired
<1>9. n = 2 * m
  OBVIOUS
<1> HIDE DEF v, m, n
<1>10. v.queue = <<>>
  <2>1. v.queue \in Seq(Int) /\ Len(v.queue) \in Nat /\ Len(v.queue) + 2 * m = n
    BY <1>6, <1>7 DEF Pairs
  <2> DEFINE l == Len(v.queue)
  <2>2. l = 0
    <3>1. l \in Nat /\ l + 2 * m = n
      BY <2>1
    <3> HIDE DEF l
    <3> QED
      BY <1>7, <1>9, <3>1
  <2> QED
    BY <2>1, <2>2
<1>11. Added(v.queue) = 0
  BY <1>10, SumEmpty DEF Added
<1>12. v.sum = SumFunctionOnSet(Signed(trades), 1 .. n) /\ v.pairs = m
  BY <1>6, <1>7, <1>11 DEF Pairs
<1> QED
  BY <1>2, <1>8, <1>12 DEF AvgHolding, m

-----------------------------------------------------------------------------
(* The deepest fall *)

\* A common factor may be left out of a comparison.
LEMMA Cancels ==
  ASSUME NEW w \in Nat \ {0}, NEW x \in Int, NEW y \in Int, w * x <= w * y
  PROVE  x <= y
<1> SUFFICES ASSUME x > y PROVE FALSE
  OBVIOUS
<1>1. x - (y + 1) \in Nat /\ w \in Nat
  OBVIOUS
<1>2. w * (x - (y + 1)) \in Nat
  BY <1>1
<1>3. w * (x - (y + 1)) = w * x - w * y - w
  OBVIOUS
<1>4. w * x \in Int /\ w * y \in Int
  OBVIOUS
<1> DEFINE p == w * x
           q == w * y
           r == w * (x - (y + 1))
<1>5. p \in Int /\ q \in Int /\ r \in Nat /\ r = p - q - w /\ p <= q
  BY <1>2, <1>3, <1>4
<1> HIDE DEF p, q, r
<1> QED
  BY <1>5

\* A fall by x of y is no steeper than one that a steeper fall is steeper than.
LEMMA SteeperOfAll ==
  ASSUME NEW x \in Int, NEW y \in Nat, NEW r \in Nat \X Nat, NEW s \in Nat \X Nat,
         r[2] > 0, ~Steeper(<<x, y>>, r), Steeper(s, r)
  PROVE  ~Steeper(<<x, y>>, s)
<1> DEFINE a == r[1]
           b == r[2]
           c == s[1]
           d == s[2]
<1>1. a \in Nat /\ b \in Nat \ {0} /\ c \in Nat /\ d \in Nat
  OBVIOUS
<1>2. ~(x * b > a * y) /\ c * b > a * d
  BY DEF Steeper
<1> HIDE DEF a, b, c, d
<1>3. x * b <= a * y /\ a * d <= c * b
  <2>1. x * b \in Int /\ a * y \in Int /\ c * b \in Int /\ a * d \in Int
    BY <1>1
  <2> QED
    BY <1>2, <2>1
<1>4. (x * b) * d <= (a * y) * d
  <2> DEFINE p == x * b
             q == a * y
  <2>1. p \in Int /\ q \in Int /\ p <= q
    BY <1>1, <1>3
  <2> HIDE DEF p, q
  <2>2. (q - p) * d \in Nat
    BY <1>1, <2>1
  <2>3. (q - p) * d = q * d - p * d /\ q * d \in Int /\ p * d \in Int
    BY <1>1, <2>1
  <2>4. p * d <= q * d
    BY <2>2, <2>3
  <2> QED
    BY <2>4 DEF p, q
<1>5. (a * d) * y <= (c * b) * y
  <2> DEFINE p == a * d
             q == c * b
  <2>1. p \in Int /\ q \in Int /\ p <= q
    BY <1>1, <1>3
  <2> HIDE DEF p, q
  <2>2. (q - p) * y \in Nat
    BY <2>1
  <2>3. (q - p) * y = q * y - p * y /\ q * y \in Int /\ p * y \in Int
    BY <2>1
  <2>4. p * y <= q * y
    BY <2>2, <2>3
  <2> QED
    BY <2>4 DEF p, q
<1>6. b * (x * d) <= b * (c * y)
  <2>1. /\ b * (x * d) = (x * b) * d /\ b * (c * y) = (c * b) * y
        /\ (a * y) * d = (a * d) * y
    BY <1>1
  <2> DEFINE p == (x * b) * d
             q == (a * y) * d
             z == (c * b) * y
  <2>2. p \in Int /\ q \in Int /\ z \in Int /\ p <= q /\ q <= z
    BY <1>1, <1>4, <1>5, <2>1
  <2> HIDE DEF p, q, z
  <2>3. p <= z
    BY <2>2
  <2> QED
    BY <2>1, <2>3 DEF p, z
<1>7. x * d \in Int /\ c * y \in Int
  BY <1>1
<1>8. x * d <= c * y
  <2> DEFINE p == x * d
             q == c * y
  <2>1. p \in Int /\ q \in Int /\ b * p <= b * q
    BY <1>6, <1>7
  <2> HIDE DEF p, q
  <2>2. p <= q
    BY <1>1, <2>1, Cancels
  <2> QED
    BY <2>2 DEF p, q
<1>9. ~(x * d > c * y)
  BY <1>7, <1>8
<1> QED
  BY <1>9 DEF Steeper, c, d

\* A fall to e from less than the peak is no steeper than that from the peak.
LEMMA PeakFallsMost ==
  ASSUME NEW e \in Nat, NEW x \in Nat, NEW peak \in Nat, NEW r \in Nat \X Nat,
         x <= peak, r[1] <= r[2], ~Steeper(<<peak - e, peak>>, r)
  PROVE  ~Steeper(<<x - e, x>>, r)
<1> DEFINE a == r[1]
           b == r[2]
           g == b - a
           f == peak - x
<1>1. a \in Nat /\ b \in Nat /\ g \in Nat /\ f \in Nat
  OBVIOUS
<1>2. ~((peak - e) * b > a * peak)
  BY DEF Steeper
<1>3. (peak - e) * b - a * peak = peak * g - e * b
  BY <1>1
<1>4. (x - e) * b - a * x = x * g - e * b
  BY <1>1
<1>5. peak * g - x * g = f * g /\ f * g \in Nat
  BY <1>1
<1> DEFINE p == (peak - e) * b
           q == a * peak
           s == (x - e) * b
           t == a * x
           u == peak * g
           v == x * g
           w == e * b
           y == f * g
<1>6. /\ p \in Int /\ q \in Int /\ s \in Int /\ t \in Int /\ u \in Int /\ v \in Int /\ w \in Int
      /\ y \in Nat /\ p - q = u - w /\ s - t = v - w /\ u - v = y /\ ~(p > q)
  BY <1>1, <1>2, <1>3, <1>4, <1>5
<1> HIDE DEF p, q, s, t, u, v, w, y
<1>7. ~(s > t)
  BY <1>6
<1> QED
  BY <1>7 DEF Steeper, s, t, a, b

\* What a step makes of the peak and the worst fall.
LEMMA FallTypes ==
  ASSUME NEW v \in [peak : Int, worst : Int \X Int], NEW e \in Int
  PROVE  FallStep(v, e) \in [peak : Int, worst : Int \X Int]
<1> DEFINE peak == IF e > v.peak THEN e ELSE v.peak
           dd == <<peak - e, peak>>
           worst == IF peak > 0 /\ Steeper(dd, v.worst) THEN dd ELSE v.worst
<1>1. peak \in Int
  OBVIOUS
<1>2. FallStep(v, e) = [peak |-> peak, worst |-> worst]
  BY DEF FallStep
<1> HIDE DEF peak
<1>3. worst \in Int \X Int
  BY <1>1
<1> HIDE DEF worst
<1> QED
  BY <1>1, <1>2, <1>3

\* The fold goes from equity to equity.
LEMMA FallFolds ==
  ASSUME NEW curve \in Seq(Nat), curve # <<>>
  PROVE  \E h : /\ h[0] = [peak |-> curve[1], worst |-> <<0, 1>>]
                /\ \A k \in 0 .. (Len(curve) - 1) : h[k + 1] = FallStep(h[k], curve[k + 1])
                /\ h[Len(curve)] = FoldLeft(FallStep, [peak |-> curve[1], worst |-> <<0, 1>>], curve)
<1> DEFINE n == Len(curve)
           V == [peak : Int, worst : Int \X Int]
           base == [peak |-> curve[1], worst |-> <<0, 1>>]
           op == [k \in 1 .. n |-> [v \in V |-> FallStep(v, curve[k])]]
           Folds(g) == g = [s \in SUBSET (1 .. n) |->
                              IF s = {} THEN base ELSE FallStep(g[s \ {Max(s)}], curve[Max(s)])]
           c == CHOOSE g : Folds(g)
           h == [k \in 0 .. n |-> c[1 .. k]]
<1>1. n \in Nat /\ DOMAIN curve = 1 .. n /\ base \in V
  OBVIOUS
<1>2. op \in [1 .. n -> [V -> V]]
  <2>1. ASSUME NEW v \in V, NEW k \in 1 .. n PROVE FallStep(v, curve[k]) \in V
    <3>1. curve[k] \in Int
      OBVIOUS
    <3> QED
      BY <3>1, FallTypes
  <2> HIDE DEF V
  <2> QED
    BY <2>1
<1>3. PICK g \in [SUBSET (1 .. n) -> V] : Folding(g, n, base, op)
  <2> HIDE DEF op, V, base, n
  <2> QED
    BY <1>1, <1>2, FoldExists
<1>4. Folds(g)
  <2>1. ASSUME NEW s \in SUBSET (1 .. n), s # {}
        PROVE  g[s] = FallStep(g[s \ {Max(s)}], curve[Max(s)])
    <3>1. Max(s) \in 1 .. n /\ g[s \ {Max(s)}] \in V
      BY <1>1, <2>1, MaxOf
    <3>2. op[Max(s)][g[s \ {Max(s)}]] = FallStep(g[s \ {Max(s)}], curve[Max(s)])
      <4> HIDE DEF V
      <4> QED
        BY <3>1
    <3> HIDE DEF V, op, base
    <3> QED
      BY <1>3, <2>1, <3>2 DEF Folding
  <2> HIDE DEF V, op, base
  <2>2. g[{}] = base
    BY <1>3 DEF Folding
  <2> QED
    BY <1>3, <2>1, <2>2
<1>5. Folds(c)
  <2> HIDE DEF Folds
  <2> QED
    BY <1>4
<1>6. FoldLeft(FallStep, base, curve) = c[1 .. n]
  BY <1>1 DEF FoldLeft, MapThenFoldSet
<1> HIDE DEF c, base
<1>7. c[{}] = base
  BY <1>5
<1>8. \A s \in SUBSET (1 .. n) :
        s # {} => c[s] = FallStep(c[s \ {Max(s)}], curve[Max(s)])
  BY <1>5
<1>9. ASSUME NEW k \in 1 .. n PROVE c[1 .. k] = FallStep(c[1 .. (k - 1)], curve[k])
  <2> HIDE DEF n, Folds
  <2>1. /\ 1 .. k \in SUBSET (1 .. n) /\ 1 .. k # {}
        /\ Max(1 .. k) = k /\ (1 .. k) \ {k} = 1 .. (k - 1)
    BY <1>1, Prefix
  <2> QED
    BY <1>8, <2>1
<1>10. h[0] = base /\ h[n] = c[1 .. n]
  <2>1. 1 .. 0 = {} /\ 0 \in 0 .. n /\ n \in 0 .. n
    BY <1>1
  <2> QED
    BY <1>7, <2>1
<1>11. ASSUME NEW k \in 0 .. (n - 1) PROVE h[k + 1] = FallStep(h[k], curve[k + 1])
  <2>1. k + 1 \in 1 .. n /\ k \in 0 .. n /\ k + 1 \in 0 .. n /\ (k + 1) - 1 = k
    BY <1>1
  <2>2. c[1 .. (k + 1)] = FallStep(c[1 .. ((k + 1) - 1)], curve[k + 1])
    BY <1>9, <2>1
  <2> QED
    BY <2>1, <2>2
<1> HIDE DEF h
<1> QED
  BY <1>6, <1>10, <1>11 DEF base

\* The fall from an equity to a later one.
Fall(curve, i, j) == <<curve[i] - curve[j], curve[i]>>

\* What the fold has after the first k: the peak, and a fall that none is steeper
\* than.
Falls(curve, v, k) ==
  /\ v \in [peak : Nat, worst : Nat \X Nat]
  /\ v.worst[2] > 0 /\ v.worst[1] <= v.worst[2]
  /\ \A i \in 1 .. k : curve[i] <= v.peak
  /\ \E i \in 1 .. k : curve[i] = v.peak
  /\ \A j \in 1 .. k : \A i \in 1 .. j : ~Steeper(Fall(curve, i, j), v.worst)
  /\ \/ v.worst = <<0, 1>>
     \/ \E j \in 1 .. k : \E i \in 1 .. j : v.worst = Fall(curve, i, j)

\* One equity more.
LEMMA FallsNext ==
  ASSUME NEW curve \in Seq(Nat), NEW k \in Nat, k + 1 <= Len(curve),
         NEW v, Falls(curve, v, k)
  PROVE  Falls(curve, FallStep(v, curve[k + 1]), k + 1)
<1> DEFINE n == k + 1
           e == curve[n]
           peak == IF e > v.peak THEN e ELSE v.peak
           dd == <<peak - e, peak>>
           worst == IF peak > 0 /\ Steeper(dd, v.worst) THEN dd ELSE v.worst
<1>1. n \in Nat /\ e \in Nat /\ \A i \in 1 .. n : curve[i] \in Nat /\ (i \in 1 .. k \/ i = n)
  OBVIOUS
<1>2. FallStep(v, e) = [peak |-> peak, worst |-> worst]
  BY DEF FallStep
<1>3. /\ v.peak \in Nat /\ v.worst \in Nat \X Nat
      /\ v.worst[2] > 0 /\ v.worst[1] <= v.worst[2]
  BY DEF Falls
<1>4. peak \in Nat /\ e <= peak /\ v.peak <= peak /\ (peak = v.peak \/ peak = e)
  BY <1>1, <1>3
<1> HIDE DEF n, e, peak
<1>5. dd \in Nat \X Nat /\ dd[1] = peak - e /\ dd[2] = peak /\ dd[1] <= dd[2]
  BY <1>1, <1>4
<1>6. \A i \in 1 .. n : curve[i] <= peak
  <2>1. ASSUME NEW i \in 1 .. k PROVE curve[i] <= peak
    <3>1. curve[i] <= v.peak /\ i \in 1 .. n
      BY DEF Falls, n
    <3>2. curve[i] \in Nat
      BY <1>1, <3>1
    <3> QED
      BY <1>3, <1>4, <3>1, <3>2
  <2> QED
    BY <1>1, <1>4, <2>1 DEF e
<1>7. \E i \in 1 .. n : curve[i] = peak
  <2>1. CASE peak = v.peak
    <3>1. PICK i \in 1 .. k : curve[i] = v.peak
      BY DEF Falls
    <3>2. i \in 1 .. n
      BY DEF n
    <3> QED
      BY <2>1, <3>1, <3>2
  <2>2. CASE peak = e
    <3>1. n \in 1 .. n
      BY DEF n
    <3> QED
      BY <2>2, <3>1 DEF e
  <2> QED
    BY <1>4, <2>1, <2>2
<1>8. PICK m \in 1 .. n : curve[m] = peak
  BY <1>7
<1>9. Fall(curve, m, n) = dd
  BY <1>8 DEF Fall, e
<1> HIDE DEF dd
<1>10. worst \in Nat \X Nat /\ worst[2] > 0 /\ worst[1] <= worst[2]
  <2>1. CASE peak > 0 /\ Steeper(dd, v.worst)
    BY <1>5, <2>1
  <2>2. CASE ~(peak > 0 /\ Steeper(dd, v.worst))
    BY <1>3, <2>2
  <2> QED
    BY <2>1, <2>2
<1>11. ~Steeper(dd, worst)
  <2>1. CASE peak > 0 /\ Steeper(dd, v.worst)
    <3>1. worst = dd
      BY <2>1
    <3>2. ~(dd[1] * dd[2] > dd[1] * dd[2])
      BY <1>5
    <3> QED
      BY <3>1, <3>2 DEF Steeper
  <2>2. CASE ~(peak > 0)
    <3>1. peak = 0 /\ dd[1] = 0 /\ dd[2] = 0
      BY <1>1, <1>4, <1>5, <2>2
    <3>2. worst[1] \in Nat /\ worst[2] \in Nat
      BY <1>10
    <3> HIDE DEF worst
    <3>3. ~(0 * worst[2] > worst[1] * 0)
      BY <3>2
    <3> QED
      BY <3>1, <3>3 DEF Steeper
  <2>3. CASE ~Steeper(dd, v.worst)
    BY <2>3
  <2> QED
    BY <2>1, <2>2, <2>3
<1>12. worst = v.worst \/ (worst = dd /\ Steeper(dd, v.worst))
  OBVIOUS
<1> HIDE DEF worst
<1>13. ASSUME NEW j \in 1 .. n, NEW i \in 1 .. j PROVE ~Steeper(Fall(curve, i, j), worst)
  <2>1. i \in 1 .. n /\ curve[i] \in Nat /\ curve[j] \in Nat
    <3>1. i \in 1 .. n
      BY <1>1
    <3> QED
      BY <1>1, <3>1
  <2>2. CASE j = n
    <3>1. ~Steeper(<<peak - e, peak>>, worst)
      BY <1>11 DEF dd
    <3>2. curve[i] <= peak
      BY <1>6, <2>1
    <3>3. ~Steeper(<<curve[i] - e, curve[i]>>, worst)
      BY <1>1, <1>4, <1>10, <2>1, <3>1, <3>2, PeakFallsMost
    <3> QED
      BY <2>2, <3>3 DEF Fall, e
  <2>3. CASE j \in 1 .. k
    <3>1. ~Steeper(<<curve[i] - curve[j], curve[i]>>, v.worst)
      BY <2>3 DEF Falls, Fall
    <3>2. CASE worst = v.worst
      BY <3>1, <3>2 DEF Fall
    <3>3. CASE worst = dd /\ Steeper(dd, v.worst)
      <4>1. curve[i] - curve[j] \in Int
        BY <2>1
      <4>2. ~Steeper(<<curve[i] - curve[j], curve[i]>>, dd)
        BY <1>3, <1>5, <2>1, <3>1, <3>3, <4>1, SteeperOfAll
      <4> QED
        BY <3>3, <4>2 DEF Fall
    <3> QED
      BY <1>12, <3>2, <3>3
  <2> QED
    BY <1>1, <2>2, <2>3
<1>14. worst = <<0, 1>> \/ \E j \in 1 .. n : \E i \in 1 .. j : worst = Fall(curve, i, j)
  <2>1. CASE worst = dd
    <3>1. n \in 1 .. n
      BY DEF n
    <3> QED
      BY <1>8, <1>9, <2>1, <3>1
  <2>2. CASE worst = v.worst
    <3>1. 1 .. k \subseteq 1 .. n
      BY DEF n
    <3> QED
      BY <2>2, <3>1 DEF Falls
  <2> QED
    BY <1>12, <2>1, <2>2
<1> DEFINE w == [peak |-> peak, worst |-> worst]
<1>15. w \in [peak : Nat, worst : Nat \X Nat] /\ w.peak = peak /\ w.worst = worst
  BY <1>4, <1>10
<1> HIDE DEF w
<1>16. Falls(curve, w, n)
  BY <1>6, <1>7, <1>10, <1>13, <1>14, <1>15 DEF Falls
<1> QED
  BY <1>2, <1>16 DEF w, e, n

\* The fall that is reported is the deepest there is.
LEMMA DeepestFall ==
  ASSUME NEW curve \in Seq(Nat), Len(curve) > 1
  PROVE  \E v : v.worst = MaxDrawdown(curve) /\ Falls(curve, v, Len(curve))
<1> DEFINE n == Len(curve)
           base == [peak |-> curve[1], worst |-> <<0, 1>>]
<1>2. n \in Nat /\ n > 1 /\ DOMAIN curve = 1 .. n /\ curve # <<>> /\ curve[1] \in Nat
  OBVIOUS
<1>1. PICK h : /\ h[0] = base
               /\ \A k \in 0 .. (n - 1) : h[k + 1] = FallStep(h[k], curve[k + 1])
               /\ h[n] = FoldLeft(FallStep, base, curve)
  BY <1>2, FallFolds
<1> DEFINE T == {k \in Nat : k + 1 <= n => Falls(curve, h[k + 1], k + 1)}
<1>3. 0 \in T
  <2> DEFINE x == curve[1]
  <2>1. h[1] = FallStep(base, x)
    <3>1. 0 \in 0 .. (n - 1) /\ 0 + 1 = 1
      BY <1>2
    <3> HIDE DEF base
    <3> QED
      BY <1>1, <3>1
  <2>2. FallStep(base, x) = base
    <3>1. x \in Nat /\ base.peak = x /\ base.worst = <<0, 1>>
      BY <1>2
    <3>2. ~Steeper(<<x - x, x>>, <<0, 1>>)
      BY <3>1 DEF Steeper
    <3>3. ~(x > x)
      BY <3>1
    <3> HIDE DEF x
    <3> QED
      BY <3>1, <3>2, <3>3 DEF FallStep
  <2>3. Falls(curve, base, 1)
    <3>1. base \in [peak : Nat, worst : Nat \X Nat] /\ base.peak = x /\ base.worst = <<0, 1>>
      BY <1>2
    <3>2. <<0, 1>>[1] = 0 /\ <<0, 1>>[2] = 1
      OBVIOUS
    <3>3. \A i \in 1 .. 1 : i = 1
      OBVIOUS
    <3>4. 1 \in 1 .. 1 /\ x <= x
      BY <1>2
    <3>5. ~Steeper(Fall(curve, 1, 1), <<0, 1>>)
      BY <1>2 DEF Steeper, Fall
    <3> HIDE DEF base
    <3> QED
      BY <3>1, <3>2, <3>3, <3>4, <3>5 DEF Falls
  <2> QED
    BY <2>1, <2>2, <2>3
<1>4. ASSUME NEW k \in T PROVE k + 1 \in T
  <2> SUFFICES ASSUME (k + 1) + 1 <= n PROVE Falls(curve, h[(k + 1) + 1], (k + 1) + 1)
    OBVIOUS
  <2>1. k + 1 \in Nat /\ k + 1 <= n /\ k + 1 \in 0 .. (n - 1)
    BY <1>2
  <2>2. Falls(curve, h[k + 1], k + 1)
    BY <2>1
  <2> HIDE DEF base
  <2>3. h[(k + 1) + 1] = FallStep(h[k + 1], curve[(k + 1) + 1])
    BY <1>1, <2>1
  <2> QED
    BY <2>1, <2>2, <2>3, FallsNext
<1>5. T = Nat
  <2> HIDE DEF T
  <2>1. T \in SUBSET Nat
    BY DEF T
  <2> QED
    BY <1>3, <1>4, <2>1, NatSets
<1>6. Falls(curve, h[n], n)
  <2>1. n - 1 \in Nat /\ (n - 1) + 1 = n /\ n <= n
    BY <1>2
  <2>2. n - 1 \in T
    BY <1>5, <2>1
  <2>3. Falls(curve, h[(n - 1) + 1], (n - 1) + 1)
    BY <2>1, <2>2
  <2> QED
    BY <2>1, <2>3
<1>7. MaxDrawdown(curve) = h[n].worst
  <2>1. ~(n < 2)
    BY <1>2
  <2> QED
    BY <1>1, <2>1 DEF MaxDrawdown
<1> QED
  BY <1>6, <1>7

-----------------------------------------------------------------------------
(* The metrics *)

\* The drawdown is the deepest fall from any equity to a later one; of at most
\* one equity none is a fall.
LEMMA DrawdownTrue ==
  ASSUME account.curve \in Seq(Nat), NEW m, m.drawdown = MaxDrawdown(account.curve)
  PROVE  DrawdownIsDeepest(m)
<1> DEFINE curve == account.curve
           n == Len(curve)
           falls == {<<curve[p[1]] - curve[p[2]], curve[p[1]]>> : p \in
                       {q \in (DOMAIN curve) \X (DOMAIN curve) : q[1] <= q[2]}}
<1>1. n \in Nat /\ DOMAIN curve = 1 .. n /\ \A i \in 1 .. n : curve[i] \in Nat
  OBVIOUS
<1>2. \A fall \in falls : \E j \in 1 .. n : \E i \in 1 .. j : fall = Fall(curve, i, j)
  <2>1. ASSUME NEW p \in (1 .. n) \X (1 .. n), p[1] <= p[2]
        PROVE  p[2] \in 1 .. n /\ p[1] \in 1 .. p[2]
    <3> DEFINE i == p[1]
               j == p[2]
    <3>1. i \in 1 .. n /\ j \in 1 .. n /\ i <= j
      BY <2>1
    <3>2. j \in 1 .. n /\ i \in 1 .. j
      <4> HIDE DEF i, j
      <4> QED
        BY <1>1, <3>1
    <3> QED
      BY <3>2
  <2> QED
    BY <1>1, <2>1 DEF Fall
<1>3. ASSUME NEW j \in 1 .. n, NEW i \in 1 .. j PROVE Fall(curve, i, j) \in falls
  <2>1. i \in 1 .. n /\ i <= j
    BY <1>1
  <2> DEFINE p == <<i, j>>
  <2>2. p \in (DOMAIN curve) \X (DOMAIN curve) /\ p[1] = i /\ p[2] = j
    BY <1>1, <2>1
  <2> HIDE DEF p
  <2> QED
    BY <2>1, <2>2 DEF Fall
<1> HIDE DEF falls
<1>4. CASE n > 1
  <2>1. PICK v : v.worst = MaxDrawdown(curve) /\ Falls(curve, v, n)
    BY <1>4, DeepestFall
  <2> DEFINE worst == v.worst
  <2>2. /\ worst \in Nat \X Nat
        /\ \A j \in 1 .. n : \A i \in 1 .. j : ~Steeper(Fall(curve, i, j), worst)
        /\ \/ worst = <<0, 1>>
           \/ \E j \in 1 .. n : \E i \in 1 .. j : worst = Fall(curve, i, j)
    BY <2>1 DEF Falls
  <2>3. m.drawdown = worst
    BY <2>1
  <2> HIDE DEF worst
  <2>4. \E fall \in falls : ~Steeper(worst, fall)
    <3>1. CASE worst = <<0, 1>>
      <4>1. 1 \in 1 .. n /\ 1 \in 1 .. 1
        BY <1>1, <1>4
      <4>2. Fall(curve, 1, 1) \in falls
        BY <1>3, <4>1
      <4>3. ~Steeper(<<0, 1>>, Fall(curve, 1, 1))
        BY <1>1, <4>1 DEF Steeper, Fall
      <4> QED
        BY <3>1, <4>2, <4>3
    <3>2. CASE \E j \in 1 .. n : \E i \in 1 .. j : worst = Fall(curve, i, j)
      <4>1. ~Steeper(worst, worst)
        <5> DEFINE x == worst[1] * worst[2]
        <5>1. x \in Nat
          BY <2>2
        <5>2. ~(x > x)
          <6> HIDE DEF x
          <6> QED
            BY <5>1
        <5> QED
          BY <5>2 DEF Steeper
      <4> QED
        BY <1>3, <3>2, <4>1
    <3> QED
      BY <2>2, <3>1, <3>2
  <2>5. \A fall \in falls : ~Steeper(fall, worst)
    BY <1>2, <2>2
  <2> QED
    BY <2>3, <2>4, <2>5 DEF DrawdownIsDeepest, falls
<1>5. CASE ~(n > 1)
  <2>1. m.drawdown = <<0, 1>>
    <3>1. n < 2
      BY <1>1, <1>5
    <3> QED
      BY <3>1 DEF MaxDrawdown
  <2>2. ASSUME NEW fall \in falls PROVE ~Steeper(fall, <<0, 1>>)
    <3>1. PICK j \in 1 .. n : \E i \in 1 .. j : fall = Fall(curve, i, j)
      BY <1>2
    <3>2. PICK i \in 1 .. j : fall = Fall(curve, i, j)
      BY <3>1
    <3>3. i = j /\ j \in 1 .. n
      BY <1>1, <1>5
    <3> DEFINE x == curve[j]
    <3>4. x \in Nat /\ fall = <<x - x, x>>
      BY <1>1, <3>2, <3>3 DEF Fall
    <3> HIDE DEF x
    <3> QED
      BY <3>4 DEF Steeper
  <2> QED
    BY <1>5, <2>1, <2>2 DEF DrawdownIsDeepest, falls
<1> QED
  BY <1>4, <1>5

\* The streak is the longest run of sales none of which made a profit.
LEMMA StreakTrue ==
  ASSUME account.trades \in Seq(Trades), NEW m,
         m.streak = MaxConsecutiveLosses(account.trades)
  PROVE  StreakIsLongest(m)
<1> DEFINE trades == account.trades
           n == Len(trades)
           losing == {ks \in {SalesIn(trades, w[1], w[2]) : w \in (DOMAIN trades) \X (DOMAIN trades)} :
                        Losing(trades, ks)}
<1>1. n \in Nat /\ DOMAIN trades = 1 .. n
  OBVIOUS
<1>2. PICK v : v.most = m.streak /\ Streaks(trades, v, n)
  BY LongestStreak
<1>3. ASSUME NEW ks \in losing PROVE Cardinality(ks) <= m.streak
  <2>1. PICK w \in (1 .. n) \X (1 .. n) : ks = SalesIn(trades, w[1], w[2])
    BY <1>1
  <2> DEFINE i == w[1]
             j == w[2]
  <2>2. i \in Nat /\ j \in 0 .. n /\ ks = SalesIn(trades, i, j)
    BY <1>1, <2>1
  <2> HIDE DEF i, j
  <2>3. AtLoss(trades, i, j) /\ Cardinality(ks) = Sold(trades, i, j)
    BY <2>2 DEF AtLoss, Sold
  <2> QED
    BY <1>2, <2>2, <2>3 DEF Streaks
<1>4. ASSUME NEW i \in 1 .. n, NEW j \in 1 .. n, AtLoss(trades, i, j)
      PROVE  SalesIn(trades, i, j) \in losing
  <2> DEFINE w == <<i, j>>
  <2>1. w \in (DOMAIN trades) \X (DOMAIN trades) /\ w[1] = i /\ w[2] = j
    BY <1>1
  <2> HIDE DEF w
  <2> DEFINE ks == SalesIn(trades, i, j)
  <2>2. ks = SalesIn(trades, w[1], w[2]) /\ Losing(trades, ks)
    BY <1>4, <2>1 DEF AtLoss
  <2> HIDE DEF ks
  <2>3. ks \in losing
    BY <2>1, <2>2
  <2> QED
    BY <2>3 DEF ks
<1> HIDE DEF losing
<1>5. ASSUME m.streak > 0 PROVE \E ks \in losing : Cardinality(ks) = m.streak
  <2>1. PICK i \in Nat, j \in 0 .. n : AtLoss(trades, i, j) /\ Sold(trades, i, j) = m.streak
    BY <1>2, <1>5 DEF Streaks
  <2>2. ~(j < i)
    <3>1. j \in Nat
      BY <1>1
    <3>2. j < i => Sold(trades, i, j) = 0
      BY <3>1, SalesTypes
    <3> QED
      BY <1>5, <2>1, <3>2
  <2>3. j \in 1 .. n
    <3>1. CASE j = 0
      <4>1. SalesIn(trades, i, 0) = {}
        BY <1>1 DEF SalesIn, Sells
      <4>2. Sold(trades, i, j) = 0
        BY <3>1, <4>1, FS_EmptySet DEF Sold
      <4> QED
        BY <1>5, <2>1, <4>2
    <3> QED
      BY <1>1, <3>1
  <2> DEFINE e == IF i = 0 THEN 1 ELSE i
  <2>4. e \in 1 .. n
    BY <1>1, <2>2, <2>3
  <2>5. SalesIn(trades, e, j) = SalesIn(trades, i, j)
    <3>1. CASE i = 0
      <4>1. SalesIn(trades, 1, j) = SalesIn(trades, 0, j)
        <5>1. \A k \in Sells(trades) : k \in Nat /\ 1 <= k /\ 0 <= k
          BY <1>1 DEF Sells
        <5> QED
          BY <5>1 DEF SalesIn
      <4> QED
        BY <3>1, <4>1
    <3>2. CASE i # 0
      BY <3>2
    <3> QED
      BY <3>1, <3>2
  <2> HIDE DEF e
  <2>6. AtLoss(trades, e, j) /\ Sold(trades, e, j) = m.streak
    BY <2>1, <2>5 DEF AtLoss, Sold
  <2>7. SalesIn(trades, e, j) \in losing
    BY <1>4, <2>3, <2>4, <2>6
  <2> QED
    BY <2>6, <2>7 DEF Sold
<1> QED
  BY <1>3, <1>5 DEF StreakIsLongest, losing

\* When nothing is held the profits and the losses of the sales are all that the
\* capital has gained.
LEMMA ProfitTrue ==
  ASSUME WellKept(account), Holdings(account) = {}
  PROVE  /\ ProfitIn(account.trades, Winners(account.trades)) \in Int
         /\ ProfitIn(account.trades, Losers(account.trades)) \in Int
         /\ ProfitIn(account.trades, Winners(account.trades))
              + ProfitIn(account.trades, Losers(account.trades)) = account.capital - InitialCapital
<1> DEFINE trades == account.trades
           n == Len(trades)
           S == 1 .. n
           f == [k \in S |-> trades[k].pnl]
           W == Winners(trades)
           L == Losers(trades)
<1>0. account \in Accounts
  BY DEF WellKept
<1>1. trades \in Seq(Trades) /\ account.capital \in Int /\ InitialCapital \in Int
  BY <1>0, AccountTypes, ConstantTypes
<1>2. n \in Nat /\ DOMAIN trades = S /\ \A k \in S : trades[k] \in Trades
  BY <1>1
<1>3. SumFunctionOnSet(Paid(account), Code) = 0
  <2>1. ASSUME NEW c \in Code PROVE Paid(account)[c] = 0
    <3>1. account.positions[c].qty \in Nat /\ account.positions[c].avg \in Nat
      BY <1>0, AccountTypes
    <3>2. ~(account.positions[c].qty > 0)
      BY DEF Holdings
    <3>3. account.positions[c].qty = 0
      BY <3>1, <3>2
    <3> QED
      BY <1>0, <3>1, <3>3, NoCost, PaidTypes
  <2> QED
    BY <2>1, ConstantTypes, SumZero
<1>4. account.capital + 0 = InitialCapital + ProfitOf(trades)
  BY <1>3 DEF WellKept
<1>5. ProfitOf(trades) = SumFunctionOnSet(f, S)
  BY <1>2 DEF ProfitOf, ProfitIn
<1>6. /\ Numbers(f, S) /\ IsFiniteSet(S)
      /\ W \in SUBSET S /\ L \in SUBSET S /\ W \cap L = {}
      /\ \A k \in S \ (W \cup L) : f[k] = 0
  <2>1. \A k \in S : trades[k].pnl \in Int /\ trades[k].side \in {"BUY", "SELL"}
    BY <1>2 DEF Trades
  <2>2. \A k \in S : trades[k].side = "BUY" => trades[k].pnl = 0
    BY <1>2 DEF WellKept, Matched
  <2>3. IsFiniteSet(S)
    BY <1>2, FS_Interval
  <2> HIDE DEF n
  <2>4. Numbers(f, S)
    BY <2>1 DEF Numbers
  <2>5. W \in SUBSET S /\ L \in SUBSET S
    BY <1>2 DEF Winners, Losers, Sells
  <2>6. W \cap L = {}
    <3>1. ASSUME NEW k \in W, k \in L PROVE FALSE
      <4>1. k \in S /\ trades[k].pnl > 0 /\ trades[k].pnl < 0
        BY <1>2, <3>1 DEF Winners, Losers, Sells
      <4> QED
        BY <2>1, <4>1
    <3> QED
      BY <3>1
  <2>7. ASSUME NEW k \in S, k \notin W, k \notin L PROVE trades[k].pnl = 0
    <3>1. CASE trades[k].side = "BUY"
      BY <2>2, <3>1
    <3>2. CASE trades[k].side = "SELL"
      <4>1. ~(trades[k].pnl > 0) /\ ~(trades[k].pnl < 0)
        BY <1>2, <2>7, <3>2 DEF Winners, Losers, Sells
      <4> QED
        BY <2>1, <4>1
    <3> QED
      BY <2>1, <3>1, <3>2
  <2> QED
    BY <2>3, <2>4, <2>5, <2>6, <2>7
<1>7. ASSUME NEW T \in SUBSET S
      PROVE  ProfitIn(trades, T) = SumFunctionOnSet(f, T) /\ ProfitIn(trades, T) \in Int
  <2> DEFINE g == [k \in T |-> trades[k].pnl]
  <2>1. IsFiniteSet(T) /\ Numbers(f, T) /\ Agree(f, g, T)
    BY <1>6, FS_Subset DEF Numbers, Agree
  <2>2. ProfitIn(trades, T) = SumFunctionOnSet(g, T)
    BY DEF ProfitIn
  <2> HIDE DEF f, g, S
  <2> QED
    BY <2>1, <2>2, SumSame, SumType
<1> HIDE DEF f, S, W, L, n
<1>8. SumFunctionOnSet(f, S) = SumFunctionOnSet(f, W) + SumFunctionOnSet(f, L)
  BY <1>6, SumParts
<1> DEFINE won == ProfitIn(trades, W)
           lost == ProfitIn(trades, L)
           gain == ProfitOf(trades)
<1>9. won \in Int /\ lost \in Int /\ gain = won + lost
  BY <1>5, <1>6, <1>7, <1>8
<1> HIDE DEF won, lost, gain
<1>10. account.capital + 0 = InitialCapital + gain
  BY <1>4 DEF gain
<1>11. won + lost = account.capital - InitialCapital
  BY <1>1, <1>9, <1>10
<1> QED
  BY <1>9, <1>11 DEF won, lost, W, L

-----------------------------------------------------------------------------
(* The theorems *)

\* The invariant holds of every simulation, whatever its constants.
THEOREM InvHolds == Spec => []Inv
<1>1. Init => Inv
  BY InitOK
<1> QED
  BY <1>1, InvKept, PTL DEF Spec

\* With weights of a half at most, the cash of a simulated account never falls
\* below nothing, whatever the prices and costs; and the thread and the window
\* agree on what is where.
THEOREM CautiousTypes == Cautious => (Spec => []TypeOK)
<1> SUFFICES ASSUME Cautious PROVE Spec => []TypeOK
  OBVIOUS
<1>1. ASSUME Inv PROVE TypeOK
  <2>1. account.capital \in Nat
    BY <1>1, AccountTypes DEF Inv, RunTypeOK, WellKept
  <2>2. \A c \in Code : /\ account.positions[c].qty \in Nat
                        /\ account.positions[c].highest >= account.positions[c].avg
    BY <1>1, AccountTypes DEF Inv, RunTypeOK, WellKept
  <2>3. Cardinality(Holdings(account)) <= MaxPositions
    BY <1>1 DEF Inv, RunTypeOK, WellKept
  <2>4. shown.candles \in 0 .. next /\ shown.trades \in 0 .. published
    BY <1>1 DEF Inv, RunTypeOK, WindowTypeOK
  <2> QED
    BY <1>1, <2>1, <2>2, <2>3, <2>4 DEF Inv, RunTypeOK, WindowTypeOK, Polled, TypeOK
<1>2. Inv => TypeOK
  BY <1>1
<1> QED
  BY <1>2, InvHolds, PTL

\* The results reported trade by trade, with what the open positions cost, make
\* up what the capital has become.
THEOREM MoneyAddsUp == Spec => []CapitalAccounted
<1>1. Inv => CapitalAccounted
  BY DEF Inv, RunTypeOK, WellKept, CapitalAccounted, Paid
<1> QED
  BY <1>1, InvHolds, PTL

\* With a stop and a target that are not zero, no candle leaves its code held
\* where they should have sold it.
THEOREM StopsSell == Positive => (Spec => []NothingHeldPastItsStop)
<1> SUFFICES ASSUME Positive PROVE Spec => []NothingHeldPastItsStop
  OBVIOUS
<1>1. Inv => NothingHeldPastItsStop
  BY DEF Inv
<1> QED
  BY <1>1, InvHolds, PTL

\* What is held by the day strategies, one of them believes it holds, and
\* nothing is held after two o'clock, whatever the candles.
THEOREM StrategiesRemember == Spec => []SomeoneWillSell
<1>1. ASSUME Inv PROVE SomeoneWillSell
  BY <1>1, ZenonT(60) DEF Inv, Believed, SomeoneWillSell
<1>2. Inv => SomeoneWillSell
  BY <1>1
<1> QED
  BY <1>2, InvHolds, PTL

\* A run that came to its end has been shown to the window to its last candle.
THEOREM EverythingShown == Spec => []CandlesShown
<1>1. Inv => CandlesShown
  BY DEF Inv
<1> QED
  BY <1>1, InvHolds, PTL

\* With weights of a half at most the metrics of every run that ended by itself
\* are what they are called, whatever its trades: the deepest fall, the average
\* time held, the longest streak, and profits that are what was gained.
THEOREM MetricsAreTrue == Cautious => (Spec => []MetricsTrue)
<1> SUFFICES ASSUME Cautious PROVE Spec => []MetricsTrue
  OBVIOUS
<1>1. ASSUME Inv PROVE MetricsTrue
  <2> SUFFICES ASSUME event = "finished"
               PROVE  LET m == Metrics(account.trades, account.curve)
                      IN  /\ DrawdownIsDeepest(m) /\ HoldingIsAverage(m)
                          /\ StreakIsLongest(m) /\ ProfitIsGain(m)
    BY DEF MetricsTrue
  <2> DEFINE m == Metrics(account.trades, account.curve)
  <2>1. WellKept(account) /\ Holdings(account) = {}
    BY <1>1 DEF Inv, RunTypeOK, Polled
  <2>2. account.trades \in Seq(Trades) /\ account.curve \in Seq(Nat)
    BY <2>1, AccountTypes DEF WellKept
  <2>3. /\ m.drawdown = MaxDrawdown(account.curve)
        /\ m.streak = MaxConsecutiveLosses(account.trades)
        /\ m.holding = AvgHolding(account.trades)
        /\ m.factor = <<ProfitIn(account.trades, Winners(account.trades)),
                        -ProfitIn(account.trades, Losers(account.trades))>>
    BY DEF Metrics
  <2> HIDE DEF m
  <2>4. DrawdownIsDeepest(m)
    BY <2>2, <2>3, DrawdownTrue
  <2>5. HoldingIsAverage(m)
    <3>1. Matched(account.trades, 0)
      BY <2>1, FS_EmptySet DEF WellKept
    <3> DEFINE n == Cardinality(Sells(account.trades))
    <3>2. Len(account.trades) = 0 + 2 * n /\ Balanced(account.trades)
      BY <3>1 DEF Matched
    <3>3. n \in Nat
      <4>1. SalesIn(account.trades, 1, Len(account.trades)) = Sells(account.trades)
        BY <2>2, AllSales
      <4>2. IsFiniteSet(Sells(account.trades))
        BY <2>2, <4>1, SalesTypes
      <4> QED
        BY <4>2, FS_CardinalityType
    <3>4. 0 + 2 * n = 2 * n
      <4> HIDE DEF n
      <4> QED
        BY <3>3
    <3> QED
      BY <2>2, <2>3, <3>2, <3>4, AllPaired DEF HoldingIsAverage
  <2>6. StreakIsLongest(m)
    BY <2>2, <2>3, StreakTrue
  <2>7. ProfitIsGain(m)
    <3> DEFINE won == ProfitIn(account.trades, Winners(account.trades))
               lost == ProfitIn(account.trades, Losers(account.trades))
    <3>1. won \in Int /\ lost \in Int /\ won + lost = account.capital - InitialCapital
      BY <2>1, ProfitTrue
    <3>2. m.factor[1] = won /\ m.factor[2] = -lost
      BY <2>3
    <3> HIDE DEF won, lost
    <3>3. won - (-lost) = won + lost
      BY <3>1
    <3> QED
      BY <3>1, <3>2, <3>3 DEF ProfitIsGain
  <2> QED
    BY <2>4, <2>5, <2>6, <2>7 DEF m
<1>2. Inv => MetricsTrue
  BY <1>1
<1> QED
  BY <1>2, InvHolds, PTL

-----------------------------------------------------------------------------
(* The account implements the abstract one *)

\* Three trades lose three times the costs of one at most.
LEMMA CostsOfThree ==
  ASSUME NEW x \in Nat, NEW y \in Nat, NEW n \in Nat, n <= 3, Costs(x, y, n)
  PROVE  y <= x /\ 100000 * (x - y) <= (3 * TradeRate) * x
<1> DEFINE r == TradeRate * x
<1>1. r \in Nat /\ (3 * TradeRate) * x = r * 3
  BY RateTypes, Product
<1>2. y <= x /\ 100000 * (x - y) <= n * r
  BY DEF Costs
<1> HIDE DEF r
<1>3. r * n <= r * 3 /\ r * n = n * r
  BY <1>1, Product
<1> DEFINE p == n * r
           q == r * 3
<1>4. p \in Nat /\ q \in Nat /\ p <= q
  BY <1>1, <1>3
<1>5. 100000 * (x - y) <= p
  BY <1>2
<1> HIDE DEF p, q
<1>6. 100000 * (x - y) <= q
  BY <1>2, <1>4, <1>5
<1> QED
  BY <1>1, <1>2, <1>6 DEF q

\* A step of at most three trades at a price that was seen is a trade.
LEMMA StepTrades ==
  ASSUME Cautious, NEW k, WellKept(account), Stepped(account, account', k),
         Len(account'.trades) <= Len(account.trades) + 3, k.close \in Closes
  PROVE  Account!Next
<1>1. WellKept(account') /\ Priced(k)
  BY DEF Stepped
<1> DEFINE x == WorthOf(account, k)
           y == WorthOf(account', k)
           l == Len(account.trades)
           m == Len(account'.trades)
<1>2. /\ x \in Nat /\ y \in Nat /\ l \in Nat /\ m \in Nat /\ l <= m /\ m <= l + 3
      /\ account'.capital \in Nat
  BY <1>1, WorthTypes DEF Stepped
<1>3. Costs(x, y, m - l)
  BY DEF Stepped, Charged
<1> DEFINE n == m - l
<1> HIDE DEF x, y, l, m
<1>4. n \in Nat /\ n <= 3
  BY <1>2
<1> HIDE DEF n
<1>5. y <= x /\ 100000 * (x - y) <= (3 * TradeRate) * x
  BY <1>2, <1>3, <1>4, CostsOfThree DEF n
<1>6. \A c \in Code : Shares[c] = account.positions[c].qty /\ Shares'[c] = account'.positions[c].qty
  BY DEF Shares
<1>7. Account!Worth(k.code, k.close) = x /\ Account!Worth(k.code, k.close)' = y
  BY <1>1, <1>6 DEF Account!Worth, WorthOf, x, y, Priced
<1>8. /\ \A d \in Code \ {k.code} : Shares'[d] = Shares[d]
      /\ Shares'[k.code] >= 0 /\ account'.capital >= 0
  <2>1. account'.positions[k.code].qty \in Nat
    BY <1>1, AccountTypes DEF WellKept, Priced
  <2> QED
    BY <1>1, <1>2, <1>6, <2>1 DEF Stepped, Priced
<1>9. Account!Trade(k.code, k.close)
  BY <1>5, <1>7, <1>8 DEF Account!Trade
<1> QED
  BY <1>1, <1>9 DEF Account!Next, Priced

\* A run that begins has the fresh account.
Untraded == account.capital = InitialCapital /\ Shares = [c \in Code |-> 0]

LEMMA ClearedIsFresh == Cleared => Untraded
BY DEF Cleared, NewAccount, NoPosition, Shares, Untraded

\* With weights of a half at most the account of every simulation, through
\* candles, closes, stops and new runs, is an account that only exchanges shares
\* for cash at closes it has seen, on no credit, for the costs of three trades at
\* most: every step is a trade, a fresh account or none.
THEOREM CautiousIsAccount == Cautious => (Spec => ImplementsAccount)
<1> SUFFICES ASSUME Cautious PROVE Spec => ImplementsAccount
  OBVIOUS
<1>1. Init => Account!Init
  BY ClearedIsFresh DEF Init, Cleared, Untraded, Account!Init
<1>2. Inv /\ [Next]_vars => [Account!Next]_<<account.capital, Shares>>
  <2> SUFFICES ASSUME Inv, [Next]_vars PROVE [Account!Next]_<<account.capital, Shares>>
    OBVIOUS
  <2>1. WellKept(account)
    BY DEF Inv, RunTypeOK
  <2>2. CASE HandleCandle
    BY <2>1, <2>2, HandleSteps, StepTrades
  <2>3. CASE CloseOne
    BY <2>1, <2>3, CloseSteps, StepTrades
  <2>4. CASE Clean
    <3>1. Cleared'
      BY <2>4 DEF Clean, Cleared
    <3>2. Untraded'
      BY <3>1, ClearedIsFresh, PTL
    <3> QED
      BY <3>2 DEF Untraded, Account!Next, Account!Fresh
  <2>5. CASE account' = account
    BY <2>5 DEF Shares
  <2>6. HandleCandle \/ CloseOne \/ Clean \/ account' = account
    BY DEF Next, vars, workerVars, CandleArrives, DataEnds, Finishes, Fails, Poll, HandleEnd,
           ClickStart, ClickStop, StartBacktest, Prepare, ClickMode, MarketStateChanges
  <2> QED
    BY <2>2, <2>3, <2>4, <2>5, <2>6
<1> QED
  BY <1>1, <1>2, InvHolds, PTL DEF Spec, ImplementsAccount, Account!Spec
=============================================================================
