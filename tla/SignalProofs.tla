---------------------------- MODULE SignalProofs ----------------------------
(***************************************************************************)
(* What SignalSystem guarantees for any strategies, watch lists, warm-ups, *)
(* prices, capital and bounds: its types, fresh crosses, cooldowns, one    *)
(* side per candle, a fresh day, and a paper account without gain or loss. *)
(***************************************************************************)
EXTENDS SignalSystem, FoldTheorems

\* What the constants are.
LEMMA ConstantTypes ==
  /\ InitialCapital \in Nat /\ MaxWeight \in 0 .. 100 /\ IsFiniteSet(Code)
  /\ \A s \in Strategy : Config[s].cooldown \in Nat /\ Config[s].priority \in Nat
  /\ \A s \in Strategy : Config[s].indicators \subseteq DOMAIN Warmup
  /\ \A c \in Code : Watchlist[c] \in Seq(Strategy)
  /\ \A i \in DOMAIN Warmup : Warmup[i] \in Nat \ {0}
  /\ Never \notin Nat
  /\ Closes \subseteq Nat /\ Volumes \subseteq Nat
  /\ MaxCandles \in Nat
  /\ Opening \in 1 .. 7 /\ Closing \in 1 .. 7
BY PaperAssumption, StrategyAssumption, SignalAssumption, HoursAssumption

-----------------------------------------------------------------------------
(* The paper account *)

\* A quotient, its divisor and the rest.
LEMMA Division ==
  ASSUME NEW a \in Nat, NEW d \in Nat \ {0}
  PROVE  /\ a \div d \in Nat
         /\ a - d * (a \div d) \in 0 .. d - 1
OBVIOUS

\* A product of whole numbers is one.
LEMMA Product ==
  ASSUME NEW x \in Int, NEW y \in Int
  PROVE  /\ x * y \in Int
         /\ x \in Nat /\ y \in Nat => x * y \in Nat
OBVIOUS

\* It grows with a factor.
LEMMA ProductGrows ==
  ASSUME NEW x \in Nat, NEW y \in Nat, NEW z \in Nat, y <= z
  PROVE  x * y <= x * z
OBVIOUS

\* A buy costs at most the cash there is.
LEMMA BuyIsPaid ==
  ASSUME NEW capital \in Nat, NEW price \in Nat \ {0}
  PROVE  /\ BuyQty(capital, price) \in Nat
         /\ BuyQty(capital, price) * price \in Nat
         /\ BuyQty(capital, price) * price <= capital
<1> DEFINE a == capital * MaxWeight
           d == 100 * price
           q == a \div d
<1>1. a \in Nat /\ a <= capital * 100
  BY ConstantTypes, ProductGrows, Product
<1>2. d \in Nat \ {0}
  OBVIOUS
<1>3. BuyQty(capital, price) = q
  BY DEF BuyQty
<1>4. q \in Nat /\ a - d * q \in 0 .. d - 1
  <2> HIDE DEF a, d
  <2> QED
    BY <1>1, <1>2, Division
<1> HIDE DEF q
<1>5. q * price \in Nat /\ d * q = 100 * (q * price)
  BY <1>4
<1> DEFINE cost == q * price
<1>6. cost <= capital
  <2>1. d * q = 100 * cost /\ cost \in Nat /\ d * q \in Int
    BY <1>5
  <2>2. d * q <= a
    <3> DEFINE m == d * q
    <3>1. m \in Int /\ a - m \in 0 .. d - 1
      BY <1>4, <2>1
    <3> HIDE DEF a, d, m
    <3> QED
      BY <1>1, <1>2, <3>1 DEF m
  <2> HIDE DEF a, d, cost
  <2> QED
    BY <1>1, <2>1, <2>2
<1> QED
  BY <1>3, <1>4, <1>5, <1>6

\* The shares and the truncated average after a buy: the shares are worth
\* what was paid for them, less than a won a share short.
LEMMA AverageTruncates ==
  ASSUME NEW pos \in [qty : Nat, avg : Nat], NEW qty \in Nat \ {0}, NEW price \in Nat
  PROVE  /\ Average(pos, qty, price) \in Nat
         /\ (pos.qty * pos.avg + qty * price)
              - (pos.qty + qty) * Average(pos, qty, price)
            \in 0 .. IF pos.qty = 0 THEN 0 ELSE pos.qty + qty - 1
<1> DEFINE a == pos.avg * pos.qty + price * qty
           d == pos.qty + qty
           q == a \div d
<1>0. pos.qty \in Nat /\ pos.avg \in Nat
  OBVIOUS
<1>1. a \in Nat /\ d \in Nat \ {0} /\ a = pos.qty * pos.avg + qty * price
  BY <1>0, Product
<1>2. Average(pos, qty, price) = q
  BY DEF Average
<1>3. q \in Nat /\ a - d * q \in 0 .. d - 1
  <2> HIDE DEF a, d
  <2> QED
    BY <1>1, Division
<1>4. CASE pos.qty # 0
  BY <1>1, <1>2, <1>3, <1>4
<1>5. CASE pos.qty = 0
  <2>1. a = qty * price /\ d = qty
    BY <1>0, <1>5
  <2>2. q = price
    BY <2>1
  <2>3. a - d * q = 0
    <3>1. d * q = qty * price /\ qty * price \in Nat
      BY <2>1, <2>2, Product
    <3> HIDE DEF a, d, q
    <3> QED
      BY <2>1, <3>1
  <2> HIDE DEF a, d, q
  <2> QED
    BY <1>1, <1>2, <1>3, <1>5, <2>3 DEF d
<1> QED
  BY <1>4, <1>5

\* What the shares of a trader were bought for, by its averages.
Bought(t) == [c \in Code |-> t.positions[c].qty * t.positions[c].avg]
Worth(t)  == SumFunctionOnSet(Bought(t), Code)

\* A trader whose reported profit is the gain, but for truncated averages.
Gained(t) == t.capital + Worth(t) - InitialCapital
Sound(t)  == t \in Trader /\ t.pnl - Gained(t) \in 0 .. t.slack

\* u is t after an exchange of shares of code for cash at price.
Exchanged(t, u, code, price) ==
  /\ \A c \in Code \ {code} : u.positions[c] = t.positions[c]
  /\ t.capital + price * t.positions[code].qty = u.capital + price * u.positions[code].qty

\* The fields of a trader.
LEMMA TraderTypes ==
  ASSUME NEW t \in Trader
  PROVE  /\ t.capital \in Nat /\ t.pnl \in Int /\ t.slack \in Nat
         /\ t.positions \in [Code -> [qty : Nat, avg : Nat]]
         /\ \A c \in Code : t.positions[c].qty \in Nat /\ t.positions[c].avg \in Nat
BY DEF Trader

\* What its shares were bought for is a number.
LEMMA WorthTypes ==
  ASSUME NEW t \in Trader
  PROVE  Numbers(Bought(t), Code) /\ Worth(t) \in Int
<1>1. Numbers(Bought(t), Code)
  BY TraderTypes, Product DEF Numbers, Bought
<1> QED
  BY <1>1, ConstantTypes, SumType DEF Worth

\* A change of one position changes the worth by as much.
LEMMA WorthChange ==
  ASSUME NEW t \in Trader, NEW u \in Trader, NEW code \in Code,
         \A c \in Code \ {code} : u.positions[c] = t.positions[c]
  PROVE  Worth(u) = Worth(t) + (u.positions[code].qty * u.positions[code].avg
                                - t.positions[code].qty * t.positions[code].avg)
<1>1. Numbers(Bought(t), Code) /\ Numbers(Bought(u), Code)
  BY WorthTypes
<1>2. Agree(Bought(t), Bought(u), Code \ {code})
  BY DEF Agree, Bought
<1>3. Worth(u) = Worth(t) + (Bought(u)[code] - Bought(t)[code])
  BY <1>1, <1>2, ConstantTypes, SumChange DEF Worth
<1> QED
  BY <1>3 DEF Bought

\* A new trader has gained nothing and reports nothing.
LEMMA NewTraderIsSound == Sound(NewTrader)
<1>1. NewTrader \in Trader
  BY ConstantTypes DEF NewTrader, Trader, Flat
<1>2. Worth(NewTrader) = 0
  <2>1. \A c \in Code : Bought(NewTrader)[c] = 0
    BY DEF Bought, NewTrader, Flat
  <2> QED
    BY <2>1, ConstantTypes, SumZero DEF Worth
<1>3. NewTrader.pnl = 0 /\ NewTrader.slack = 0 /\ NewTrader.capital = InitialCapital
  BY DEF NewTrader
<1>4. NewTrader.pnl - Gained(NewTrader) = 0
  BY <1>2, <1>3, ConstantTypes DEF Gained
<1> QED
  BY <1>1, <1>3, <1>4 DEF Sound

\* A buy exchanges cash for shares, and the report gains what the average lost.
LEMMA BuyExchanges ==
  ASSUME NEW t, Sound(t), NEW code \in Code, NEW price \in Nat
  PROVE  /\ Sound(ExecuteBuy(t, code, price))
         /\ Exchanged(t, ExecuteBuy(t, code, price), code, price)
<1> DEFINE q == BuyQty(t.capital, price)
           pos == t.positions[code]
           avg == Average(pos, q, price)
           more == IF pos.qty = 0 THEN 0 ELSE pos.qty + q - 1
           u == [capital |-> t.capital - q * price,
                 positions |-> [t.positions EXCEPT ![code] = [qty |-> pos.qty + q, avg |-> avg]],
                 pnl |-> t.pnl, slack |-> t.slack + more]
<1>1. t \in Trader /\ t.capital \in Nat /\ t.pnl \in Int /\ t.slack \in Nat
  BY TraderTypes DEF Sound
<1>2. pos \in [qty : Nat, avg : Nat] /\ pos.qty \in Nat /\ pos.avg \in Nat
  BY <1>1, TraderTypes
<1>3. CASE price <= 0 \/ q <= 0
  <2>1. ExecuteBuy(t, code, price) = t
    BY <1>3 DEF ExecuteBuy
  <2> QED
    BY <2>1 DEF Exchanged
<1>4. CASE ~(price <= 0 \/ q <= 0)
  <2>1. ExecuteBuy(t, code, price) = u
    BY <1>4 DEF ExecuteBuy
  <2>2. price \in Nat \ {0}
    BY <1>4
  <2>3. q \in Nat \ {0} /\ q * price \in Nat /\ q * price <= t.capital
    BY <1>1, <1>4, <2>2, BuyIsPaid
  <2>4. /\ avg \in Nat
        /\ (pos.qty * pos.avg + q * price) - (pos.qty + q) * avg \in 0 .. more
    <3> HIDE DEF pos, q
    <3> QED
      BY <1>2, <2>2, <2>3, AverageTruncates
  <2>5. more \in Nat
    <3> HIDE DEF pos, q
    <3> QED
      BY <1>2, <2>3
  <2>6. u \in Trader
    <3>1. t.capital - q * price \in Nat
      <4> DEFINE cost == q * price
      <4> HIDE DEF cost
      <4> QED
        BY <1>1, <2>3 DEF cost
    <3>2. t.slack + more \in Nat
      <4> HIDE DEF more
      <4> QED
        BY <1>1, <2>5
    <3>3. [qty |-> pos.qty + q, avg |-> avg] \in [qty : Nat, avg : Nat]
      <4>1. pos.qty + q \in Nat
        BY <1>2, <2>3
      <4>2. avg \in Nat
        BY <2>4
      <4> DEFINE m == pos.qty + q
      <4> HIDE DEF avg, m
      <4> QED
        BY <4>1, <4>2
    <3>4. [t.positions EXCEPT ![code] = [qty |-> pos.qty + q, avg |-> avg]]
            \in [Code -> [qty : Nat, avg : Nat]]
      <4> HIDE DEF avg, pos, q
      <4> QED
        BY <1>1, <3>3, TraderTypes
    <3> HIDE DEF avg, pos, q, more
    <3> QED
      BY <1>1, <3>1, <3>2, <3>4 DEF Trader
  <2>7. /\ u.capital = t.capital - q * price /\ u.pnl = t.pnl /\ u.slack = t.slack + more
        /\ u.positions[code].qty = pos.qty + q /\ u.positions[code].avg = avg
        /\ \A c \in Code \ {code} : u.positions[c] = t.positions[c]
    <3>1. DOMAIN t.positions = Code
      BY <1>1, TraderTypes
    <3> HIDE DEF q, avg, more
    <3> QED
      BY <3>1
  <2> HIDE DEF u, q, avg, pos, more
  <2>8. Worth(u) = Worth(t) + ((pos.qty + q) * avg - pos.qty * pos.avg)
    <3>1. Worth(u) = Worth(t) + (u.positions[code].qty * u.positions[code].avg
                                 - t.positions[code].qty * t.positions[code].avg)
      BY <1>1, <2>6, <2>7, WorthChange
    <3> QED
      BY <2>7, <3>1 DEF pos
  <2>9. u.pnl - Gained(u) \in 0 .. u.slack
    <3> DEFINE x == pos.qty * pos.avg
               y == q * price
               z == (pos.qty + q) * avg
               w == Worth(t)
    <3>1. x \in Int /\ y \in Int /\ z \in Int /\ w \in Int
      BY <1>1, <1>2, <2>3, <2>4, Product, WorthTypes
    <3>2. Worth(u) = w + (z - x) /\ (x + y) - z \in 0 .. more /\ u.capital = t.capital - y
      BY <2>4, <2>7, <2>8
    <3>3. t.pnl - (t.capital + w - InitialCapital) \in 0 .. t.slack
      BY DEF Sound, Gained
    <3> DEFINE cash == t.capital
               gain == t.pnl
               gap  == t.slack
    <3>4. /\ cash \in Nat /\ gain \in Int /\ gap \in Nat /\ more \in Nat
          /\ InitialCapital \in Nat
      BY <1>1, <2>5, ConstantTypes
    <3>5. gain - (cash + w - InitialCapital) \in 0 .. gap
      BY <3>3
    <3>6. u.pnl = gain /\ u.slack = gap + more /\ u.capital = cash - y
      BY <2>7
    <3> HIDE DEF x, y, z, w, cash, gain, gap
    <3>7. gain - ((cash - y) + (w + (z - x)) - InitialCapital) \in 0 .. gap + more
      BY <3>1, <3>2, <3>4, <3>5
    <3> QED
      BY <3>2, <3>6, <3>7 DEF Gained
  <2>10. Exchanged(t, u, code, price)
    <3>1. price * (pos.qty + q) = price * pos.qty + q * price /\ price * pos.qty \in Int
      BY <1>2, <2>3
    <3> DEFINE x == price * pos.qty
               y == q * price
    <3>2. /\ x \in Int /\ y \in Int /\ price * (pos.qty + q) = x + y
          /\ u.capital = t.capital - y
      BY <2>3, <2>7, <3>1
    <3> HIDE DEF x, y
    <3>3. t.capital + x = u.capital + price * (pos.qty + q)
      BY <1>1, <3>2
    <3> QED
      BY <2>7, <3>3 DEF Exchanged, pos, x
  <2> QED
    BY <2>1, <2>6, <2>9, <2>10 DEF Sound
<1> QED
  BY <1>3, <1>4

\* A sale exchanges the shares for cash, and reports the difference.
LEMMA SellExchanges ==
  ASSUME NEW t, Sound(t), NEW code \in Code, NEW price \in Nat
  PROVE  /\ Sound(ExecuteSell(t, code, price))
         /\ Exchanged(t, ExecuteSell(t, code, price), code, price)
<1> DEFINE pos == t.positions[code]
           u == [capital |-> t.capital + pos.qty * price,
                 positions |-> [t.positions EXCEPT ![code] = Flat],
                 pnl |-> t.pnl + (price - pos.avg) * pos.qty, slack |-> t.slack]
<1>1. t \in Trader /\ t.capital \in Nat /\ t.pnl \in Int /\ t.slack \in Nat
  BY TraderTypes DEF Sound
<1>2. pos.qty \in Nat /\ pos.avg \in Nat
  BY <1>1, TraderTypes
<1>3. CASE pos.qty <= 0
  <2>1. ExecuteSell(t, code, price) = t
    BY <1>3 DEF ExecuteSell
  <2> QED
    BY <2>1 DEF Exchanged
<1>4. CASE ~(pos.qty <= 0)
  <2>1. ExecuteSell(t, code, price) = u
    BY <1>4 DEF ExecuteSell
  <2> DEFINE x == pos.qty * price
             y == pos.qty * pos.avg
  <2>2. x \in Nat /\ y \in Nat /\ (price - pos.avg) * pos.qty = x - y /\ price * pos.qty = x
    BY <1>2, Product
  <2>3. u \in Trader
    <3>1. Flat \in [qty : Nat, avg : Nat]
      BY DEF Flat
    <3>2. [t.positions EXCEPT ![code] = Flat] \in [Code -> [qty : Nat, avg : Nat]]
      BY <1>1, <3>1, TraderTypes
    <3>3. t.capital + x \in Nat /\ t.pnl + (price - pos.avg) * pos.qty \in Int
      <4> DEFINE d == (price - pos.avg) * pos.qty
      <4> HIDE DEF x, y, d
      <4> QED
        BY <1>1, <2>2 DEF d
    <3> HIDE DEF pos
    <3> QED
      BY <1>1, <3>2, <3>3 DEF Trader
  <2>4. /\ u.capital = t.capital + x /\ u.pnl = t.pnl + (x - y) /\ u.slack = t.slack
        /\ u.positions[code].qty = 0 /\ u.positions[code].avg = 0
        /\ \A c \in Code \ {code} : u.positions[c] = t.positions[c]
    <3>1. DOMAIN t.positions = Code
      BY <1>1, TraderTypes
    <3>2. u.pnl = t.pnl + (x - y)
      BY <2>2
    <3> QED
      BY <3>1, <3>2 DEF Flat
  <2> HIDE DEF u
  <2>5. Worth(u) = Worth(t) - y
    <3>1. Worth(u) = Worth(t) + (u.positions[code].qty * u.positions[code].avg
                                 - t.positions[code].qty * t.positions[code].avg)
      BY <1>1, <2>3, <2>4, WorthChange
    <3>2. Worth(u) = Worth(t) + (0 - y)
      BY <2>4, <3>1
    <3>3. Worth(t) \in Int
      BY <1>1, WorthTypes
    <3> HIDE DEF y
    <3> QED
      BY <2>2, <3>2, <3>3
  <2>6. u.pnl - Gained(u) \in 0 .. u.slack
    <3> DEFINE w == Worth(t)
    <3>1. t.pnl - (t.capital + w - InitialCapital) \in 0 .. t.slack /\ w \in Int
      BY <1>1, WorthTypes DEF Sound, Gained
    <3>2. Worth(u) = w - y
      BY <2>5
    <3>3. u.pnl - Gained(u) = (t.pnl + (x - y)) - ((t.capital + x) + (w - y) - InitialCapital)
      BY <2>4, <3>2 DEF Gained
    <3>4. u.pnl - Gained(u) = t.pnl - (t.capital + w - InitialCapital)
      <4> DEFINE m == t.pnl
                 k == t.capital
      <4>1. m \in Int /\ k \in Int /\ x \in Int /\ y \in Int /\ w \in Int /\ InitialCapital \in Int
        BY <1>1, <2>2, <3>1, ConstantTypes
      <4> HIDE DEF m, k, x, y, w
      <4>2. (m + (x - y)) - ((k + x) + (w - y) - InitialCapital) = m - (k + w - InitialCapital)
        BY <4>1
      <4> QED
        BY <3>3, <4>2 DEF m, k
    <3> HIDE DEF x, y, w
    <3> QED
      BY <2>4, <3>1, <3>4
  <2>7. Exchanged(t, u, code, price)
    <3>1. price * pos.qty = x /\ price * 0 = 0
      BY <2>2
    <3> HIDE DEF x
    <3>2. t.capital + price * pos.qty = u.capital + price * u.positions[code].qty
      BY <1>1, <2>2, <2>4, <3>1
    <3> QED
      BY <2>4, <3>2 DEF Exchanged
  <2> QED
    BY <2>1, <2>3, <2>6, <2>7 DEF Sound
<1> QED
  BY <1>3, <1>4

\* So does a signal of either side.
LEMMA SignalExchanges ==
  ASSUME NEW t, Sound(t), NEW side, NEW code \in Code, NEW price \in Nat
  PROVE  /\ Sound(ExecuteSignal(t, side, code, price))
         /\ Exchanged(t, ExecuteSignal(t, side, code, price), code, price)
BY BuyExchanges, SellExchanges DEF ExecuteSignal

-----------------------------------------------------------------------------
(* The inductive invariant *)

\* What may be remembered of a strategy's indicators, and completed candles.
Memory  == {NothingKnown} \cup UNION {[I -> Readings] : I \in SUBSET DOMAIN Warmup}
\* A completed candle.
Candles == [code : Code, close : Closes, volume : Volumes, time : Nat,
            values : [DOMAIN Warmup -> Readings]]

\* The variables TypeOK leaves out.
MoreTypes ==
  /\ previous \in [Code -> [Strategy -> Memory]]
  /\ last \in [Code -> Candles \cup {NoCandle}]

\* Only the processed strategies remember, and only once they were warm: only
\* a candle without volume can then find one of their indicators without a value.
RemembersWhenWarm ==
  \A c \in Code : \A s \in Strategy :
    previous[c][s] # NothingKnown =>
      /\ Processed(s, c)
      /\ \A i \in Config[s].indicators : seen[c][s] + 1 >= Warmup[i]

\* Trading began in the past, or not yet while the market was never polled; and
\* what the poll took note of is the present interval or the one before.
PollFollows ==
  /\ opened \in 0 .. time
  /\ polled = NotPolled => opened = 0
  /\ polled = "TRADING" => clock \in {4, 5}

\* The paper trader, if there is one.
AccountIsSound == trader # NoTrader => Sound(trader)

\* All of it together is inductive.
Inv ==
  /\ TypeOK /\ MoreTypes
  /\ RemembersWhenWarm /\ CrossesAreFresh
  /\ PollFollows /\ DayBeginsFresh
  /\ OneSidePerCandle
  /\ AccountIsSound

-----------------------------------------------------------------------------
(* One candle *)

\* There is a longest warm-up.
LEMMA MostWarmupType == MostWarmup \in Nat
<1> DEFINE S == Range(Warmup)
<1>1. S \in SUBSET Int /\ S \in SUBSET Nat
  BY ConstantTypes DEF Range
<1>2. IsFiniteSet(S) /\ S # {}
  <2>1. [i \in DOMAIN Warmup |-> Warmup[i]] \in Surjection(DOMAIN Warmup, S)
    BY DEF Range, Surjection
  <2>2. IsFiniteSet(DOMAIN Warmup) /\ DOMAIN Warmup # {}
    BY StrategyAssumption
  <2> QED
    BY <2>1, <2>2, FS_Surjection DEF Range
<1>3. \E x \in S : \A y \in S : y <= x
  <2> HIDE DEF S
  <2> QED
    BY <1>1, <1>2, LargestExists
<1> QED
  BY <1>1, <1>3 DEF MostWarmup

\* The strategies of a code's places.
LEMMA PlaceTypes ==
  ASSUME NEW code \in Code, NEW places \in SUBSET Assigned(code)
  PROVE  /\ IsFiniteSet(places) /\ places \subseteq Nat
         /\ \A k \in places : Watchlist[code][k] \in Strategy
         /\ \A k \in places : Priority(code, k) \in Nat
<1>1. Watchlist[code] \in Seq(Strategy)
  BY ConstantTypes
<1>2. /\ DOMAIN Watchlist[code] = 1 .. Len(Watchlist[code]) /\ Len(Watchlist[code]) \in Nat
      /\ \A k \in DOMAIN Watchlist[code] : Watchlist[code][k] \in Strategy
  BY <1>1
<1>3. IsFiniteSet(DOMAIN Watchlist[code]) /\ DOMAIN Watchlist[code] \subseteq Nat
  BY <1>2, FS_Interval
<1>4. places \subseteq DOMAIN Watchlist[code]
  BY DEF Assigned
<1> QED
  BY <1>2, <1>3, <1>4, FS_Subset, ConstantTypes DEF Priority

\* Among the signals of a side there is a best.
LEMMA BestIsOne ==
  ASSUME NEW code \in Code, NEW places \in SUBSET Assigned(code), places # {}
  PROVE  Best(places, code) \in places
<1> DEFINE P(k) == Priority(code, k)
           Beats(k, j) == P(k) > P(j) \/ (P(k) = P(j) /\ k <= j)
           R == {r \in places \X places : Beats(r[1], r[2])}
<1>1. \A k \in places : P(k) \in Int /\ k \in Int
  <2>1. places \subseteq Nat /\ \A k \in places : Priority(code, k) \in Nat
    BY PlaceTypes
  <2> QED
    BY <2>1
<1>2. \A k \in places : \A j \in places : <<k, j>> \in R <=> Beats(k, j)
  OBVIOUS
<1>3. Connects(R, places)
  <2> SUFFICES ASSUME NEW x \in places, NEW y \in places PROVE Beats(x, y) \/ Beats(y, x)
    <3> HIDE DEF R, Beats
    <3> QED
      BY <1>2 DEF Connects
  <2> HIDE DEF P
  <2> QED
    BY <1>1
<1>4. Chains(R, places)
  <2> SUFFICES ASSUME NEW x \in places, NEW y \in places, NEW z \in places,
                      Beats(x, y), Beats(y, z)
               PROVE  Beats(x, z)
    <3> HIDE DEF R, Beats
    <3> QED
      BY <1>2 DEF Chains
  <2> HIDE DEF P
  <2> QED
    BY <1>1
<1>5. PICK k \in places : \A j \in places : <<k, j>> \in R
  <2>1. IsFiniteSet(places)
    BY PlaceTypes
  <2> HIDE DEF R
  <2> QED
    BY <1>3, <1>4, <2>1, GreatestExists
<1>6. IsBest(k, places, code)
  BY <1>2, <1>5 DEF IsBest
<1> QED
  BY <1>6 DEF Best

\* Signals of strategies of positive priority weigh something.
LEMMA WeightPositive ==
  ASSUME NEW code \in Code, NEW places \in SUBSET Assigned(code), places # {},
         \A s \in Strategy : Config[s].priority > 0
  PROVE  Weight(places, code) \in Nat /\ Weight(places, code) > 0
<1> DEFINE f == [k \in places |-> Priority(code, k)]
<1>1. PICK k \in places : TRUE
  OBVIOUS
<1>2. /\ IsFiniteSet(places)
      /\ \A j \in places : f[j] \in Nat /\ f[j] > 0
  BY PlaceTypes, ConstantTypes DEF Priority
<1>3. Weight(places, code) = SumFunctionOnSet(f, places)
  BY DEF Weight
<1> HIDE DEF f
<1> DEFINE rest == places \ {k}
<1>4. IsFiniteSet(rest) /\ \A j \in rest : f[j] \in Nat
  BY <1>2, FS_Subset
<1>5. SumFunctionOnSet(f, rest) \in Nat
  <2> HIDE DEF rest
  <2> QED
    BY <1>4, SumNat
<1>6. SumFunctionOnSet(f, places) = f[k] + SumFunctionOnSet(f, rest)
  BY <1>2, SumSplit DEF Numbers
<1> HIDE DEF rest
<1> QED
  BY <1>1, <1>2, <1>3, <1>5, <1>6

\* What the candle's signals are: places of each side.
LEMMA SignalTypes ==
  ASSUME NEW candle
  PROVE  \A d \in Side : AllSignals(candle)[d] \in SUBSET Assigned(candle.code)
BY DEF AllSignals

\* The side that survives has a signal whose cooldown has run off.
LEMMA SurvivorsWaited ==
  ASSUME NEW candle, candle.code \in Code,
         NEW d \in Surviving(AllSignals(candle), candle)
  PROVE  /\ d \in Side
         /\ \E s \in Strategy :
              \/ cooldowns[candle.code][d] = Never
              \/ candle.time - cooldowns[candle.code][d] >= Config[s].cooldown
<1> DEFINE places == AllSignals(candle)[d]
           s == Watchlist[candle.code][Best(places, candle.code)]
<1>1. /\ d \in Side /\ places # {}
      /\ CheckCooldown(BestSignal(AllSignals(candle), d, candle))
  BY DEF Surviving, ResolveConflicts
<1>2. places \in SUBSET Assigned(candle.code)
  BY <1>1, SignalTypes
<1>3. s \in Strategy
  <2> HIDE DEF places
  <2>1. Best(places, candle.code) \in places
    BY <1>1, <1>2, BestIsOne
  <2> QED
    BY <1>2, <2>1, PlaceTypes
<1>4. BestSignal(AllSignals(candle), d, candle)
        = [code |-> candle.code, side |-> d, strategy |-> s, price |-> candle.close,
           time |-> candle.time]
  BY DEF BestSignal, Signal
<1> HIDE DEF s
<1> QED
  BY <1>1, <1>3, <1>4 DEF CheckCooldown

\* With positive priorities at most one side survives.
LEMMA OneSideSurvives ==
  ASSUME NEW candle, candle.code \in Code, \A s \in Strategy : Config[s].priority > 0
  PROVE  ~("BUY" \in Surviving(AllSignals(candle), candle)
           /\ "SELL" \in Surviving(AllSignals(candle), candle))
<1> DEFINE buys == AllSignals(candle)["BUY"]
           sells == AllSignals(candle)["SELL"]
           b == Weight(buys, candle.code)
           w == Weight(sells, candle.code)
<1> SUFFICES ASSUME "BUY" \in Surviving(AllSignals(candle), candle),
                    "SELL" \in Surviving(AllSignals(candle), candle)
             PROVE  FALSE
  OBVIOUS
<1>1. buys # {} /\ sells # {} /\ Passes(b, w) /\ Passes(w, b)
  BY DEF Surviving, ResolveConflicts, Other
<1>2. buys \in SUBSET Assigned(candle.code) /\ sells \in SUBSET Assigned(candle.code)
  BY SignalTypes DEF Side
<1> HIDE DEF buys, sells
<1>3. b \in Nat /\ b > 0 /\ w \in Nat /\ w > 0
  BY <1>1, <1>2, WeightPositive
<1> HIDE DEF b, w
<1> QED
  BY <1>1, <1>3 DEF Passes

\* The survivors only exchange shares of the candle's code at its price.
LEMMA ExecutedExchanges ==
  ASSUME AccountIsSound, trader # NoTrader, NEW first, NEW sides, NEW candle,
         candle.code \in Code, candle.close \in Nat
  PROVE  /\ Sound(Executed(first, sides, candle))
         /\ Exchanged(trader, Executed(first, sides, candle), candle.code, candle.close)
<1> DEFINE code == candle.code
           price == candle.close
<1>1. ASSUME NEW t, Sound(t), NEW side
      PROVE  /\ Sound(Obeyed(t, side, sides, candle))
             /\ Exchanged(t, Obeyed(t, side, sides, candle), code, price)
  <2>1. CASE side \in sides
    BY <1>1, <2>1, SignalExchanges DEF Obeyed
  <2>2. CASE side \notin sides
    BY <1>1, <2>2 DEF Obeyed, Exchanged
  <2> QED
    BY <2>1, <2>2
<1>2. \A t, u, v : Exchanged(t, u, code, price) /\ Exchanged(u, v, code, price)
                     => Exchanged(t, v, code, price)
  BY DEF Exchanged
<1>3. Sound(trader) /\ Exchanged(trader, trader, code, price)
  BY DEF AccountIsSound, Exchanged
<1> DEFINE u == Obeyed(trader, first, sides, candle)
           v == Obeyed(u, Other(first), sides, candle)
<1>4. Sound(u) /\ Exchanged(trader, u, code, price)
  BY <1>1, <1>3
<1>5. Sound(v) /\ Exchanged(u, v, code, price)
  <2> HIDE DEF u
  <2> QED
    BY <1>1, <1>4
<1>6. Executed(first, sides, candle) \in {trader, v}
  BY DEF Executed
<1> HIDE DEF u, v, code, price
<1>7. Exchanged(trader, v, code, price)
  BY <1>2, <1>4, <1>5
<1> QED
  BY <1>3, <1>5, <1>6, <1>7 DEF code, price

-----------------------------------------------------------------------------
(* The steps *)

\* The types, for the steps below.
LEMMA ManagerTypes ==
  ASSUME TypeOK
  PROVE  /\ clock \in 1 .. 7 /\ time \in Nat /\ time <= MaxCandles
         /\ enabled \subseteq Strategy /\ mode \in Mode
         /\ seen \in [Code -> [Strategy -> 0 .. MostWarmup]]
         /\ cooldowns \in [Code -> [Side -> 0 .. time \cup {Never}]]
         /\ trader \in Trader \cup {NoTrader}
         /\ polled \in MarketState \cup {NotPolled}
BY ConstantTypes DEF TypeOK, HoursTypeOK

\* A new manager knows nothing, and nothing it could know is wrong.
LEMMA LoadedIsNew ==
  ASSUME NEW strategies \in SUBSET Strategy
  PROVE  LET new == Created(strategies)
         IN /\ new.seen \in [Code -> [Strategy -> 0 .. MostWarmup]]
            /\ new.previous \in [Code -> [Strategy -> Memory]]
            /\ \A c \in Code, s \in Strategy : new.previous[c][s] = NothingKnown
            /\ \A n \in Nat : new.cooldowns \in [Code -> [Side -> 0 .. n \cup {Never}]]
            /\ \A c \in Code, d \in Side : new.cooldowns[c][d] = Never
            /\ new.enabled = strategies
<1>1. 0 \in 0 .. MostWarmup /\ NothingKnown \in Memory
  BY MostWarmupType DEF Memory
<1> QED
  BY <1>1 DEF Created

\* The invariant holds at first, and each step keeps it.
LEMMA InitInv == Init => Inv
<1> SUFFICES ASSUME Init PROVE Inv
  OBVIOUS
<1> DEFINE new == Created(Strategy)
<1>1. /\ seen = new.seen /\ previous = new.previous /\ cooldowns = new.cooldowns
      /\ enabled = Strategy /\ time = 0 /\ opened = 0 /\ polled = NotPolled
      /\ clock = Opening /\ mode \in Mode
      /\ last = [c \in Code |-> NoCandle]
      /\ trader = IF mode = "paper" THEN NewTrader ELSE NoTrader
  BY SignalAssumption DEF Init, HoursInit
<1>2. /\ new.seen \in [Code -> [Strategy -> 0 .. MostWarmup]]
      /\ new.previous \in [Code -> [Strategy -> Memory]]
      /\ \A c \in Code, s \in Strategy : new.previous[c][s] = NothingKnown
      /\ new.cooldowns \in [Code -> [Side -> 0 .. 0 \cup {Never}]]
      /\ \A c \in Code, d \in Side : new.cooldowns[c][d] = Never
  BY LoadedIsNew
<1> HIDE DEF new
<1>3. Sound(NewTrader)
  BY NewTraderIsSound
<1>4. TypeOK
  BY <1>1, <1>2, <1>3, ConstantTypes DEF TypeOK, HoursTypeOK, Sound
<1>5. MoreTypes /\ RemembersWhenWarm /\ CrossesAreFresh /\ DayBeginsFresh /\ OneSidePerCandle
  BY <1>1, <1>2
  DEF MoreTypes, RemembersWhenWarm, CrossesAreFresh, DayBeginsFresh, OneSidePerCandle, Side
<1>6. PollFollows /\ AccountIsSound
  BY <1>1, <1>3 DEF PollFollows, AccountIsSound, NotPolled
<1> QED
  BY <1>4, <1>5, <1>6 DEF Inv

\* What a completed candle changes, in terms of the sides that survive.
LEMMA CandleParts ==
  ASSUME Inv, NEW candle \in Candles, candle.time = time + 1, OnCandleComplete(candle)
  PROVE  LET code  == candle.code
             sides == Surviving(AllSignals(candle), candle)
         IN /\ \A c \in Code \ {code} : /\ seen'[c] = seen[c] /\ previous'[c] = previous[c]
                                        /\ cooldowns'[c] = cooldowns[c]
            /\ \A s \in Strategy :
                 /\ seen'[code][s] = IF Processed(s, code) /\ seen[code][s] < MostWarmup
                                     THEN seen[code][s] + 1 ELSE seen[code][s]
                 /\ previous'[code][s] = IF Processed(s, code) /\ Warm(s, candle)
                                         THEN Values(s, candle) ELSE previous[code][s]
            /\ \A d \in Side : cooldowns'[code][d] = IF d \in sides THEN time + 1
                                                     ELSE cooldowns[code][d]
<1>1. /\ seen \in [Code -> [Strategy -> 0 .. MostWarmup]]
      /\ previous \in [Code -> [Strategy -> Memory]]
      /\ cooldowns \in [Code -> [Side -> 0 .. time \cup {Never}]]
      /\ candle.code \in Code
  BY ManagerTypes DEF Inv, MoreTypes, Candles
<1>2. UpdateIndicators(candle) /\ StorePrevious(candle)
      /\ RecordCooldowns(Surviving(AllSignals(candle), candle), candle)
  BY DEF OnCandleComplete
<1>3. /\ \A c \in Code \ {candle.code} : seen'[c] = seen[c]
      /\ \A s \in Strategy :
           seen'[candle.code][s] =
             IF Processed(s, candle.code) /\ seen[candle.code][s] < MostWarmup
             THEN seen[candle.code][s] + 1 ELSE seen[candle.code][s]
  BY <1>1, <1>2 DEF UpdateIndicators
<1>4. /\ \A c \in Code \ {candle.code} : previous'[c] = previous[c]
      /\ \A s \in Strategy :
           previous'[candle.code][s] =
             IF Processed(s, candle.code) /\ Warm(s, candle)
             THEN Values(s, candle) ELSE previous[candle.code][s]
  BY <1>1, <1>2 DEF StorePrevious
<1>5. /\ \A c \in Code \ {candle.code} : cooldowns'[c] = cooldowns[c]
      /\ \A d \in Side :
           cooldowns'[candle.code][d] =
             IF d \in Surviving(AllSignals(candle), candle) THEN time + 1
             ELSE cooldowns[candle.code][d]
  BY <1>1, <1>2 DEF RecordCooldowns
<1> QED
  BY <1>3, <1>4, <1>5

\* The types after a candle.
LEMMA CandleTypes ==
  ASSUME Inv, NEW candle \in Candles, candle.time = time + 1, OnCandleComplete(candle)
  PROVE  /\ seen' \in [Code -> [Strategy -> 0 .. MostWarmup]]
         /\ previous' \in [Code -> [Strategy -> Memory]]
         /\ cooldowns' \in [Code -> [Side -> 0 .. (time + 1) \cup {Never}]]
<1>1. /\ seen \in [Code -> [Strategy -> 0 .. MostWarmup]]
      /\ previous \in [Code -> [Strategy -> Memory]]
      /\ cooldowns \in [Code -> [Side -> 0 .. time \cup {Never}]]
      /\ candle.code \in Code /\ time \in Nat /\ candle.time = time + 1
  BY ManagerTypes DEF Inv, MoreTypes, Candles
<1>2. UpdateIndicators(candle) /\ StorePrevious(candle)
      /\ RecordCooldowns(Surviving(AllSignals(candle), candle), candle)
  BY DEF OnCandleComplete
<1>3. seen' \in [Code -> [Strategy -> 0 .. MostWarmup]]
  <2>1. \A n \in 0 .. MostWarmup : n < MostWarmup => n + 1 \in 0 .. MostWarmup
    BY MostWarmupType
  <2> QED
    BY <1>1, <1>2, <2>1 DEF UpdateIndicators
<1>4. previous' \in [Code -> [Strategy -> Memory]]
  <2>1. ASSUME NEW s \in Strategy PROVE Values(s, candle) \in Memory
    <3>1. candle.values \in [DOMAIN Warmup -> Readings]
      BY DEF Candles
    <3>2. Config[s].indicators \in SUBSET DOMAIN Warmup
      BY ConstantTypes
    <3>3. Values(s, candle) \in [Config[s].indicators -> Readings]
      BY <3>1, <3>2 DEF Values
    <3> QED
      BY <3>2, <3>3 DEF Memory
  <2> QED
    BY <1>1, <1>2, <2>1 DEF StorePrevious
<1>5. cooldowns' \in [Code -> [Side -> 0 .. (time + 1) \cup {Never}]]
  <2>1. 0 .. time \cup {Never} \subseteq 0 .. (time + 1) \cup {Never}
    BY <1>1
  <2>2. time + 1 \in 0 .. (time + 1) \cup {Never}
    BY <1>1
  <2> DEFINE A == 0 .. time \cup {Never}
             B == 0 .. (time + 1) \cup {Never}
             now == time + 1
  <2>3. A \subseteq B /\ now \in B /\ cooldowns \in [Code -> [Side -> A]]
    BY <1>1, <2>1, <2>2
  <2> DEFINE sides == Surviving(AllSignals(candle), candle)
             row == [d \in Side |-> IF d \in sides THEN now ELSE cooldowns[candle.code][d]]
  <2>4. cooldowns' = [cooldowns EXCEPT ![candle.code] = row]
    BY <1>1, <1>2 DEF RecordCooldowns
  <2>7. candle.code \in Code
    BY <1>1
  <2> HIDE DEF A, B, now, sides
  <2>8. \A d \in Side : cooldowns[candle.code][d] \in B
    BY <2>3, <2>7
  <2>6. row \in [Side -> B]
    BY <2>3, <2>8
  <2>9. cooldowns \in [Code -> [Side -> B]]
    BY <2>3
  <2> HIDE DEF row
  <2>5. cooldowns' \in [Code -> [Side -> B]]
    BY <2>4, <2>6, <2>7, <2>9
  <2> QED
    BY <2>5 DEF B
<1> QED
  BY <1>3, <1>4, <1>5

\* What is remembered after a candle is that candle, or what was before.
LEMMA CandleFresh ==
  ASSUME Inv, NEW candle \in Candles, candle.time = time + 1, OnCandleComplete(candle),
         last' = [last EXCEPT ![candle.code] = candle], UNCHANGED enabled
  PROVE  RemembersWhenWarm' /\ CrossesAreFresh'
<1> DEFINE code == candle.code
<1>1. /\ \A c \in Code \ {code} : seen'[c] = seen[c] /\ previous'[c] = previous[c]
      /\ \A s \in Strategy :
           /\ seen'[code][s] = IF Processed(s, code) /\ seen[code][s] < MostWarmup
                               THEN seen[code][s] + 1 ELSE seen[code][s]
           /\ previous'[code][s] = IF Processed(s, code) /\ Warm(s, candle)
                                   THEN Values(s, candle) ELSE previous[code][s]
  BY CandleParts
<1>2. code \in Code /\ last'[code] = candle /\ \A c \in Code \ {code} : last'[c] = last[c]
  BY DEF Inv, MoreTypes, Candles
<1>3. \A s, c : Processed(s, c)' <=> Processed(s, c)
  BY DEF Processed, Assigned
<1>4. \A s \in Strategy : seen[code][s] \in Nat /\ MostWarmup \in Nat
  BY <1>2, ManagerTypes, MostWarmupType DEF Inv
<1>5. \A s \in Strategy : \A i \in Config[s].indicators : Warmup[i] \in Nat
  BY ConstantTypes
<1>6. \A s \in Strategy : seen'[code][s] \in Nat /\ seen'[code][s] >= seen[code][s]
  BY <1>1, <1>4
<1>7. ASSUME NEW c \in Code, NEW s \in Strategy, previous'[c][s] # NothingKnown
      PROVE  /\ Processed(s, c)
             /\ \A i \in Config[s].indicators : seen'[c][s] + 1 >= Warmup[i]
  <2>1. CASE c # code
    <3>1. previous[c][s] # NothingKnown /\ seen'[c] = seen[c]
      BY <1>1, <1>7, <2>1
    <3> QED
      BY <3>1 DEF Inv, RemembersWhenWarm
  <2>2. CASE c = code /\ Processed(s, code) /\ Warm(s, candle)
    <3>1. \A i \in Config[s].indicators : seen[code][s] + 1 >= Warmup[i]
      BY <2>2 DEF Warm, Ready
    <3> QED
      BY <1>4, <1>5, <1>6, <2>2, <3>1
  <2>3. CASE c = code /\ ~(Processed(s, code) /\ Warm(s, candle))
    <3>1. previous[code][s] # NothingKnown
      BY <1>1, <1>7, <2>3
    <3>2. /\ Processed(s, code)
          /\ \A i \in Config[s].indicators : seen[code][s] + 1 >= Warmup[i]
      BY <1>2, <3>1 DEF Inv, RemembersWhenWarm
    <3> QED
      BY <1>4, <1>5, <1>6, <2>3, <3>2
  <2> QED
    BY <2>1, <2>2, <2>3
<1>8. ASSUME NEW c \in Code, NEW s \in Strategy, previous'[c][s] # NothingKnown,
             s \in enabled, last'[c].volume > 0
      PROVE  previous'[c][s] = Values(s, last'[c])
  <2>1. CASE c # code
    <3>1. previous[c][s] # NothingKnown /\ last'[c] = last[c] /\ previous'[c][s] = previous[c][s]
      BY <1>1, <1>2, <1>8, <2>1
    <3> QED
      BY <1>8, <3>1 DEF Inv, CrossesAreFresh
  <2>2. CASE c = code
    <3>1. candle.volume \in Nat /\ candle.volume > 0
      BY <1>2, <1>8, <2>2, ConstantTypes DEF Candles
    <3>2. CASE Processed(s, code) /\ Warm(s, candle)
      BY <1>1, <1>2, <2>2, <3>2
    <3>3. CASE ~(Processed(s, code) /\ Warm(s, candle))
      <4>1. previous[code][s] # NothingKnown
        BY <1>1, <1>8, <2>2, <3>3
      <4>2. /\ Processed(s, code)
            /\ \A i \in Config[s].indicators : seen[code][s] + 1 >= Warmup[i]
        BY <1>2, <4>1 DEF Inv, RemembersWhenWarm
      <4>3. Warm(s, candle)
        BY <3>1, <4>2 DEF Warm, Ready
      <4> QED
        BY <3>3, <4>2, <4>3
    <3> QED
      BY <3>2, <3>3
  <2> QED
    BY <2>1, <2>2
<1>9. RemembersWhenWarm'
  BY <1>3, <1>7 DEF RemembersWhenWarm
<1>10. CrossesAreFresh'
  BY <1>8 DEF CrossesAreFresh, Values
<1> QED
  BY <1>9, <1>10

-----------------------------------------------------------------------------
\* A cooldown that is recorded is recorded of one side, at this candle's time.
LEMMA CandleOneSide ==
  ASSUME Inv, NEW candle \in Candles, candle.time = time + 1, OnCandleComplete(candle)
  PROVE  OneSidePerCandle'
<1> DEFINE code == candle.code
           sides == Surviving(AllSignals(candle), candle)
<1>1. code \in Code /\ cooldowns \in [Code -> [Side -> 0 .. time \cup {Never}]] /\ time \in Nat
  BY ManagerTypes DEF Inv, Candles
<1>2. /\ \A c \in Code \ {code} : cooldowns'[c] = cooldowns[c]
      /\ \A d \in Side : cooldowns'[code][d] = IF d \in sides THEN time + 1
                                               ELSE cooldowns[code][d]
  BY CandleParts
<1> SUFFICES ASSUME \A s \in Strategy : Config[s].priority > 0, NEW c \in Code,
                    cooldowns'[c]["BUY"] # Never
             PROVE  cooldowns'[c]["BUY"] # cooldowns'[c]["SELL"]
  BY DEF OneSidePerCandle
<1>3. \A b \in Code : cooldowns[b]["BUY"] # Never => cooldowns[b]["BUY"] # cooldowns[b]["SELL"]
  BY DEF Inv, OneSidePerCandle
<1>4. ~("BUY" \in sides /\ "SELL" \in sides)
  BY <1>1, OneSideSurvives
<1>5. /\ cooldowns[code]["BUY"] \in 0 .. time \cup {Never}
      /\ cooldowns[code]["SELL"] \in 0 .. time \cup {Never}
      /\ "BUY" \in Side /\ "SELL" \in Side
  BY <1>1 DEF Side
<1>6. time + 1 \notin 0 .. time \cup {Never}
  BY <1>1, ConstantTypes
<1> HIDE DEF code, sides
<1>7. CASE c # code
  BY <1>2, <1>3, <1>7
<1>8. CASE c = code
  BY <1>2, <1>3, <1>4, <1>5, <1>6, <1>8
<1> QED
  BY <1>7, <1>8

\* The trader after a candle.
LEMMA CandleAccount ==
  ASSUME Inv, NEW candle \in Candles, OnCandleComplete(candle)
  PROVE  /\ trader = NoTrader => trader' = NoTrader
         /\ trader # NoTrader => /\ Sound(trader')
                                 /\ Exchanged(trader, trader', candle.code, candle.close)
         /\ trader' \in Trader \cup {NoTrader}
<1> DEFINE first == FirstSide(AllSignals(candle))
           sides == Surviving(AllSignals(candle), candle)
<1>1. trader' = Executed(first, sides, candle)
  BY DEF OnCandleComplete
<1>2. candle.code \in Code /\ candle.close \in Nat /\ AccountIsSound
  BY ConstantTypes DEF Candles, Inv
<1> HIDE DEF first, sides
<1>3. CASE trader = NoTrader
  BY <1>1, <1>3 DEF Executed
<1>4. CASE trader # NoTrader
  BY <1>1, <1>2, <1>4, ExecutedExchanges DEF Sound
<1> QED
  BY <1>3, <1>4

\* A candle keeps the invariant.
LEMMA CandleInv == Inv /\ CandleCompletes => Inv'
<1> SUFFICES ASSUME Inv, CandleCompletes PROVE Inv'
  OBVIOUS
<1>0. time \in Nat /\ time < MaxCandles /\ time' = time + 1
  BY ManagerTypes DEF Inv, CandleCompletes
<1>1. PICK candle \in Candles :
        /\ candle.time = time + 1
        /\ OnCandleComplete(candle) /\ last' = [last EXCEPT ![candle.code] = candle]
  <2>1. PICK c \in Code, p \in Closes, v \in Volumes, r \in [DOMAIN Warmup -> Readings] :
          LET candle == [code |-> c, close |-> p, volume |-> v, time |-> time + 1, values |-> r]
          IN OnCandleComplete(candle) /\ last' = [last EXCEPT ![c] = candle]
    BY DEF CandleCompletes
  <2> DEFINE candle == [code |-> c, close |-> p, volume |-> v, time |-> time + 1, values |-> r]
  <2>2. candle \in Candles /\ candle.time = time + 1 /\ candle.code = c
    BY <1>0 DEF Candles
  <2>3. OnCandleComplete(candle) /\ last' = [last EXCEPT ![c] = candle]
    BY <2>1
  <2> HIDE DEF candle
  <2> QED
    BY <2>2, <2>3
<1>2. UNCHANGED <<enabled, mode, clock, polled, opened>>
  BY <1>1 DEF CandleCompletes, OnCandleComplete
<1>3. TypeOK'
  <2>1. /\ seen' \in [Code -> [Strategy -> 0 .. MostWarmup]]
        /\ cooldowns' \in [Code -> [Side -> 0 .. time' \cup {Never}]]
    BY <1>0, <1>1, CandleTypes
  <2>2. trader' \in Trader \cup {NoTrader}
    BY <1>1, CandleAccount
  <2>3. time' \in 0 .. MaxCandles
    BY <1>0, ConstantTypes
  <2>4. MostWarmup' = MostWarmup
    BY DEF MostWarmup
  <2> QED
    BY <1>2, <2>1, <2>2, <2>3, <2>4 DEF Inv, TypeOK, HoursTypeOK
<1>4. MoreTypes'
  <2>1. previous' \in [Code -> [Strategy -> Memory]]
    BY <1>1, CandleTypes
  <2>2. last' \in [Code -> Candles \cup {NoCandle}]
    BY <1>1 DEF Inv, MoreTypes
  <2> QED
    BY <2>1, <2>2 DEF MoreTypes
<1>5. RemembersWhenWarm' /\ CrossesAreFresh'
  BY <1>1, <1>2, CandleFresh
<1>6. PollFollows'
  BY <1>0, <1>2 DEF Inv, PollFollows
<1>7. DayBeginsFresh'
  <2> SUFFICES ASSUME polled = "TRADING", NEW c \in Code, NEW d \in Side
               PROVE  cooldowns'[c][d] = Never \/ cooldowns'[c][d] >= opened
    BY <1>2 DEF DayBeginsFresh
  <2>1. cooldowns[c][d] = Never \/ cooldowns[c][d] >= opened
    BY DEF Inv, DayBeginsFresh
  <2>2. cooldowns'[c][d] \in {time + 1, cooldowns[c][d]}
    <3>1. c # candle.code => cooldowns'[c] = cooldowns[c]
      BY <1>1, CandleParts
    <3>2. cooldowns'[candle.code][d] \in {time + 1, cooldowns[candle.code][d]}
      BY <1>1, CandleParts
    <3> QED
      BY <3>1, <3>2
  <2>3. time + 1 >= opened
    BY <1>0 DEF Inv, PollFollows
  <2> QED
    BY <2>1, <2>2, <2>3
<1>8. OneSidePerCandle'
  BY <1>1, CandleOneSide
<1>9. AccountIsSound'
  <2>1. trader # NoTrader => Sound(trader')
    BY <1>1, CandleAccount
  <2>2. trader = NoTrader => trader' = NoTrader
    BY <1>1, CandleAccount
  <2> QED
    BY <2>1, <2>2 DEF AccountIsSound, Sound, Gained, Worth, Bought
<1> QED
  BY <1>3, <1>4, <1>5, <1>6, <1>7, <1>8, <1>9 DEF Inv

\* A hot swap keeps it.
LEMMA ReloadInv == Inv /\ ReloadStrategies => Inv'
<1> SUFFICES ASSUME Inv, ReloadStrategies PROVE Inv'
  OBVIOUS
<1>1. PICK strategies \in SUBSET Strategy : Load(strategies)
  BY DEF ReloadStrategies
<1> DEFINE new == Created(strategies)
<1>2. /\ enabled' = strategies /\ seen' = new.seen /\ previous' = new.previous
      /\ cooldowns' = new.cooldowns /\ trader' = NoTrader
      /\ last' = [c \in Code |-> NoCandle]
      /\ UNCHANGED <<mode, clock, polled, time, opened>>
  BY <1>1, LoadedIsNew DEF Load, ReloadStrategies
<1>3. time \in Nat
  BY ManagerTypes DEF Inv
<1>4. /\ new.seen \in [Code -> [Strategy -> 0 .. MostWarmup]]
      /\ new.previous \in [Code -> [Strategy -> Memory]]
      /\ \A c \in Code, s \in Strategy : new.previous[c][s] = NothingKnown
      /\ new.cooldowns \in [Code -> [Side -> 0 .. time \cup {Never}]]
      /\ \A c \in Code, d \in Side : new.cooldowns[c][d] = Never
  BY <1>3, LoadedIsNew
<1> HIDE DEF new
<1>5. TypeOK'
  BY <1>2, <1>4 DEF Inv, TypeOK, HoursTypeOK, MostWarmup
<1>6. MoreTypes' /\ RemembersWhenWarm' /\ CrossesAreFresh' /\ DayBeginsFresh' /\ OneSidePerCandle'
  BY <1>2, <1>4
  DEF MoreTypes, RemembersWhenWarm, CrossesAreFresh, DayBeginsFresh, OneSidePerCandle, Side
<1>7. PollFollows' /\ AccountIsSound'
  BY <1>2 DEF Inv, PollFollows, AccountIsSound
<1> QED
  BY <1>5, <1>6, <1>7 DEF Inv

\* The manager's memory and the cooldowns, when a step leaves them alone.
LEMMA ManagerKept ==
  ASSUME Inv, UNCHANGED <<enabled, seen, previous, last>>
  PROVE  MoreTypes' /\ RemembersWhenWarm' /\ CrossesAreFresh'
<1>1. \A s, c : Processed(s, c)' <=> Processed(s, c)
  BY DEF Processed, Assigned
<1> QED
  BY <1>1 DEF Inv, MoreTypes, RemembersWhenWarm, CrossesAreFresh, Values

\* A trader left alone stays sound.
LEMMA TraderKept ==
  ASSUME Inv, UNCHANGED trader
  PROVE  AccountIsSound'
BY DEF Inv, AccountIsSound, Sound, Gained, Worth, Bought

\* A mode change keeps it.
LEMMA ModeInv == Inv /\ ChangeMode => Inv'
<1> SUFFICES ASSUME Inv, ChangeMode PROVE Inv'
  OBVIOUS
<1>1. /\ mode' \in Mode /\ trader' \in {trader, NewTrader}
      /\ UNCHANGED <<enabled, seen, previous, cooldowns, clock, polled, time, opened, last>>
  BY DEF ChangeMode, TraderOf
<1>2. TypeOK'
  BY <1>1, NewTraderIsSound DEF Inv, TypeOK, HoursTypeOK, Sound, MostWarmup
<1>3. MoreTypes' /\ RemembersWhenWarm' /\ CrossesAreFresh'
  BY <1>1, ManagerKept
<1>4. PollFollows' /\ DayBeginsFresh' /\ OneSidePerCandle'
  BY <1>1 DEF Inv, PollFollows, DayBeginsFresh, OneSidePerCandle
<1>5. AccountIsSound'
  BY <1>1, NewTraderIsSound DEF Inv, AccountIsSound, Sound, Gained, Worth, Bought
<1> QED
  BY <1>2, <1>3, <1>4, <1>5 DEF Inv

\* The states of the market are named, and trading is the fourth interval.
LEMMA MarketStates ==
  ASSUME NEW k \in 1 .. 7
  PROVE  /\ GetMarketState(k) \in MarketState
         /\ GetMarketState(k) = "TRADING" <=> k = 4
         /\ GetMarketState(k) # NotPolled
BY DEF GetMarketState, MarketState, NotPolled

\* The poll keeps it.
LEMMA PollInv == Inv /\ PollMarketState => Inv'
<1> SUFFICES ASSUME Inv, PollMarketState PROVE Inv'
  OBVIOUS
<1> DEFINE now == GetMarketState(clock)
<1>1. /\ polled' = now
      /\ UNCHANGED <<enabled, seen, previous, mode, trader, clock, time, opened, last>>
      /\ \/ cooldowns' = cooldowns
         \/ cooldowns' = [c \in Code |-> [d \in Side |-> Never]]
  BY DEF PollMarketState, ResetDaily
<1>2. /\ clock \in 1 .. 7 /\ time \in Nat
      /\ cooldowns \in [Code -> [Side -> 0 .. time \cup {Never}]]
      /\ opened \in 0 .. time
  BY ManagerTypes DEF Inv, PollFollows
<1>3. now \in MarketState /\ now # NotPolled /\ (now = "TRADING" <=> clock = 4)
  BY <1>2, MarketStates
<1> HIDE DEF now
<1>4. cooldowns' \in [Code -> [Side -> 0 .. time \cup {Never}]]
  BY <1>1, <1>2
<1>5. TypeOK'
  BY <1>1, <1>3, <1>4 DEF Inv, TypeOK, HoursTypeOK, MostWarmup
<1>6. MoreTypes' /\ RemembersWhenWarm' /\ CrossesAreFresh' /\ AccountIsSound'
  BY <1>1, ManagerKept, TraderKept
<1>7. PollFollows'
  BY <1>1, <1>3 DEF Inv, PollFollows
<1>8. OneSidePerCandle'
  BY <1>1 DEF Inv, OneSidePerCandle, Side
<1>9. DayBeginsFresh'
  <2> SUFFICES ASSUME now = "TRADING", NEW c \in Code, NEW d \in Side
               PROVE  cooldowns'[c][d] = Never \/ cooldowns'[c][d] >= opened
    BY <1>1 DEF DayBeginsFresh
  <2>1. CASE polled = "TRADING"
    BY <1>1, <2>1 DEF Inv, DayBeginsFresh
  <2>2. CASE polled = NotPolled
    <3>1. opened = 0
      BY <2>2 DEF Inv, PollFollows
    <3>2. cooldowns'[c][d] \in 0 .. time \cup {Never}
      BY <1>4
    <3> QED
      BY <1>2, <3>1, <3>2
  <2>3. CASE polled # "TRADING" /\ polled # NotPolled
    <3>1. cooldowns' = [b \in Code |-> [e \in Side |-> Never]]
      BY <2>3 DEF PollMarketState, ResetDaily, StartsTrading, now
    <3> QED
      BY <3>1
  <2> QED
    BY <2>1, <2>2, <2>3
<1> QED
  BY <1>5, <1>6, <1>7, <1>8, <1>9 DEF Inv

\* The end of an interval keeps it.
LEMMA IntervalInv == Inv /\ IntervalEnds => Inv'
<1> SUFFICES ASSUME Inv, IntervalEnds PROVE Inv'
  OBVIOUS
<1>1. /\ clock \in 1 .. 7 /\ clock < Closing /\ clock' = clock + 1
      /\ polled = GetMarketState(clock)
      /\ UNCHANGED <<managerVars, polled, time, last>>
      /\ opened' = IF GetMarketState(clock') = "TRADING" THEN time ELSE opened
  BY ManagerTypes DEF Inv, IntervalEnds, NextInterval
<1>2. /\ UNCHANGED <<enabled, seen, previous, cooldowns, mode, trader, polled, time, last>>
      /\ clock' \in 1 .. 7 /\ time \in Nat
  BY <1>1, ConstantTypes, ManagerTypes DEF Inv, managerVars
<1>3. TypeOK'
  BY <1>2 DEF Inv, TypeOK, HoursTypeOK, MostWarmup
<1>4. MoreTypes' /\ RemembersWhenWarm' /\ CrossesAreFresh' /\ AccountIsSound'
  BY <1>2, ManagerKept, TraderKept
<1>5. OneSidePerCandle'
  BY <1>2 DEF Inv, OneSidePerCandle
<1>6. polled # NotPolled /\ (polled = "TRADING" <=> clock = 4)
  BY <1>1, MarketStates
<1>7. GetMarketState(clock') = "TRADING" <=> clock' = 4
  BY <1>2, MarketStates
<1>8. PollFollows'
  <2>1. opened' \in 0 .. time
    BY <1>1, <1>2 DEF Inv, PollFollows
  <2>2. polled = "TRADING" => clock' \in {4, 5}
    BY <1>1, <1>6
  <2> QED
    BY <1>2, <1>6, <2>1, <2>2 DEF PollFollows
<1>9. DayBeginsFresh'
  <2>1. polled = "TRADING" => opened' = opened
    BY <1>1, <1>6, <1>7
  <2> QED
    BY <1>2, <2>1 DEF Inv, DayBeginsFresh
<1> QED
  BY <1>3, <1>4, <1>5, <1>8, <1>9 DEF Inv

\* So does a step that changes nothing.
LEMMA StutterInv == Inv /\ UNCHANGED vars => Inv'
<1> SUFFICES ASSUME Inv, UNCHANGED vars PROVE Inv'
  OBVIOUS
<1>1. UNCHANGED <<enabled, seen, previous, cooldowns, mode, trader, clock, polled, time,
                  opened, last>>
  BY DEF vars, managerVars, signalVars
<1>2. MoreTypes' /\ RemembersWhenWarm' /\ CrossesAreFresh' /\ AccountIsSound'
  BY <1>1, ManagerKept, TraderKept
<1>3. TypeOK' /\ PollFollows' /\ DayBeginsFresh' /\ OneSidePerCandle'
  BY <1>1 DEF Inv, TypeOK, HoursTypeOK, MostWarmup, PollFollows, DayBeginsFresh, OneSidePerCandle
<1> QED
  BY <1>2, <1>3 DEF Inv

\* Every step keeps it.
LEMMA NextInv == Inv /\ [Next]_vars => Inv'
BY CandleInv, ReloadInv, ModeInv, PollInv, IntervalInv, StutterInv DEF Next

\* It always holds.
LEMMA AlwaysInv == Spec => []Inv
BY InitInv, NextInv, PTL DEF Spec

-----------------------------------------------------------------------------
(* What holds of every behaviour *)

\* Every variable keeps its type: warm-up counters stay within the longest
\* warm-up, cooldowns are never in the future, and the paper trader never
\* spends cash it does not have (_execute_buy).
THEOREM SignalTypesKept == Spec => []TypeOK
<1>1. Inv => TypeOK
  BY DEF Inv
<1> QED
  BY <1>1, AlwaysInv, PTL

\* What a strategy compares a candle's indicators with is what they showed at
\* the candle before (_prev_values), whatever was swapped or warming up.
THEOREM CrossesFresh == Spec => []CrossesAreFresh
<1>1. Inv => CrossesAreFresh
  BY DEF Inv
<1> QED
  BY <1>1, AlwaysInv, PTL

\* With positive priorities no candle is both bought and sold
\* (_resolve_conflicts), for any number of strategies and any rules.
THEOREM OneSide == Spec => []OneSidePerCandle
<1>1. Inv => OneSidePerCandle
  BY DEF Inv
<1> QED
  BY <1>1, AlwaysInv, PTL

\* Once the poll has seen trading begin, no earlier signal holds one back
\* (reset_daily by _on_market_state_changed), whenever the poll comes.
THEOREM DayFresh == Spec => []DayBeginsFresh
<1>1. Inv => DayBeginsFresh
  BY DEF Inv
<1> QED
  BY <1>1, AlwaysInv, PTL

\* The profit get_summary reports is the gain, and at most what the truncated
\* averages of _execute_buy add to it.
THEOREM ProfitTrue == Spec => []ProfitIsTrue
<1>1. Inv => ProfitIsTrue
  <2> SUFFICES ASSUME Inv, trader # NoTrader
               PROVE  trader.pnl - (trader.capital + Invested - InitialCapital)
                        \in 0 .. trader.slack
    BY DEF ProfitIsTrue, GetSummary
  <2>1. Sound(trader)
    BY DEF Inv, AccountIsSound
  <2>2. Invested = Worth(trader)
    BY DEF Invested, Worth, Bought
  <2> QED
    BY <2>1, <2>2 DEF Sound, Gained
<1> QED
  BY <1>1, AlwaysInv, PTL

\* The cooldowns of one side of a code are recorded at least the cooldown of
\* some strategy apart (_check_cooldown before _record_cooldown).
CooldownsApart ==
  \A c \in Code, d \in Side :
    cooldowns[c][d] # Never /\ cooldowns'[c][d] \notin {Never, cooldowns[c][d]} =>
      \E s \in Strategy : cooldowns'[c][d] - cooldowns[c][d] >= Config[s].cooldown

\* Only a candle records a cooldown, after the last one has run off.
LEMMA CandleWaits == Inv /\ CandleCompletes => CooldownsApart
<1> SUFFICES ASSUME Inv, CandleCompletes, NEW c \in Code, NEW d \in Side,
                    cooldowns[c][d] # Never,
                    cooldowns'[c][d] \notin {Never, cooldowns[c][d]}
             PROVE  \E s \in Strategy :
                      cooldowns'[c][d] - cooldowns[c][d] >= Config[s].cooldown
  BY DEF CooldownsApart
<1>1. PICK b \in Code, p \in Closes, v \in Volumes, r \in [DOMAIN Warmup -> Readings] :
        OnCandleComplete([code |-> b, close |-> p, volume |-> v, time |-> time + 1,
                          values |-> r])
  BY DEF CandleCompletes
<1> DEFINE candle == [code |-> b, close |-> p, volume |-> v, time |-> time + 1, values |-> r]
<1>2. candle \in Candles /\ candle.time = time + 1 /\ candle.code = b
  BY ManagerTypes DEF Candles, Inv
<1>3. OnCandleComplete(candle)
  BY <1>1
<1> HIDE DEF candle
<1>4. c = b /\ d \in Surviving(AllSignals(candle), candle) /\ cooldowns'[c][d] = time + 1
  <2>1. c # b => cooldowns'[c] = cooldowns[c]
    BY <1>2, <1>3, CandleParts
  <2>2. cooldowns'[b][d] = IF d \in Surviving(AllSignals(candle), candle) THEN time + 1
                           ELSE cooldowns[b][d]
    BY <1>2, <1>3, CandleParts
  <2> QED
    BY <2>1, <2>2
<1>5. \E s \in Strategy : \/ cooldowns[candle.code][d] = Never
                          \/ candle.time - cooldowns[candle.code][d] >= Config[s].cooldown
  BY <1>2, <1>4, SurvivorsWaited
<1> QED
  BY <1>2, <1>4, <1>5

\* The code behind it is _check_cooldown; a strategy of the code's watch list
\* whose signal is best is the one whose cooldown has run off.
THEOREM CooldownsHold == Spec => CooldownKept
<1>1. Inv /\ [Next]_vars => [CooldownsApart]_vars
  <2> SUFFICES ASSUME Inv, [Next]_vars, ~(UNCHANGED vars) PROVE CooldownsApart
    OBVIOUS
  <2>1. CASE CandleCompletes
    BY <2>1, CandleWaits
  <2>2. CASE ReloadStrategies
    <3>1. PICK strategies \in SUBSET Strategy : Load(strategies)
      BY <2>2 DEF ReloadStrategies
    <3>2. \A c \in Code, d \in Side : cooldowns'[c][d] = Never
      BY <3>1, LoadedIsNew DEF Load
    <3> QED
      BY <3>2 DEF CooldownsApart
  <2>3. CASE ChangeMode
    BY <2>3 DEF ChangeMode, CooldownsApart
  <2>4. CASE PollMarketState
    BY <2>4 DEF PollMarketState, ResetDaily, CooldownsApart
  <2>5. CASE IntervalEnds
    BY <2>5 DEF IntervalEnds, managerVars, CooldownsApart
  <2> QED
    BY <2>1, <2>2, <2>3, <2>4, <2>5 DEF Next
<1> QED
  BY <1>1, AlwaysInv, PTL DEF Spec, CooldownKept, CooldownsApart

-----------------------------------------------------------------------------
(* The abstract account *)

\* Cash and shares are whole numbers.
LEMMA HeldAndCash ==
  ASSUME NEW t \in Trader
  PROVE  /\ t.capital \in Nat
         /\ \A c \in Code : t.positions[c].qty \in Nat
BY TraderTypes

\* A candle is a trade of its stock, or the account stays as it is.
LEMMA CandleTrades == Inv /\ CandleCompletes => [Account!Next]_<<Cash, Held>>
<1> SUFFICES ASSUME Inv, CandleCompletes PROVE [Account!Next]_<<Cash, Held>>
  OBVIOUS
<1>1. PICK b \in Code, p \in Closes, v \in Volumes, r \in [DOMAIN Warmup -> Readings] :
        OnCandleComplete([code |-> b, close |-> p, volume |-> v, time |-> time + 1,
                          values |-> r])
  BY DEF CandleCompletes
<1> DEFINE candle == [code |-> b, close |-> p, volume |-> v, time |-> time + 1, values |-> r]
<1>2. candle \in Candles /\ candle.code = b /\ candle.close = p /\ p \in Nat
  BY ConstantTypes, ManagerTypes DEF Candles, Inv
<1>3. OnCandleComplete(candle)
  BY <1>1
<1> HIDE DEF candle
<1>4. CASE trader = NoTrader
  <2>1. trader' = NoTrader
    BY <1>2, <1>3, <1>4, CandleAccount
  <2> QED
    BY <1>4, <2>1 DEF Cash, Held
<1>5. CASE trader # NoTrader
  <2>1. Sound(trader') /\ Exchanged(trader, trader', b, p)
    BY <1>2, <1>3, <1>5, CandleAccount
  <2>2. trader \in Trader /\ trader' \in Trader
    BY <1>5, <2>1 DEF Inv, AccountIsSound, Sound
  <2>3. trader' # NoTrader
    BY <2>2, SignalAssumption
  <2>4. /\ Cash = trader.capital /\ Cash' = trader'.capital
        /\ \A c \in Code : Held[c] = trader.positions[c].qty /\ Held'[c] = trader'.positions[c].qty
    BY <1>5, <2>3 DEF Cash, Held
  <2>5. /\ \A d \in Code \ {b} : Held'[d] = Held[d]
        /\ Cash + p * Held[b] = Cash' + p * Held'[b]
    BY <2>1, <2>4 DEF Exchanged
  <2>6. Cash \in Nat /\ Cash' \in Nat /\ Held[b] \in Nat /\ Held'[b] \in Nat
    BY <2>2, <2>4, HeldAndCash
  <2>7. /\ Cash' + p * Held'[b] <= Cash + p * Held[b]
        /\ 100000 * ((Cash + p * Held[b]) - (Cash' + p * Held'[b])) <= 0 * (Cash + p * Held[b])
    <3> DEFINE worth == Cash + p * Held[b]
    <3>1. worth \in Int
      BY <1>2, <2>6
    <3> HIDE DEF worth
    <3>2. worth <= worth /\ 100000 * (worth - worth) <= 0 * worth
      BY <3>1
    <3> QED
      BY <2>5, <3>2 DEF worth
  <2>8. Account!Trade(b, p)
    BY <2>5, <2>6, <2>7 DEF Account!Trade, Account!Worth
  <2> QED
    BY <2>8 DEF Account!Next
<1> QED
  BY <1>4, <1>5

\* A new trader is a fresh account.
LEMMA NewTraderIsFresh ==
  /\ NewTrader.capital = InitialCapital /\ NewTrader # NoTrader
  /\ [c \in Code |-> NewTrader.positions[c].qty] = [c \in Code |-> 0]
BY NewTraderIsSound, SignalAssumption DEF NewTrader, Flat, Sound

\* The paper trader, through mode switches and hot swaps, is an account that
\* exchanges shares for cash at a candle's price: every step is a trade, a
\* fresh account or none.
THEOREM PaperIsAccount == Spec => ImplementsAccount
<1>1. Init => Account!Init
  BY NewTraderIsFresh DEF Init, Account!Init, Cash, Held
<1>2. Inv /\ [Next]_vars => [Account!Next]_<<Cash, Held>>
  <2> SUFFICES ASSUME Inv, [Next]_vars PROVE [Account!Next]_<<Cash, Held>>
    OBVIOUS
  <2>1. CASE CandleCompletes
    BY <2>1, CandleTrades
  <2>2. CASE ReloadStrategies
    BY <2>2 DEF ReloadStrategies, Account!Next, Account!Fresh, Cash, Held
  <2>3. CASE ChangeMode
    <3>1. trader' = trader \/ (trader = NoTrader /\ trader' = NewTrader)
      BY <2>3 DEF ChangeMode, TraderOf
    <3>2. Cash' = Cash /\ Held' = Held
      BY <3>1, NewTraderIsFresh DEF Cash, Held
    <3> QED
      BY <3>2
  <2>4. CASE PollMarketState
    BY <2>4 DEF PollMarketState, Cash, Held
  <2>5. CASE IntervalEnds
    BY <2>5 DEF IntervalEnds, managerVars, Cash, Held
  <2>6. CASE UNCHANGED vars
    BY <2>6 DEF vars, managerVars, Cash, Held
  <2> QED
    BY <2>1, <2>2, <2>3, <2>4, <2>5, <2>6 DEF Next
<1> QED
  BY <1>1, <1>2, AlwaysInv, PTL DEF Spec, ImplementsAccount, Account!Spec
=============================================================================
