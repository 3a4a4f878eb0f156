----------------------------- MODULE FeedProofs -----------------------------
(***************************************************************************)
(* What FeedSystem guarantees for any codes, trades, candle length and     *)
(* bounds: its types, that every login restores what was streamed, and     *)
(* that each priced tick is in exactly one candle.                         *)
(***************************************************************************)
EXTENDS FeedSystem, FoldTheorems, FiniteSetTheorems, TLAPS

-----------------------------------------------------------------------------
(* Candles *)

LEMMA AbsoluteType == \A x \in Int : Absolute(x) \in Nat
BY DEF Absolute

LEMMA SlotType == \A time \in Nat \cup {NoTime} : Slot(time) \in Int
<1> SUFFICES ASSUME NEW time \in Nat, time # NoTime PROVE Slot(time) \in Int
  BY DEF Slot
<1>1. time \div Minutes \in Int
  BY MinutesAssumption
<1>2. (time \div Minutes) * Minutes \in Int
  BY <1>1, MinutesAssumption
<1> QED
  BY <1>2 DEF Slot

LEMMA NewCandleType ==
  ASSUME NEW c \in Code, NEW slot \in Int, NEW p \in Nat, NEW v \in Nat
  PROVE  NewCandle(c, slot, p, v) \in Candle
BY DEF NewCandle, Candle

LEMMA GrownType ==
  ASSUME NEW old \in Candle, NEW p \in Nat, NEW v \in Nat
  PROVE  Grown(old, p, v) \in Candle
<1>1. Larger(old.high, p) \in Nat /\ Smaller(old.low, p) \in Nat /\ old.volume + v \in Nat
  BY DEF Candle, Larger, Smaller
<1> QED
  BY <1>1 DEF Grown, Candle

\* on_tick makes candles of candles, whatever the sign of the feed.
LEMMA OnTickType ==
  ASSUME building \in [Code -> Candle \cup {NoCandle}], NEW tick \in Tick
  PROVE  /\ OnTick(building, tick).building \in [Code -> Candle \cup {NoCandle}]
         /\ OnTick(building, tick).done \in Seq(Candle)
<1> DEFINE p    == Absolute(tick.price)
           v    == Absolute(tick.volume)
           slot == Slot(tick.time)
           old  == building[tick.code]
           same == old # NoCandle /\ old.slot = slot
           next == IF same THEN Grown(old, p, v) ELSE NewCandle(tick.code, slot, p, v)
<1>1. tick.code \in Code /\ p \in Nat /\ v \in Nat /\ slot \in Int
  <2>1. tick.code \in Code /\ tick.price \in Int /\ tick.volume \in Int
        /\ tick.time \in Nat \cup {NoTime}
    BY DEF Tick
  <2> QED
    BY <2>1, AbsoluteType, SlotType
<1>2. old # NoCandle => old \in Candle
  BY <1>1
<1>3. next \in Candle
  BY <1>1, <1>2, NewCandleType, GrownType
<1>4. OnTick(building, tick) =
        IF p = 0 THEN [building |-> building, done |-> <<>>]
        ELSE [building |-> [building EXCEPT ![tick.code] = next],
              done     |-> IF same \/ old = NoCandle THEN <<>> ELSE <<old>>]
  BY DEF OnTick
<1> HIDE DEF next, same, old, p, slot
<1>5. CASE p = 0
  BY <1>4, <1>5
<1>6. CASE p # 0
  <2>1. OnTick(building, tick).building = [building EXCEPT ![tick.code] = next]
        /\ OnTick(building, tick).done = IF same \/ old = NoCandle THEN <<>> ELSE <<old>>
    BY <1>4, <1>6
  <2>2. [building EXCEPT ![tick.code] = next] \in [Code -> Candle \cup {NoCandle}]
    BY <1>3
  <2>3. (IF same \/ old = NoCandle THEN <<>> ELSE <<old>>) \in Seq(Candle)
    BY <1>2
  <2> QED
    BY <2>1, <2>2, <2>3
<1> QED
  BY <1>5, <1>6

\* flush gives candles.
LEMMA FlushType ==
  ASSUME building \in [Code -> Candle \cup {NoCandle}],
         NEW codes \in SetToSeqs({c \in Code : building[c] # NoCandle})
  PROVE  /\ Flush(building, codes).building = [c \in Code |-> NoCandle]
         /\ Flush(building, codes).done \in Seq(Candle)
<1> DEFINE open == {c \in Code : building[c] # NoCandle}
<1>1. IsFiniteSet(open) /\ Cardinality(open) \in Nat
  BY CodeAssumption, FS_Subset, FS_CardinalityType
<1>2. codes \in [1 .. Cardinality(open) -> open]
  BY DEF SetToSeqs
<1> HIDE DEF open
<1>3. \A k \in 1 .. Cardinality(open) : codes[k] \in open
  BY <1>2
<1>4. \A c \in open : building[c] \in Candle
  BY DEF open
<1>5. [k \in DOMAIN codes |-> building[codes[k]]] \in [1 .. Cardinality(open) -> Candle]
  BY <1>2, <1>3, <1>4
<1>6. [k \in DOMAIN codes |-> building[codes[k]]] \in Seq(Candle)
  BY <1>1, <1>5
<1> QED
  BY <1>6 DEF Flush

LEMMA AggregateType ==
  ASSUME emitted \in Seq(Candle), NEW after,
         after.building \in [Code -> Candle \cup {NoCandle}], after.done \in Seq(Candle),
         Aggregate(after)
  PROVE  building' \in [Code -> Candle \cup {NoCandle}] /\ emitted' \in Seq(Candle)
BY DEF Aggregate

-----------------------------------------------------------------------------
(* Subscriptions *)

Subscription == [screen : Nat, codes : SUBSET Code]

\* Every subscription has a screen of its own, below the next one.
ScreensOwn ==
  /\ screen \in Nat /\ tracked \in Seq(Subscription)
  /\ \A r, s \in Restored(tracked) : r.screen = s.screen => r = s
  /\ \A r \in Restored(tracked) : r \in Subscription /\ r.screen < screen

\* What is tracked is what every login wanted, and the server has it while
\* the connection lasts.
TrackedIsWanted ==
  /\ wanted = UNION {r.codes : r \in Restored(tracked)}
  /\ registered = IF connected THEN Restored(tracked) ELSE {}

\* The fields that the subscriptions do not appear in.
FieldsOK ==
  /\ source \in {"live", "replay", "ended"} /\ connected \in BOOLEAN
  /\ watchlist \subseteq Code
  /\ minute \in Nat
  /\ building \in [Code -> Candle \cup {NoCandle}]
  /\ emitted \in Seq(Candle) /\ ticks \in Seq(Tick)

IInv == FieldsOK /\ ScreensOwn /\ TrackedIsWanted

\* One subscription more.
LEMMA TrackOne ==
  ASSUME tracked \in Seq(Subscription), NEW sub \in Subscription, tracked' = Append(tracked, sub)
  PROVE  tracked' \in Seq(Subscription) /\ Restored(tracked)' = Restored(tracked) \cup {sub}
<1>1. /\ Len(tracked) \in Nat /\ DOMAIN tracked = 1 .. Len(tracked)
      /\ tracked' \in Seq(Subscription) /\ DOMAIN tracked' = 1 .. Len(tracked) + 1
      /\ \A k \in DOMAIN tracked : tracked'[k] = tracked[k]
      /\ tracked'[Len(tracked) + 1] = sub
  OBVIOUS
<1>2. DOMAIN tracked' = DOMAIN tracked \cup {Len(tracked) + 1}
  BY <1>1
<1> QED
  BY <1>1, <1>2 DEF Restored

LEMMA InitIInv == Init => IInv
<1> SUFFICES ASSUME Init PROVE IInv
  OBVIOUS
<1>1. Restored(tracked) = {} /\ tracked \in Seq(Subscription)
  BY DEF Init, RealDataInit, Restored
<1>2. FieldsOK
  <2>1. building \in [Code -> Candle \cup {NoCandle}]
    BY DEF Init
  <2>2. emitted = <<>> /\ ticks = <<>> /\ minute = 0 /\ connected = FALSE
        /\ source \in {"live", "replay"} /\ watchlist \subseteq Code
    BY DEF Init
  <2>3. emitted \in Seq(Candle) /\ ticks \in Seq(Tick)
    BY <2>2
  <2>4. connected \in BOOLEAN
    BY <2>2
  <2> QED
    BY <2>1, <2>2, <2>3, <2>4 DEF FieldsOK
<1>3. ScreensOwn
  BY <1>1 DEF Init, RealDataInit, ScreensOwn
<1>4. TrackedIsWanted
  BY <1>1 DEF Init, RealDataInit, TrackedIsWanted
<1> QED
  BY <1>2, <1>3, <1>4 DEF IInv

\* A login subscribes the watch list of now on top of what it restores.
LEMMA LoginKeeps == IInv /\ Login => IInv'
<1> SUFFICES ASSUME IInv, Login PROVE IInv'
  OBVIOUS
<1>1. FieldsOK'
  BY DEF Login, IInv, FieldsOK
<1>2. CASE watchlist = {}
  <2>1. UNCHANGED <<tracked, screen>> /\ registered' = Restored(tracked) /\ connected' = TRUE
        /\ wanted' = wanted
    BY <1>2 DEF Login
  <2>2. Restored(tracked)' = Restored(tracked)
    BY <2>1 DEF Restored
  <2> QED
    BY <1>1, <2>1, <2>2 DEF IInv, ScreensOwn, TrackedIsWanted
<1>3. CASE watchlist # {}
  <2> DEFINE sub == [screen |-> screen, codes |-> watchlist]
  <2>1. /\ tracked' = Append(tracked, sub) /\ registered' = Restored(tracked) \cup {sub}
        /\ screen' = screen + 1 /\ connected' = TRUE /\ wanted' = wanted \cup watchlist
    BY <1>3 DEF Login, Subscribe, Track, NextScreenNo
  <2>2. sub \in Subscription /\ tracked \in Seq(Subscription) /\ screen \in Nat
    BY DEF Subscription, IInv, FieldsOK, ScreensOwn
  <2>3. tracked' \in Seq(Subscription) /\ Restored(tracked)' = Restored(tracked) \cup {sub}
    BY <2>1, <2>2, TrackOne
  <2>4. sub.screen = screen /\ sub.codes = watchlist
    OBVIOUS
  <2> HIDE DEF sub
  <2>5. ScreensOwn'
    <3>1. \A r \in Restored(tracked) : r \in Subscription /\ r.screen < screen /\ r.screen \in Nat
      BY DEF IInv, ScreensOwn, Subscription
    <3>2. \A r, s \in Restored(tracked) : r.screen = s.screen => r = s
      BY DEF IInv, ScreensOwn
    <3>3. ASSUME NEW r \in Restored(tracked)', NEW s \in Restored(tracked)', r.screen = s.screen
          PROVE  r = s
      BY <2>2, <2>3, <2>4, <3>1, <3>2, <3>3
    <3>4. \A r \in Restored(tracked)' : r \in Subscription /\ r.screen < screen'
      BY <2>1, <2>2, <2>3, <2>4, <3>1
    <3> QED
      BY <2>1, <2>2, <2>3, <3>3, <3>4 DEF ScreensOwn
  <2>6. TrackedIsWanted'
    <3>1. UNION {r.codes : r \in Restored(tracked) \cup {sub}} =
            (UNION {r.codes : r \in Restored(tracked)}) \cup watchlist
      BY <2>4
    <3> QED
      BY <2>1, <2>3, <3>1 DEF TrackedIsWanted, IInv
  <2> QED
    BY <1>1, <2>5, <2>6 DEF IInv
<1> QED
  BY <1>2, <1>3

\* What leaves the subscriptions alone keeps their invariant.
LEMMA SubscriptionsStay ==
  ASSUME IInv, UNCHANGED <<realDataVars, connected, wanted>>
  PROVE  ScreensOwn' /\ TrackedIsWanted'
<1>1. Restored(tracked)' = Restored(tracked)
  BY DEF realDataVars, Restored
<1> QED
  BY <1>1 DEF IInv, ScreensOwn, TrackedIsWanted, realDataVars

LEMMA NextIInv == IInv /\ [Next]_vars => IInv'
<1> SUFFICES ASSUME IInv, [Next]_vars PROVE IInv'
  OBVIOUS
<1>1. CASE Disconnect
  <2>1. FieldsOK'
    BY <1>1 DEF Disconnect, IInv, FieldsOK
  <2>2. Restored(tracked)' = Restored(tracked)
    BY <1>1 DEF Disconnect, Restored
  <2> QED
    BY <1>1, <2>1, <2>2 DEF Disconnect, IInv, ScreensOwn, TrackedIsWanted
<1>2. CASE EditWatchlist
  <2>1. FieldsOK'
    BY <1>2 DEF EditWatchlist, IInv, FieldsOK
  <2> QED
    BY <1>2, <2>1, SubscriptionsStay DEF EditWatchlist, IInv
<1>3. CASE NextMinute
  <2>1. FieldsOK'
    BY <1>3 DEF NextMinute, IInv, FieldsOK
  <2> QED
    BY <1>3, <2>1, SubscriptionsStay DEF NextMinute, IInv
<1>4. CASE RealDataEvent
  <2>1. PICK c \in Streamed, t \in Trades :
          LET tick == [code |-> c, price |-> t.price, volume |-> t.volume, time |-> minute]
          IN Aggregate(OnTick(building, Extracted(tick))) /\ ticks' = Append(ticks, tick)
    BY <1>4 DEF RealDataEvent
  <2> DEFINE tick == [code |-> c, price |-> t.price, volume |-> t.volume, time |-> minute]
  <2>2. c \in Code
    BY DEF Streamed, IInv, TrackedIsWanted, ScreensOwn, Subscription
  <2>3. tick \in Tick /\ Extracted(tick) \in Tick
    BY <2>2, FeedAssumption DEF Tick, Extracted, IInv, FieldsOK
  <2> HIDE DEF tick
  <2>4. Aggregate(OnTick(building, Extracted(tick))) /\ ticks' = Append(ticks, tick)
    BY <2>1 DEF tick
  <2>5. building' \in [Code -> Candle \cup {NoCandle}] /\ emitted' \in Seq(Candle)
    BY <2>3, <2>4, OnTickType, AggregateType DEF IInv, FieldsOK
  <2>6. FieldsOK'
    BY <1>4, <2>3, <2>4, <2>5 DEF RealDataEvent, IInv, FieldsOK
  <2> QED
    BY <1>4, <2>6, SubscriptionsStay DEF RealDataEvent, IInv
<1>5. CASE ReplayTick
  <2>1. PICK c \in Code, t \in Trades, time \in 0 .. MaxMinute \cup {NoTime} :
          LET tick == [code |-> c, price |-> t.price, volume |-> t.volume, time |-> time]
          IN Aggregate(OnTick(building, tick)) /\ ticks' = Append(ticks, tick)
    BY <1>5 DEF ReplayTick
  <2> DEFINE tick == [code |-> c, price |-> t.price, volume |-> t.volume, time |-> time]
  <2>3. tick \in Tick
    BY FeedAssumption DEF Tick
  <2> HIDE DEF tick
  <2>4. Aggregate(OnTick(building, tick)) /\ ticks' = Append(ticks, tick)
    BY <2>1 DEF tick
  <2>5. building' \in [Code -> Candle \cup {NoCandle}] /\ emitted' \in Seq(Candle)
    BY <2>3, <2>4, OnTickType, AggregateType DEF IInv, FieldsOK
  <2>6. FieldsOK'
    BY <1>5, <2>3, <2>4, <2>5 DEF ReplayTick, IInv, FieldsOK
  <2> QED
    BY <1>5, <2>6, SubscriptionsStay DEF ReplayTick, IInv
<1>6. CASE ReplayEnds
  <2>1. PICK codes \in SetToSeqs({c \in Code : building[c] # NoCandle}) :
          Aggregate(Flush(building, codes))
    BY <1>6 DEF ReplayEnds
  <2>2. building' \in [Code -> Candle \cup {NoCandle}] /\ emitted' \in Seq(Candle)
    <3>1. [c \in Code |-> NoCandle] \in [Code -> Candle \cup {NoCandle}]
      OBVIOUS
    <3> QED
      BY <2>1, <3>1, FlushType, AggregateType DEF IInv, FieldsOK
  <2>3. FieldsOK'
    BY <1>6, <2>2 DEF ReplayEnds, IInv, FieldsOK
  <2> QED
    BY <1>6, <2>3, SubscriptionsStay DEF ReplayEnds, IInv
<1>7. CASE UNCHANGED vars
  <2>1. FieldsOK'
    BY <1>7 DEF vars, feedVars, IInv, FieldsOK
  <2> QED
    BY <1>7, <2>1, SubscriptionsStay DEF vars, feedVars, IInv
<1> QED
  BY <1>1, <1>2, <1>3, <1>4, <1>5, <1>6, <1>7, LoginKeeps DEF Next

\* No field leaves its type, no sign of the feed reaches a candle, and no
\* screen carries two subscriptions.
THEOREM FeedTypes == Spec => []TypeOK
<1>1. IInv => TypeOK
  BY DEF IInv, FieldsOK, ScreensOwn, TrackedIsWanted, Subscription, TypeOK
<1> QED
  BY <1>1, InitIInv, NextIInv, PTL DEF Spec

\* After a login every stock of any login's watch list is streamed again,
\* for any number of logins, losses and changes of the watch list.
THEOREM LoginsRestore == Spec => []StreamsRestored
<1>1. IInv => StreamsRestored
  BY DEF IInv, TrackedIsWanted, StreamsRestored, Streamed
<1> QED
  BY <1>1, InitIInv, NextIInv, PTL DEF Spec

-----------------------------------------------------------------------------
(* Runs of ticks *)

\* The candles given are those of the runs from start[e] on.
GivenRuns(start, given, seq, c) ==
  /\ InOrder(start)
  /\ \A e \in OfCode(given, c) : IsCandleOf(given[e], seq, Run(seq, c, start[e]), start[e])

\* While a candle of code c is being built it is that of the last run, which
\* has every priced tick since its start.
BuildingRun(given, candle, seq, c) ==
  \E start \in [OfCode(given, c) -> RunStarts(seq, c)], last \in RunStarts(seq, c) :
    /\ GivenRuns(start, given, seq, c)
    /\ IsCandleOf(candle, seq, Run(seq, c, last), last)
    /\ \A e \in OfCode(given, c) : start[e] < last
    /\ \A k \in RunStarts(seq, c) : k = last \/ \E e \in OfCode(given, c) : start[e] = k
    /\ \A k \in PricedOf(seq, c) : last <= k => SameSlot(seq, k, last)

\* The candles of a code: none before its first priced tick; then always one
\* being built, until the replay's end completes it.
CandleInv(c) ==
  IF building[c] # NoCandle
  THEN source # "ended" /\ building[c].code = c /\ BuildingRun(emitted, building[c], Handed, c)
  ELSE IF source = "ended" THEN AreCandlesOf(emitted, Handed, c)
  ELSE PricedOf(Handed, c) = {} /\ OfCode(emitted, c) = {}

CInv ==
  /\ \A c \in Code : CandleInv(c)
  /\ source # "live" => connected = FALSE

LEMMA OneTick ==
  ASSUME NEW seq \in Seq(Tick), NEW tick \in Tick
  PROVE  /\ Append(seq, tick) \in Seq(Tick)
         /\ Len(seq) \in Nat /\ DOMAIN seq = 1 .. Len(seq) /\ Len(seq) + 1 \notin DOMAIN seq
         /\ DOMAIN Append(seq, tick) = DOMAIN seq \cup {Len(seq) + 1}
         /\ \A k \in DOMAIN seq : k \in Nat /\ k < Len(seq) + 1 /\ Append(seq, tick)[k] = seq[k]
         /\ Append(seq, tick)[Len(seq) + 1] = tick
<1>1. /\ Append(seq, tick) \in Seq(Tick)
      /\ Len(seq) \in Nat /\ DOMAIN seq = 1 .. Len(seq)
      /\ DOMAIN Append(seq, tick) = 1 .. Len(seq) + 1
      /\ \A k \in DOMAIN seq : Append(seq, tick)[k] = seq[k]
      /\ Append(seq, tick)[Len(seq) + 1] = tick
  OBVIOUS
<1> QED
  BY <1>1

\* The fields of a tick at its position.
LEMMA TickFields ==
  ASSUME NEW seq \in Seq(Tick), NEW k \in DOMAIN seq
  PROVE  /\ Absolute(seq[k].volume) \in Nat /\ Price(seq, k) \in Nat
         /\ Slot(seq[k].time) \in Int /\ seq[k].price \in Int
<1>1. seq[k] \in Tick
  OBVIOUS
<1>2. seq[k].price \in Int /\ seq[k].volume \in Int /\ seq[k].time \in Nat \cup {NoTime}
  BY <1>1 DEF Tick
<1> QED
  BY <1>2, AbsoluteType, SlotType DEF Price

LEMMA RunsAreTicks ==
  ASSUME NEW seq \in Seq(Tick), NEW c
  PROVE  /\ RunStarts(seq, c) \subseteq PricedOf(seq, c)
         /\ PricedOf(seq, c) \subseteq DOMAIN seq
         /\ DOMAIN seq \subseteq Nat
         /\ \A k : Run(seq, c, k) \subseteq PricedOf(seq, c)
BY DEF RunStarts, PricedOf, Run

\* A tick that comes later changes no volume of the earlier ones.
LEMMA TradedStays ==
  ASSUME NEW seq \in Seq(Tick), NEW tick \in Tick, NEW run \in SUBSET DOMAIN seq
  PROVE  /\ Traded(Append(seq, tick), run) = Traded(seq, run)
         /\ Traded(seq, run) \in Int
         /\ Traded(Append(seq, tick), run \cup {Len(seq) + 1}) =
              Traded(seq, run) + Absolute(tick.volume)
<1> DEFINE new == Append(seq, tick)
           n   == Len(seq) + 1
           f   == [k \in DOMAIN seq |-> Absolute(seq[k].volume)]
           g   == [k \in DOMAIN new |-> Absolute(new[k].volume)]
<1>1. /\ new \in Seq(Tick) /\ DOMAIN new = DOMAIN seq \cup {n} /\ n \notin DOMAIN seq /\ new[n] = tick
      /\ \A k \in DOMAIN seq : new[k] = seq[k]
  BY OneTick
<1>2. IsFiniteSet(run)
  <2>1. IsFiniteSet(1 .. Len(seq))
    BY FS_Interval
  <2> QED
    BY <2>1, FS_Subset
<1>3. Traded(seq, run) = SumFunctionOnSet(f, run) /\ Traded(new, run) = SumFunctionOnSet(g, run)
      /\ Traded(new, run \cup {n}) = SumFunctionOnSet(g, run \cup {n})
  BY DEF Traded
<1>4. \A k \in DOMAIN new : Absolute(new[k].volume) \in Nat
  BY <1>1, TickFields
<1>5. \A k \in DOMAIN seq : Absolute(seq[k].volume) \in Nat
  BY TickFields
<1> HIDE DEF new, n
<1>6. Numbers(f, run) /\ Numbers(g, run) /\ Agree(f, g, run) /\ Agree(g, f, run)
      /\ g[n] = Absolute(tick.volume) /\ g[n] \in Int
  BY <1>1, <1>4, <1>5 DEF Numbers, Agree
<1> HIDE DEF f, g
<1>7. SumFunctionOnSet(g, run) = SumFunctionOnSet(f, run)
  BY <1>2, <1>6, SumSame
<1>8. SumFunctionOnSet(f, run) \in Int
  BY <1>2, <1>6, SumType
<1>9. n \notin run
  BY <1>1
<1>10. SumFunctionOnSet(g, run \cup {n}) = g[n] + SumFunctionOnSet(g, run)
  BY <1>2, <1>6, <1>9, SumAdd
<1>11. Absolute(tick.volume) \in Int
  BY <1>6
<1>12. SumFunctionOnSet(g, run \cup {n}) = SumFunctionOnSet(f, run) + Absolute(tick.volume)
  BY <1>6, <1>7, <1>8, <1>10, <1>11
<1> QED
  BY <1>3, <1>7, <1>8, <1>12 DEF new, n

\* Nor the candle of a run.
LEMMA CandleStays ==
  ASSUME NEW seq \in Seq(Tick), NEW tick \in Tick, NEW run \in SUBSET DOMAIN seq,
         NEW start \in DOMAIN seq, NEW candle, IsCandleOf(candle, seq, run, start)
  PROVE  IsCandleOf(candle, Append(seq, tick), run, start)
<1> DEFINE new == Append(seq, tick)
<1>1. \A k \in DOMAIN seq : new[k] = seq[k]
  BY OneTick
<1>2. Traded(new, run) = Traded(seq, run)
  BY TradedStays
<1>3. \A k \in DOMAIN seq : Price(new, k) = Price(seq, k) /\ Slot(new[k].time) = Slot(seq[k].time)
  BY <1>1 DEF Price
<1> HIDE DEF new
<1>4. \A k \in run : Price(new, k) = Price(seq, k)
  BY <1>3
<1>5. IsCandleOf(candle, new, run, start)
  BY <1>2, <1>3, <1>4 DEF IsCandleOf
<1> QED
  BY <1>5 DEF new

\* A tick without a price or of another stock changes no run.
LEMMA OtherTick ==
  ASSUME NEW seq \in Seq(Tick), NEW tick \in Tick, NEW c,
         tick.code # c \/ tick.price = 0
  PROVE  /\ PricedOf(Append(seq, tick), c) = PricedOf(seq, c)
         /\ RunStarts(Append(seq, tick), c) = RunStarts(seq, c)
         /\ \A k \in DOMAIN seq : Run(Append(seq, tick), c, k) = Run(seq, c, k)
         /\ \A j, k \in DOMAIN seq : SameSlot(Append(seq, tick), j, k) = SameSlot(seq, j, k)
<1> DEFINE new == Append(seq, tick)
<1>1. /\ DOMAIN new = DOMAIN seq \cup {Len(seq) + 1} /\ new[Len(seq) + 1] = tick
      /\ \A k \in DOMAIN seq : new[k] = seq[k]
  BY OneTick
<1> HIDE DEF new
<1>2. PricedOf(new, c) = PricedOf(seq, c)
  BY <1>1 DEF PricedOf
<1>3. \A j, k \in DOMAIN seq : SameSlot(new, j, k) = SameSlot(seq, j, k)
  BY <1>1 DEF SameSlot
<1>4. PricedOf(seq, c) \subseteq DOMAIN seq
  BY DEF PricedOf
<1>5. RunStarts(new, c) = RunStarts(seq, c)
  BY <1>2, <1>3, <1>4 DEF RunStarts
<1>6. \A k \in DOMAIN seq : Run(new, c, k) = Run(seq, c, k)
  BY <1>2, <1>3, <1>4 DEF Run
<1> QED
  BY <1>2, <1>3, <1>5, <1>6 DEF new

\* So the candles of a stock stay what they are with such a tick, and when
\* candles of other stocks are given.
SameGiven(given, more, c) ==
  OfCode(more, c) = OfCode(given, c) /\ \A e \in OfCode(given, c) : more[e] = given[e]

LEMMA BuildingStays ==
  ASSUME NEW seq \in Seq(Tick), NEW tick \in Tick, NEW c,
         tick.code # c \/ tick.price = 0,
         NEW given, NEW more, SameGiven(given, more, c),
         NEW candle, BuildingRun(given, candle, seq, c)
  PROVE  BuildingRun(more, candle, Append(seq, tick), c)
<1> DEFINE new == Append(seq, tick)
<1>1. PICK start \in [OfCode(given, c) -> RunStarts(seq, c)], last \in RunStarts(seq, c) :
        /\ GivenRuns(start, given, seq, c)
        /\ IsCandleOf(candle, seq, Run(seq, c, last), last)
        /\ \A e \in OfCode(given, c) : start[e] < last
        /\ \A k \in RunStarts(seq, c) : k = last \/ \E e \in OfCode(given, c) : start[e] = k
        /\ \A k \in PricedOf(seq, c) : last <= k => SameSlot(seq, k, last)
  BY DEF BuildingRun
<1>2. /\ PricedOf(new, c) = PricedOf(seq, c) /\ RunStarts(new, c) = RunStarts(seq, c)
      /\ \A k \in DOMAIN seq : Run(new, c, k) = Run(seq, c, k)
      /\ \A j, k \in DOMAIN seq : SameSlot(new, j, k) = SameSlot(seq, j, k)
  BY OtherTick
<1>3. /\ RunStarts(seq, c) \subseteq DOMAIN seq /\ PricedOf(seq, c) \subseteq DOMAIN seq
      /\ \A k : Run(seq, c, k) \in SUBSET DOMAIN seq
  BY RunsAreTicks
<1>4. \A k \in RunStarts(seq, c) : \A x :
        IsCandleOf(x, seq, Run(seq, c, k), k) => IsCandleOf(x, new, Run(new, c, k), k)
  BY <1>2, <1>3, CandleStays
<1>5. OfCode(more, c) = OfCode(given, c) /\ \A e \in OfCode(given, c) : more[e] = given[e]
  BY DEF SameGiven
<1> HIDE DEF new
<1>6. GivenRuns(start, more, new, c)
  BY <1>1, <1>4, <1>5 DEF GivenRuns
<1>7. IsCandleOf(candle, new, Run(new, c, last), last)
  BY <1>1, <1>4
<1>8. \A k \in PricedOf(new, c) : last <= k => SameSlot(new, k, last)
  BY <1>1, <1>2, <1>3
<1>9. BuildingRun(more, candle, new, c)
  BY <1>1, <1>2, <1>5, <1>6, <1>7, <1>8 DEF BuildingRun
<1> QED
  BY <1>9 DEF new

\* The tick is a priced one of the stock.
Counts(tick, c) == tick.code = c /\ tick.price # 0

\* A stock's first priced tick begins its first run.
LEMMA FirstRun ==
  ASSUME NEW seq \in Seq(Tick), NEW tick \in Tick, NEW c, Counts(tick, c),
         NEW given, OfCode(given, c) = {}, PricedOf(seq, c) = {}
  PROVE  BuildingRun(given,
           NewCandle(c, Slot(tick.time), Absolute(tick.price), Absolute(tick.volume)),
           Append(seq, tick), c)
<1> DEFINE new == Append(seq, tick)
           n   == Len(seq) + 1
           b   == NewCandle(c, Slot(tick.time), Absolute(tick.price), Absolute(tick.volume))
<1>1. /\ DOMAIN new = DOMAIN seq \cup {n} /\ new[n] = tick /\ n \in Nat /\ new \in Seq(Tick)
      /\ \A k \in DOMAIN seq : new[k] = seq[k]
  BY OneTick
<1>2. Traded(new, {} \cup {n}) = Traded(seq, {}) + Absolute(tick.volume)
  BY TradedStays
<1>3. Traded(seq, {}) = 0
  BY SumEmpty DEF Traded
<1>4. Price(new, n) = Absolute(tick.price) /\ Absolute(tick.price) \in Nat /\ Absolute(tick.volume) \in Nat
  BY <1>1, AbsoluteType DEF Price, Tick
<1>5. Traded(new, {n}) = Absolute(tick.volume)
  BY <1>2, <1>3, <1>4
<1>6. /\ b.slot = Slot(tick.time) /\ b.open = Absolute(tick.price) /\ b.high = Absolute(tick.price)
      /\ b.low = Absolute(tick.price) /\ b.close = Absolute(tick.price)
      /\ b.volume = Absolute(tick.volume)
  BY DEF NewCandle
<1> HIDE DEF new, n, b
<1>7. PricedOf(new, c) = {n}
  BY <1>1 DEF PricedOf, Counts
<1>8. RunStarts(new, c) = {n}
  BY <1>1, <1>7 DEF RunStarts
<1>9. SameSlot(new, n, n)
  BY DEF SameSlot
<1>10. Run(new, c, n) = {n}
  BY <1>1, <1>7, <1>9 DEF Run
<1>11. IsCandleOf(b, new, {n}, n)
  BY <1>1, <1>4, <1>5, <1>6 DEF IsCandleOf
<1> DEFINE start == [e \in {} |-> n]
<1>12. start \in [OfCode(given, c) -> RunStarts(new, c)] /\ GivenRuns(start, given, new, c)
  BY DEF GivenRuns, InOrder
<1> HIDE DEF start
<1>13. /\ IsCandleOf(b, new, Run(new, c, n), n)
       /\ \A e \in OfCode(given, c) : start[e] < n
       /\ \A k \in RunStarts(new, c) : k = n \/ \E e \in OfCode(given, c) : start[e] = k
       /\ \A k \in PricedOf(new, c) : n <= k => SameSlot(new, k, n)
  BY <1>7, <1>8, <1>9, <1>10, <1>11
<1>14. n \in RunStarts(new, c)
  BY <1>8
<1>15. BuildingRun(given, b, new, c)
  BY <1>12, <1>13, <1>14 DEF BuildingRun
<1> QED
  BY <1>15 DEF new, b

\* A candle with one more tick is that of the run with one more tick.
LEMMA GrownCandle ==
  ASSUME NEW seq \in Seq(Tick), NEW tick \in Tick, NEW run \in SUBSET DOMAIN seq,
         NEW start \in run, NEW candle \in Candle, IsCandleOf(candle, seq, run, start)
  PROVE  IsCandleOf(Grown(candle, Absolute(tick.price), Absolute(tick.volume)),
           Append(seq, tick), run \cup {Len(seq) + 1}, start)
<1> DEFINE new  == Append(seq, tick)
           n    == Len(seq) + 1
           p    == Absolute(tick.price)
           v    == Absolute(tick.volume)
           next == Grown(candle, p, v)
<1>1. /\ n \in Nat /\ new[n] = tick /\ \A k \in DOMAIN seq : k \in Nat /\ k < n /\ new[k] = seq[k]
  BY OneTick
<1>2. p \in Nat /\ v \in Nat /\ Price(new, n) = p
  BY <1>1, AbsoluteType DEF Price, Tick
<1>3. \A k \in run : Price(new, k) = Price(seq, k) /\ Price(seq, k) \in Nat /\ k \in Nat /\ k < n
  BY <1>1, TickFields DEF Price
<1>4. Traded(new, run \cup {n}) = Traded(seq, run) + v
  BY TradedStays
<1>5. /\ candle.open \in Nat /\ candle.high \in Nat /\ candle.low \in Nat /\ candle.volume \in Nat
      /\ candle.slot = Slot(seq[start].time) /\ candle.open = Price(seq, start)
      /\ \E k \in run : candle.high = Price(seq, k)
      /\ \E k \in run : candle.low = Price(seq, k)
      /\ \A k \in run : candle.low <= Price(seq, k) /\ Price(seq, k) <= candle.high
      /\ candle.volume = Traded(seq, run)
  BY DEF IsCandleOf, Candle
<1>6. /\ next.slot = candle.slot /\ next.open = candle.open /\ next.close = p
      /\ next.high = (IF candle.high >= p THEN candle.high ELSE p)
      /\ next.low = (IF candle.low <= p THEN candle.low ELSE p)
      /\ next.volume = candle.volume + v
  BY DEF Grown, Candle, Larger, Smaller
<1>7. new[start] = seq[start]
  BY <1>1
<1> HIDE DEF new, n, p, v, next
<1> DEFINE more == run \cup {n}
<1>8. \E k \in more : next.high = Price(new, k)
  BY <1>2, <1>3, <1>5, <1>6
<1>9. \E k \in more : next.low = Price(new, k)
  BY <1>2, <1>3, <1>5, <1>6
<1>10. \A k \in more : next.low <= Price(new, k) /\ Price(new, k) <= next.high
  BY <1>2, <1>3, <1>5, <1>6
<1>11. \E k \in more : (\A j \in more : j <= k) /\ next.close = Price(new, k)
  BY <1>1, <1>2, <1>3, <1>6
<1>12. next.slot = Slot(new[start].time) /\ next.open = Price(new, start)
  BY <1>3, <1>5, <1>6, <1>7
<1>13. next.volume = Traded(new, more)
  BY <1>4, <1>5, <1>6
<1>14. IsCandleOf(next, new, more, start)
  BY <1>8, <1>9, <1>10, <1>11, <1>12, <1>13 DEF IsCandleOf
<1> QED
  BY <1>14 DEF new, n, p, v, next

\* A priced tick of the stock belongs to its last run or begins a run.
LastRun(last, seq, c) ==
  /\ last \in RunStarts(seq, c)
  /\ \A k \in PricedOf(seq, c) : last <= k => SameSlot(seq, k, last)

LEMMA OwnTick ==
  ASSUME NEW seq \in Seq(Tick), NEW tick \in Tick, NEW c, Counts(tick, c),
         NEW last, LastRun(last, seq, c)
  PROVE  /\ PricedOf(Append(seq, tick), c) = PricedOf(seq, c) \cup {Len(seq) + 1}
         /\ Slot(tick.time) = Slot(seq[last].time) =>
              /\ RunStarts(Append(seq, tick), c) = RunStarts(seq, c)
              /\ Run(Append(seq, tick), c, last) = Run(seq, c, last) \cup {Len(seq) + 1}
         /\ Slot(tick.time) # Slot(seq[last].time) =>
              /\ RunStarts(Append(seq, tick), c) = RunStarts(seq, c) \cup {Len(seq) + 1}
              /\ Run(Append(seq, tick), c, last) = Run(seq, c, last)
         /\ \A k \in RunStarts(seq, c) :
              k < last => Run(Append(seq, tick), c, k) = Run(seq, c, k)
         /\ Run(Append(seq, tick), c, Len(seq) + 1) = {Len(seq) + 1}
         /\ \A j, k \in DOMAIN seq : SameSlot(Append(seq, tick), j, k) = SameSlot(seq, j, k)
         /\ last \in Run(seq, c, last)
<1> DEFINE new == Append(seq, tick)
           n   == Len(seq) + 1
<1>1. /\ DOMAIN new = DOMAIN seq \cup {n} /\ new[n] = tick /\ n \in Nat /\ n \notin DOMAIN seq
      /\ \A k \in DOMAIN seq : k \in Nat /\ k < n /\ new[k] = seq[k]
  BY OneTick
<1> DEFINE old == PricedOf(seq, c)
           same == Slot(tick.time) = Slot(seq[last].time)
<1>2. /\ last \in old /\ old \subseteq DOMAIN seq /\ last \in RunStarts(seq, c)
      /\ RunStarts(seq, c) \subseteq old
      /\ \A k \in old : last <= k => SameSlot(seq, k, last)
  BY RunsAreTicks DEF LastRun
<1> HIDE DEF new, n
<1>3. PricedOf(new, c) = old \cup {n}
  BY <1>1 DEF PricedOf, Counts
<1> HIDE DEF old
<1>4. /\ \A j, k \in DOMAIN seq : SameSlot(new, j, k) = SameSlot(seq, j, k)
      /\ \A j \in DOMAIN seq : SameSlot(new, n, j) <=> Slot(tick.time) = Slot(seq[j].time)
      /\ \A j \in DOMAIN seq : SameSlot(new, j, n) <=> Slot(tick.time) = Slot(seq[j].time)
      /\ SameSlot(new, n, n)
  BY <1>1 DEF SameSlot
<1>5. SameSlot(new, n, last) <=> same
  BY <1>2, <1>4
<1> HIDE DEF same
<1>6. \A k \in old : k \in RunStarts(new, c) <=> k \in RunStarts(seq, c)
  BY <1>1, <1>2, <1>3, <1>4 DEF RunStarts, old
<1>7. n \in RunStarts(new, c) <=> ~same
  <2>1. n \in RunStarts(new, c) <=>
          \A j \in old : \E i \in old : j <= i /\ ~SameSlot(new, i, n)
    BY <1>1, <1>2, <1>3 DEF RunStarts
  <2>2. \A i \in old : last <= i => (SameSlot(new, i, n) <=> same)
    BY <1>2, <1>4 DEF SameSlot, same
  <2>3. ASSUME ~same, NEW j \in old PROVE \E i \in old : j <= i /\ ~SameSlot(new, i, n)
    <3>1. CASE last <= j
      BY <1>1, <1>2, <2>2, <2>3, <3>1
    <3>2. CASE j <= last
      BY <1>1, <1>2, <2>2, <2>3, <3>2
    <3> QED
      BY <1>1, <1>2, <3>1, <3>2
  <2> QED
    BY <1>2, <2>1, <2>2, <2>3
<1>8. RunStarts(new, c) = RunStarts(seq, c) \cup (IF same THEN {} ELSE {n})
  <2>1. RunStarts(new, c) \subseteq old \cup {n}
    BY <1>3 DEF RunStarts
  <2> QED
    BY <1>2, <1>6, <1>7, <2>1
<1>9. \A s, k \in old : k \in Run(new, c, s) <=> k \in Run(seq, c, s)
  BY <1>1, <1>2, <1>3, <1>4 DEF Run, old
<1>10. \A s \in RunStarts(seq, c) : s < last => n \notin Run(new, c, s)
  <2> SUFFICES ASSUME NEW s \in RunStarts(seq, c), s < last, n \in Run(new, c, s) PROVE FALSE
    OBVIOUS
  <2>1. PICK i \in old : s <= i /\ i < last /\ ~SameSlot(seq, i, last)
    BY <1>2 DEF RunStarts, old
  <2>2. \A k \in old : s <= k => SameSlot(new, k, s)
    BY <1>1, <1>2, <1>3 DEF Run
  <2>3. SameSlot(new, i, s) /\ SameSlot(new, last, s)
    BY <1>1, <1>2, <2>1, <2>2
  <2> QED
    BY <1>1, <1>2, <2>1, <2>3 DEF SameSlot
<1>11. n \in Run(new, c, last) <=> same
  BY <1>1, <1>2, <1>3, <1>4, <1>5 DEF Run
<1>12. \A s : Run(new, c, s) \subseteq old \cup {n} /\ Run(seq, c, s) \subseteq old
  BY <1>3 DEF Run, old
<1>13. \A s \in RunStarts(seq, c) : s < last => Run(new, c, s) = Run(seq, c, s)
  <2> SUFFICES ASSUME NEW s \in RunStarts(seq, c), s < last
               PROVE  Run(new, c, s) = Run(seq, c, s)
    OBVIOUS
  <2>1. s \in old /\ n \notin Run(new, c, s)
    BY <1>2, <1>10
  <2>2. Run(new, c, s) \subseteq old \cup {n} /\ Run(seq, c, s) \subseteq old
    BY <1>12
  <2>3. \A k \in old : k \in Run(new, c, s) <=> k \in Run(seq, c, s)
    BY <1>9, <2>1
  <2> QED
    BY <2>1, <2>2, <2>3
<1>14. Run(new, c, last) = Run(seq, c, last) \cup (IF same THEN {n} ELSE {})
  BY <1>1, <1>2, <1>9, <1>11, <1>12
<1>15. Run(new, c, n) = {n}
  BY <1>1, <1>2, <1>3, <1>4 DEF Run
<1>16. last \in Run(seq, c, last)
  BY <1>1, <1>2 DEF Run, old
<1>17. same => RunStarts(new, c) = RunStarts(seq, c) /\ Run(new, c, last) = Run(seq, c, last) \cup {n}
  BY <1>8, <1>14
<1>18. ~same => RunStarts(new, c) = RunStarts(seq, c) \cup {n} /\ Run(new, c, last) = Run(seq, c, last)
  BY <1>8, <1>14
<1> QED
  BY <1>3, <1>4, <1>13, <1>15, <1>16, <1>17, <1>18 DEF new, n, old, same

\* A tick of the same slot grows the candle.
LEMMA SameRun ==
  ASSUME NEW seq \in Seq(Tick), NEW tick \in Tick, NEW c, Counts(tick, c),
         NEW given, NEW candle \in Candle, BuildingRun(given, candle, seq, c),
         candle.slot = Slot(tick.time)
  PROVE  BuildingRun(given, Grown(candle, Absolute(tick.price), Absolute(tick.volume)),
                     Append(seq, tick), c)
<1> DEFINE new  == Append(seq, tick)
           n    == Len(seq) + 1
           next == Grown(candle, Absolute(tick.price), Absolute(tick.volume))
<1>1. PICK start \in [OfCode(given, c) -> RunStarts(seq, c)], last \in RunStarts(seq, c) :
        /\ GivenRuns(start, given, seq, c)
        /\ IsCandleOf(candle, seq, Run(seq, c, last), last)
        /\ \A e \in OfCode(given, c) : start[e] < last
        /\ \A k \in RunStarts(seq, c) : k = last \/ \E e \in OfCode(given, c) : start[e] = k
        /\ \A k \in PricedOf(seq, c) : last <= k => SameSlot(seq, k, last)
  BY DEF BuildingRun
<1>2. LastRun(last, seq, c) /\ Slot(tick.time) = Slot(seq[last].time)
  BY <1>1 DEF LastRun, IsCandleOf
<1>3. /\ PricedOf(new, c) = PricedOf(seq, c) \cup {n}
      /\ RunStarts(new, c) = RunStarts(seq, c)
      /\ \A k \in RunStarts(seq, c) : k < last => Run(new, c, k) = Run(seq, c, k)
      /\ Run(new, c, last) = Run(seq, c, last) \cup {n}
      /\ \A j, k \in DOMAIN seq : SameSlot(new, j, k) = SameSlot(seq, j, k)
      /\ last \in Run(seq, c, last)
  BY <1>2, OwnTick
<1>4. /\ RunStarts(seq, c) \subseteq DOMAIN seq /\ PricedOf(seq, c) \subseteq DOMAIN seq
      /\ \A k : Run(seq, c, k) \in SUBSET DOMAIN seq
  BY RunsAreTicks
<1>5. IsCandleOf(next, new, Run(new, c, last), last)
  <2>1. Run(seq, c, last) \in SUBSET DOMAIN seq /\ last \in Run(seq, c, last)
    BY <1>3, <1>4
  <2>2. IsCandleOf(candle, seq, Run(seq, c, last), last)
    BY <1>1
  <2>3. IsCandleOf(next, new, Run(seq, c, last) \cup {n}, last)
    BY <2>1, <2>2, GrownCandle
  <2> QED
    BY <1>3, <2>3
<1>6. \A k \in RunStarts(seq, c) : \A x :
        k < last /\ IsCandleOf(x, seq, Run(seq, c, k), k) => IsCandleOf(x, new, Run(new, c, k), k)
  BY <1>3, <1>4, CandleStays
<1>7. new[n] = tick /\ \A k \in DOMAIN seq : new[k] = seq[k]
  BY OneTick
<1> HIDE DEF new, n, next
<1>8. GivenRuns(start, given, new, c)
  BY <1>1, <1>6 DEF GivenRuns
<1>9. SameSlot(new, n, last)
  BY <1>2, <1>4, <1>7 DEF SameSlot
<1>10. \A k \in PricedOf(new, c) : last <= k => SameSlot(new, k, last)
  BY <1>1, <1>3, <1>4, <1>9
<1>11. start \in [OfCode(given, c) -> RunStarts(new, c)] /\ last \in RunStarts(new, c)
  BY <1>3
<1>12. \A k \in RunStarts(new, c) : k = last \/ \E e \in OfCode(given, c) : start[e] = k
  BY <1>1, <1>3
<1>13. BuildingRun(given, next, new, c)
  BY <1>1, <1>5, <1>8, <1>10, <1>11, <1>12 DEF BuildingRun
<1> QED
  BY <1>13 DEF new, next

\* The candle being built is given after those given before.
OneGiven(given, more, candle, at, c) ==
  /\ OfCode(more, c) = OfCode(given, c) \cup {at}
  /\ at \in Nat /\ at \notin OfCode(given, c) /\ more[at] = candle
  /\ \A e \in OfCode(given, c) : e \in Nat /\ e < at /\ more[e] = given[e]

\* The starts of the runs of the candles given with one more.
OneMore(start, given, at, last, c) ==
  [e \in OfCode(given, c) \cup {at} |-> IF e = at THEN last ELSE start[e]]

LEMMA OneMoreRun ==
  ASSUME NEW seq, NEW c, NEW given, NEW more, NEW candle, NEW at,
         OneGiven(given, more, candle, at, c),
         NEW start \in [OfCode(given, c) -> RunStarts(seq, c)], NEW last \in RunStarts(seq, c),
         GivenRuns(start, given, seq, c),
         IsCandleOf(candle, seq, Run(seq, c, last), last),
         \A e \in OfCode(given, c) : start[e] < last
  PROVE  /\ OneMore(start, given, at, last, c) \in [OfCode(more, c) -> RunStarts(seq, c)]
         /\ GivenRuns(OneMore(start, given, at, last, c), more, seq, c)
         /\ OneMore(start, given, at, last, c)[at] = last
         /\ \A e \in OfCode(given, c) : OneMore(start, given, at, last, c)[e] = start[e]
<1> DEFINE now == OneMore(start, given, at, last, c)
<1>1. /\ OfCode(more, c) = OfCode(given, c) \cup {at}
      /\ at \in Nat /\ at \notin OfCode(given, c) /\ more[at] = candle
      /\ \A e \in OfCode(given, c) : e \in Nat /\ e < at /\ more[e] = given[e]
  BY DEF OneGiven
<1>2. /\ now \in [OfCode(more, c) -> RunStarts(seq, c)] /\ now[at] = last
      /\ \A e \in OfCode(given, c) : now[e] = start[e]
  BY <1>1 DEF OneMore
<1> HIDE DEF now
<1>3. DOMAIN now = OfCode(given, c) \cup {at} /\ DOMAIN start = OfCode(given, c)
  BY <1>1, <1>2
<1>4. InOrder(now)
  <2> SUFFICES ASSUME NEW d \in OfCode(given, c) \cup {at}, NEW e \in OfCode(given, c) \cup {at},
                      d < e
               PROVE  now[d] < now[e]
    BY <1>3 DEF InOrder
  <2>1. d # at
    BY <1>1
  <2>2. CASE e = at
    BY <1>2, <2>1, <2>2
  <2>3. CASE e # at
    BY <1>2, <1>3, <2>1, <2>3 DEF GivenRuns, InOrder
  <2> QED
    BY <2>2, <2>3
<1>5. \A e \in OfCode(more, c) : IsCandleOf(more[e], seq, Run(seq, c, now[e]), now[e])
  BY <1>1, <1>2 DEF GivenRuns
<1>6. GivenRuns(now, more, seq, c)
  BY <1>4, <1>5 DEF GivenRuns
<1> QED
  BY <1>2, <1>6 DEF now

\* So with it the candles given are those of all the runs.
LEMMA AllGiven ==
  ASSUME NEW seq, NEW c, NEW given, NEW more, NEW candle, NEW at,
         BuildingRun(given, candle, seq, c), OneGiven(given, more, candle, at, c)
  PROVE  AreCandlesOf(more, seq, c)
<1>1. PICK start \in [OfCode(given, c) -> RunStarts(seq, c)], last \in RunStarts(seq, c) :
        /\ GivenRuns(start, given, seq, c)
        /\ IsCandleOf(candle, seq, Run(seq, c, last), last)
        /\ \A e \in OfCode(given, c) : start[e] < last
        /\ \A k \in RunStarts(seq, c) : k = last \/ \E e \in OfCode(given, c) : start[e] = k
  BY DEF BuildingRun
<1> DEFINE now == OneMore(start, given, at, last, c)
<1>2. /\ now \in [OfCode(more, c) -> RunStarts(seq, c)] /\ GivenRuns(now, more, seq, c)
      /\ now[at] = last /\ \A e \in OfCode(given, c) : now[e] = start[e]
  BY <1>1, OneMoreRun
<1>3. OfCode(more, c) = OfCode(given, c) \cup {at}
  BY DEF OneGiven
<1> HIDE DEF now
<1>4. \A k \in RunStarts(seq, c) : \E e \in OfCode(more, c) : now[e] = k
  BY <1>1, <1>2, <1>3
<1> QED
  BY <1>2, <1>4 DEF AreCandlesOf, GivenRuns

\* A tick of another slot gives the candle and begins the next run.
LEMMA NextRun ==
  ASSUME NEW seq \in Seq(Tick), NEW tick \in Tick, NEW c, Counts(tick, c),
         NEW given, NEW more, NEW candle \in Candle, NEW at,
         BuildingRun(given, candle, seq, c), OneGiven(given, more, candle, at, c),
         candle.slot # Slot(tick.time)
  PROVE  BuildingRun(more,
           NewCandle(c, Slot(tick.time), Absolute(tick.price), Absolute(tick.volume)),
           Append(seq, tick), c)
<1> DEFINE new  == Append(seq, tick)
           n    == Len(seq) + 1
           next == NewCandle(c, Slot(tick.time), Absolute(tick.price), Absolute(tick.volume))
<1>1. PICK start \in [OfCode(given, c) -> RunStarts(seq, c)], last \in RunStarts(seq, c) :
        /\ GivenRuns(start, given, seq, c)
        /\ IsCandleOf(candle, seq, Run(seq, c, last), last)
        /\ \A e \in OfCode(given, c) : start[e] < last
        /\ \A k \in RunStarts(seq, c) : k = last \/ \E e \in OfCode(given, c) : start[e] = k
        /\ \A k \in PricedOf(seq, c) : last <= k => SameSlot(seq, k, last)
  BY DEF BuildingRun
<1>2. LastRun(last, seq, c) /\ Slot(tick.time) # Slot(seq[last].time)
  BY <1>1 DEF LastRun, IsCandleOf
<1>3. /\ PricedOf(new, c) = PricedOf(seq, c) \cup {n}
      /\ RunStarts(new, c) = RunStarts(seq, c) \cup {n}
      /\ \A k \in RunStarts(seq, c) : k < last => Run(new, c, k) = Run(seq, c, k)
      /\ Run(new, c, last) = Run(seq, c, last)
      /\ Run(new, c, n) = {n}
  BY <1>2, OwnTick
<1>4. /\ RunStarts(seq, c) \subseteq DOMAIN seq /\ PricedOf(seq, c) \subseteq DOMAIN seq
      /\ \A k : Run(seq, c, k) \in SUBSET DOMAIN seq
  BY RunsAreTicks
<1> DEFINE now == OneMore(start, given, at, last, c)
<1>5. /\ now \in [OfCode(more, c) -> RunStarts(seq, c)] /\ GivenRuns(now, more, seq, c)
      /\ now[at] = last /\ \A e \in OfCode(given, c) : now[e] = start[e]
  BY <1>1, OneMoreRun
<1>6. /\ new[n] = tick /\ new \in Seq(Tick) /\ n \in Nat
      /\ \A k \in DOMAIN seq : new[k] = seq[k] /\ k \in Nat /\ k < n
  BY OneTick
<1>7. OfCode(more, c) = OfCode(given, c) \cup {at}
  BY DEF OneGiven
<1>8. \A k \in RunStarts(seq, c) : \A x :
        (k = last \/ k < last) /\ IsCandleOf(x, seq, Run(seq, c, k), k)
          => IsCandleOf(x, new, Run(new, c, k), k)
  BY <1>3, <1>4, CandleStays
<1>9. \A e \in OfCode(more, c) : now[e] = last \/ now[e] < last
  BY <1>1, <1>5, <1>7
<1>10. Traded(new, {} \cup {n}) = Traded(seq, {}) + Absolute(tick.volume)
  BY TradedStays
<1>11. Traded(seq, {}) = 0
  BY SumEmpty DEF Traded
<1>12. Price(new, n) = Absolute(tick.price) /\ Absolute(tick.price) \in Nat
       /\ Absolute(tick.volume) \in Nat
  BY <1>6, AbsoluteType DEF Price, Tick
<1>13. Traded(new, {n}) = Absolute(tick.volume)
  BY <1>10, <1>11, <1>12
<1>14. /\ next.slot = Slot(tick.time) /\ next.open = Absolute(tick.price)
       /\ next.high = Absolute(tick.price) /\ next.low = Absolute(tick.price)
       /\ next.close = Absolute(tick.price) /\ next.volume = Absolute(tick.volume)
  BY DEF NewCandle
<1> HIDE DEF new, n, next, now
<1>15. GivenRuns(now, more, new, c)
  BY <1>5, <1>8, <1>9 DEF GivenRuns
<1>16. IsCandleOf(next, new, Run(new, c, n), n)
  BY <1>3, <1>6, <1>12, <1>13, <1>14 DEF IsCandleOf
<1>17. \A e \in OfCode(more, c) : now[e] < n
  BY <1>4, <1>5, <1>6
<1>18. \A k \in RunStarts(new, c) : k = n \/ \E e \in OfCode(more, c) : now[e] = k
  BY <1>1, <1>3, <1>5, <1>7
<1>19. \A k \in PricedOf(new, c) : n <= k => SameSlot(new, k, n)
  <2>1. SameSlot(new, n, n)
    BY DEF SameSlot
  <2> QED
    BY <1>3, <1>4, <1>6, <2>1
<1>20. now \in [OfCode(more, c) -> RunStarts(new, c)] /\ n \in RunStarts(new, c)
  BY <1>3, <1>5
<1>21. BuildingRun(more, next, new, c)
  BY <1>15, <1>16, <1>17, <1>18, <1>19, <1>20 DEF BuildingRun
<1> QED
  BY <1>21 DEF new, next

-----------------------------------------------------------------------------
(* Steps *)

\* A candle more among those given.
LEMMA GiveOne ==
  ASSUME NEW given \in Seq(Candle), NEW candle \in Candle
  PROVE  /\ OneGiven(given, Append(given, candle), candle, Len(given) + 1, candle.code)
         /\ \A c : c # candle.code => SameGiven(given, Append(given, candle), c)
         /\ given \o <<candle>> = Append(given, candle)
<1>1. /\ Len(given) \in Nat /\ DOMAIN given = 1 .. Len(given)
      /\ DOMAIN Append(given, candle) = 1 .. Len(given) + 1
      /\ \A e \in DOMAIN given : Append(given, candle)[e] = given[e]
      /\ Append(given, candle)[Len(given) + 1] = candle
      /\ given \o <<candle>> = Append(given, candle)
  OBVIOUS
<1> DEFINE more == Append(given, candle)
           at   == Len(given) + 1
<1>2. /\ DOMAIN more = DOMAIN given \cup {at} /\ at \in Nat /\ at \notin DOMAIN given
      /\ more[at] = candle /\ \A e \in DOMAIN given : e \in Nat /\ e < at /\ more[e] = given[e]
  BY <1>1
<1> HIDE DEF more, at
<1>3. OneGiven(given, more, candle, at, candle.code)
  BY <1>2 DEF OneGiven, OfCode
<1>4. \A c : c # candle.code => SameGiven(given, more, c)
  BY <1>2 DEF SameGiven, OfCode
<1> QED
  BY <1>1, <1>3, <1>4 DEF more, at

LEMMA GivenStay == ASSUME NEW given, NEW c PROVE SameGiven(given, given, c)
BY DEF SameGiven

\* on_tick keeps the candles of every stock those of its runs.
LEMMA TickKeeps ==
  ASSUME building \in [Code -> Candle \cup {NoCandle}], emitted \in Seq(Candle),
         NEW seq \in Seq(Tick), NEW tick \in Tick,
         seq = Handed, source # "ended", CInv,
         Aggregate(OnTick(building, tick)), Handed' = Append(Handed, tick), source' = source
  PROVE  \A c \in Code : CandleInv(c)'
<1> DEFINE p    == Absolute(tick.price)
           v    == Absolute(tick.volume)
           slot == Slot(tick.time)
           d    == tick.code
           old  == building[d]
           same == old # NoCandle /\ old.slot = slot
           next == IF same THEN Grown(old, p, v) ELSE NewCandle(d, slot, p, v)
           new  == Append(seq, tick)
<1>1. d \in Code /\ p \in Nat /\ v \in Nat /\ slot \in Int /\ (p = 0 <=> tick.price = 0)
  <2>1. tick.code \in Code /\ tick.price \in Int /\ tick.volume \in Int
        /\ tick.time \in Nat \cup {NoTime}
    BY DEF Tick
  <2>2. tick.price = 0 <=> Absolute(tick.price) = 0
    BY <2>1 DEF Absolute
  <2> QED
    BY <2>1, <2>2, AbsoluteType, SlotType
<1>2. Handed' = new /\ Handed = seq /\ source' = source
  OBVIOUS
<1>3. \A c \in Code :
        IF building[c] # NoCandle
        THEN building[c].code = c /\ BuildingRun(emitted, building[c], seq, c)
        ELSE PricedOf(seq, c) = {} /\ OfCode(emitted, c) = {}
  BY DEF CInv, CandleInv
<1>4. /\ p = 0 => building' = building /\ emitted' = emitted \o <<>>
      /\ p # 0 => /\ building' = [building EXCEPT ![d] = next]
                  /\ emitted' = emitted \o (IF same \/ old = NoCandle THEN <<>> ELSE <<old>>)
  BY DEF Aggregate, OnTick
<1>5. emitted \o <<>> = emitted
  OBVIOUS
\* A stock the tick is not of, or that it is no trade of.
<1>6. ASSUME NEW c \in Code, tick.code # c \/ tick.price = 0,
             building'[c] = building[c], SameGiven(emitted, emitted', c)
      PROVE  CandleInv(c)'
  <2>1. CASE building[c] # NoCandle
    <3>1. building[c].code = c /\ BuildingRun(emitted, building[c], seq, c)
      BY <1>3, <2>1
    <3>2. BuildingRun(emitted', building[c], Append(seq, tick), c)
      BY <1>6, <3>1, BuildingStays
    <3> QED
      BY <1>2, <1>6, <2>1, <3>1, <3>2 DEF CandleInv
  <2>2. CASE building[c] = NoCandle
    <3>1. PricedOf(seq, c) = {} /\ OfCode(emitted, c) = {}
      BY <1>3, <2>2
    <3>2. PricedOf(Append(seq, tick), c) = {} /\ OfCode(emitted', c) = {}
      BY <1>6, <3>1, OtherTick DEF SameGiven
    <3> QED
      BY <1>2, <1>6, <2>2, <3>2 DEF CandleInv
  <2> QED
    BY <2>1, <2>2
<1> SUFFICES ASSUME NEW c \in Code PROVE CandleInv(c)'
  OBVIOUS
<1>7. CASE p = 0
  BY <1>1, <1>4, <1>5, <1>6, <1>7, GivenStay
<1>8. CASE p # 0
  <2> HIDE DEF p, v, slot, d, old, same, next, new
  <2>0. Counts(tick, d)
    BY <1>1, <1>8 DEF Counts, d
  <2>1. next \in Candle /\ next # NoCandle /\ next.code = d
    <3>1. old # NoCandle => old \in Candle /\ old.code = d
      BY <1>1, <1>3 DEF old
    <3>2. same => Grown(old, p, v) \in Candle /\ Grown(old, p, v).code = old.code
      BY <1>1, <3>1, GrownType DEF same, Grown, Candle
    <3>3. NewCandle(d, slot, p, v) \in Candle /\ NewCandle(d, slot, p, v).code = d
      BY <1>1, NewCandleType DEF NewCandle
    <3> QED
      BY <3>1, <3>2, <3>3, NoCandleAssumption DEF next, same
  <2>2. building' = [building EXCEPT ![d] = next]
    BY <1>4, <1>8
  <2>3. building'[d] = next /\ \A k \in Code : k # d => building'[k] = building[k]
    BY <1>1, <2>2
  <2>4. CASE old = NoCandle
    <3>1. emitted' = emitted
      BY <1>4, <1>5, <1>8, <2>4
    <3>2. CASE c # d
      BY <1>6, <2>3, <3>1, <3>2, GivenStay DEF d
    <3>3. CASE c = d
      <4>1. PricedOf(seq, d) = {} /\ OfCode(emitted, d) = {}
        BY <1>1, <1>3, <2>4 DEF old
      <4>2. BuildingRun(emitted, NewCandle(d, Slot(tick.time), Absolute(tick.price), Absolute(tick.volume)),
                        Append(seq, tick), d)
        BY <2>0, <4>1, FirstRun
      <4>3. next = NewCandle(d, slot, p, v)
        BY <2>4 DEF next, same
      <4>4. BuildingRun(emitted', building'[d], Handed', d)
        BY <1>2, <2>3, <3>1, <4>2, <4>3 DEF slot, p, v, new
      <4> QED
        BY <1>2, <2>1, <2>3, <3>3, <4>4 DEF CandleInv
    <3> QED
      BY <3>2, <3>3
  <2>5. CASE same
    <3>1. emitted' = emitted
      BY <1>4, <1>5, <1>8, <2>5
    <3>2. CASE c # d
      BY <1>6, <2>3, <3>1, <3>2, GivenStay DEF d
    <3>3. CASE c = d
      <4>1. BuildingRun(emitted, old, seq, d) /\ old \in Candle /\ old.slot = Slot(tick.time)
        BY <1>1, <1>3, <2>5 DEF old, same, slot
      <4>2. BuildingRun(emitted, Grown(old, Absolute(tick.price), Absolute(tick.volume)),
                        Append(seq, tick), d)
        BY <2>0, <4>1, SameRun
      <4>3. next = Grown(old, p, v)
        BY <2>5 DEF next
      <4>4. BuildingRun(emitted', building'[d], Handed', d)
        BY <1>2, <2>3, <3>1, <4>2, <4>3 DEF p, v, new
      <4> QED
        BY <1>2, <2>1, <2>3, <3>3, <4>4 DEF CandleInv
    <3> QED
      BY <3>2, <3>3
  <2>6. CASE old # NoCandle /\ ~same
    <3>1. old \in Candle /\ old.code = d /\ BuildingRun(emitted, old, seq, d)
      BY <1>1, <1>3, <2>6 DEF old
    <3>2. emitted' = emitted \o <<old>>
      BY <1>4, <1>8, <2>6
    <3>3. /\ OneGiven(emitted, emitted', old, Len(emitted) + 1, d)
          /\ \A k : k # d => SameGiven(emitted, emitted', k)
      BY <3>1, <3>2, GiveOne
    <3>4. CASE c # d
      BY <1>6, <2>3, <3>3, <3>4 DEF d
    <3>5. CASE c = d
      <4>1. old.slot # Slot(tick.time)
        BY <2>6 DEF same, slot
      <4>2. BuildingRun(emitted', NewCandle(d, Slot(tick.time), Absolute(tick.price), Absolute(tick.volume)),
                        Append(seq, tick), d)
        BY <2>0, <3>1, <3>3, <4>1, NextRun
      <4>3. next = NewCandle(d, slot, p, v)
        BY <2>6 DEF next
      <4>4. BuildingRun(emitted', building'[d], Handed', d)
        BY <1>2, <2>3, <4>2, <4>3 DEF slot, p, v, new
      <4> QED
        BY <1>2, <2>1, <2>3, <3>5, <4>4 DEF CandleInv
    <3> QED
      BY <3>4, <3>5
  <2> QED
    BY <2>4, <2>5, <2>6
<1> QED
  BY <1>7, <1>8

\* The order in which the candles are flushed has every stock with one once.
LEMMA FlushOrder ==
  ASSUME NEW open, IsFiniteSet(open), NEW codes \in SetToSeqs(open)
  PROVE  /\ Cardinality(open) \in Nat /\ codes \in [1 .. Cardinality(open) -> open]
         /\ \A c \in open : \E k \in 1 .. Cardinality(open) : codes[k] = c
         /\ \A j, k \in 1 .. Cardinality(open) : codes[j] = codes[k] => j = k
<1> DEFINE n == Cardinality(open)
<1>1. codes \in [1 .. n -> open] /\ \A j, k \in 1 .. n : codes[j] = codes[k] => j = k
  BY DEF SetToSeqs
<1>2. n \in Nat
  BY FS_CardinalityType
<1>3. codes \in Injection(1 .. n, open)
  BY <1>1 DEF Injection, IsInjective
<1>4. Cardinality(1 .. n) = n
  BY <1>2, FS_Interval
<1>5. codes \in Surjection(1 .. n, open)
  BY <1>3, <1>4, FS_Injection
<1>6. \A c \in open : \E k \in 1 .. n : codes[k] = c
  BY <1>5 DEF Surjection
<1> QED
  BY <1>1, <1>2, <1>6

\* flush gives each stock its candle, the others none.
LEMMA FlushGives ==
  ASSUME building \in [Code -> Candle \cup {NoCandle}], NEW given \in Seq(Candle),
         \A c \in Code : building[c] # NoCandle => building[c].code = c,
         NEW codes \in SetToSeqs({c \in Code : building[c] # NoCandle}), NEW c \in Code
  PROVE  /\ building[c] = NoCandle => SameGiven(given, given \o Flush(building, codes).done, c)
         /\ building[c] # NoCandle =>
              \E at \in Nat : OneGiven(given, given \o Flush(building, codes).done, building[c], at, c)
<1> DEFINE open == {d \in Code : building[d] # NoCandle}
           m    == Cardinality(open)
           done == [k \in DOMAIN codes |-> building[codes[k]]]
           more == given \o done
<1>1. IsFiniteSet(open)
  BY CodeAssumption, FS_Subset
<1>2. /\ m \in Nat /\ codes \in [1 .. m -> open]
      /\ \A d \in open : \E k \in 1 .. m : codes[k] = d
      /\ \A j, k \in 1 .. m : codes[j] = codes[k] => j = k
  BY <1>1, FlushOrder
<1>3. \A d \in open : building[d] \in Candle /\ building[d].code = d /\ d \in Code
  OBVIOUS
<1>4. c \in open <=> building[c] # NoCandle
  OBVIOUS
<1>5. Flush(building, codes).done = done
  BY DEF Flush
<1> HIDE DEF open, m
<1>6. done \in [1 .. m -> Candle] /\ \A k \in 1 .. m : done[k] = building[codes[k]]
  BY <1>2, <1>3
<1>7. done \in Seq(Candle) /\ Len(done) = m
  BY <1>2, <1>6
<1> HIDE DEF done
<1>8. /\ Len(given) \in Nat /\ DOMAIN given = 1 .. Len(given)
      /\ DOMAIN more = 1 .. Len(given) + m
      /\ \A e \in DOMAIN given : more[e] = given[e]
      /\ \A k \in 1 .. m : more[Len(given) + k] = done[k]
  BY <1>2, <1>6, <1>7
<1> HIDE DEF more
<1>9. \A e \in DOMAIN more \ DOMAIN given :
        /\ e - Len(given) \in 1 .. m /\ e = Len(given) + (e - Len(given))
        /\ more[e] = done[e - Len(given)]
  BY <1>2, <1>8
<1>10. \A k \in 1 .. m : done[k].code = codes[k]
  BY <1>2, <1>3, <1>6
<1>11. \A e \in DOMAIN more \ DOMAIN given : more[e].code = codes[e - Len(given)]
  BY <1>9, <1>10
<1>12. DOMAIN given \subseteq DOMAIN more
  BY <1>2, <1>8
<1>13. CASE c \notin open
  <2>1. \A e \in DOMAIN more \ DOMAIN given : more[e].code # c
    BY <1>2, <1>9, <1>11, <1>13
  <2>2. OfCode(more, c) = OfCode(given, c)
    BY <1>8, <1>12, <2>1 DEF OfCode
  <2>3. SameGiven(given, more, c)
    BY <1>8, <2>2 DEF SameGiven, OfCode
  <2> QED
    BY <1>4, <1>5, <1>13, <2>3 DEF more
<1>14. CASE c \in open
  <2>1. PICK k \in 1 .. m : codes[k] = c
    BY <1>2, <1>14
  <2> DEFINE at == Len(given) + k
  <2>2. at \in Nat /\ at \in DOMAIN more /\ at \notin DOMAIN given /\ at - Len(given) = k
    BY <1>2, <1>8, <2>1
  <2>3. more[at] = building[c]
    BY <1>6, <1>8, <2>1
  <2>4. \A e \in DOMAIN given : e \in Nat /\ e < at /\ more[e] = given[e]
    BY <1>2, <1>8, <2>1
  <2> HIDE DEF at
  <2>5. \A e \in DOMAIN more \ DOMAIN given : more[e].code = c <=> e = at
    <3> SUFFICES ASSUME NEW e \in DOMAIN more \ DOMAIN given PROVE more[e].code = c <=> e = at
      OBVIOUS
    <3>1. more[e].code = codes[e - Len(given)] /\ e - Len(given) \in 1 .. m
          /\ e = Len(given) + (e - Len(given))
      BY <1>9, <1>11
    <3>2. more[e].code = c <=> e - Len(given) = k
      BY <1>2, <2>1, <3>1
    <3>3. e = at <=> e - Len(given) = k
      BY <2>2, <3>1 DEF at
    <3> QED
      BY <3>2, <3>3
  <2>6. OfCode(more, c) = OfCode(given, c) \cup {at}
    <3>1. \A e \in DOMAIN given : more[e].code = given[e].code
      BY <1>8
    <3> QED
      BY <1>12, <2>2, <2>5, <3>1 DEF OfCode
  <2>7. at \notin OfCode(given, c)
    BY <2>2 DEF OfCode
  <2>8. OneGiven(given, more, building[c], at, c)
    BY <2>2, <2>3, <2>4, <2>6, <2>7 DEF OneGiven, OfCode
  <2> QED
    BY <1>4, <1>5, <1>14, <2>2, <2>8 DEF more
<1> QED
  BY <1>13, <1>14

LEMMA NothingGiven ==
  ASSUME NEW given, NEW more, NEW seq, NEW c, SameGiven(given, more, c),
         PricedOf(seq, c) = {}, OfCode(given, c) = {}
  PROVE  AreCandlesOf(more, seq, c)
<1> DEFINE start == [e \in {} |-> 0]
<1>1. OfCode(more, c) = {} /\ RunStarts(seq, c) = {}
  BY DEF SameGiven, RunStarts
<1>2. start \in [OfCode(more, c) -> RunStarts(seq, c)] /\ InOrder(start)
  BY <1>1 DEF InOrder
<1> QED
  BY <1>1, <1>2 DEF AreCandlesOf

\* The end of a replay gives the candles being built.
LEMMA EndGives ==
  ASSUME building \in [Code -> Candle \cup {NoCandle}], emitted \in Seq(Candle),
         CInv, ReplayEnds
  PROVE  \A c \in Code : CandleInv(c)'
<1>1. PICK codes \in SetToSeqs({c \in Code : building[c] # NoCandle}) :
        Aggregate(Flush(building, codes))
  BY DEF ReplayEnds
<1>2. source = "replay" /\ source' = "ended" /\ UNCHANGED ticks
  BY DEF ReplayEnds
<1>3. Handed' = Handed
  BY <1>2 DEF Handed
<1>4. /\ building' = [c \in Code |-> NoCandle]
      /\ emitted' = emitted \o Flush(building, codes).done
  BY <1>1 DEF Aggregate, Flush
<1>5. \A c \in Code :
        IF building[c] # NoCandle
        THEN building[c].code = c /\ BuildingRun(emitted, building[c], Handed, c)
        ELSE PricedOf(Handed, c) = {} /\ OfCode(emitted, c) = {}
  BY <1>2 DEF CInv, CandleInv
<1> SUFFICES ASSUME NEW c \in Code PROVE CandleInv(c)'
  OBVIOUS
<1>6. AreCandlesOf(emitted', Handed', c)
  <2>1. CASE building[c] = NoCandle
    <3>1. SameGiven(emitted, emitted', c)
      BY <1>4, <1>5, <2>1, FlushGives
    <3> QED
      BY <1>3, <1>5, <2>1, <3>1, NothingGiven
  <2>2. CASE building[c] # NoCandle
    <3>1. PICK at \in Nat : OneGiven(emitted, emitted', building[c], at, c)
      BY <1>4, <1>5, <2>2, FlushGives
    <3>2. BuildingRun(emitted, building[c], Handed, c)
      BY <1>5, <2>2
    <3> QED
      BY <1>3, <3>1, <3>2, AllGiven
  <2> QED
    BY <2>1, <2>2
<1> QED
  BY <1>2, <1>4, <1>6 DEF CandleInv

LEMMA InitCInv == Init => CInv
<1>0. Init => connected = FALSE
  BY DEF Init
<1> SUFFICES ASSUME Init, NEW c \in Code PROVE CandleInv(c)
  BY <1>0 DEF CInv
<1>1. /\ building[c] = NoCandle /\ source # "ended" /\ ticks = <<>> /\ emitted = <<>>
  BY DEF Init
<1>2. DOMAIN Handed = {} /\ DOMAIN emitted = {}
  BY <1>1 DEF Handed
<1> QED
  BY <1>1, <1>2 DEF CandleInv, PricedOf, OfCode

\* What leaves the candles and the ticks alone.
LEMMA CandlesStay ==
  ASSUME CInv, UNCHANGED <<source, building, emitted, ticks>>
  PROVE  \A c \in Code : CandleInv(c)'
<1>1. Handed' = Handed
  BY DEF Handed
<1> QED
  BY <1>1 DEF CInv, CandleInv

LEMMA AppendIs ==
  ASSUME NEW seq \in Seq(Tick), NEW x \in Tick
  PROVE  Append(seq, x) =
           [k \in 1 .. Len(seq) + 1 |-> IF k = Len(seq) + 1 THEN x ELSE seq[k]]
<1> DEFINE more == Append(seq, x)
<1>1. more \in Seq(Tick) /\ Len(more) = Len(seq) + 1 /\ Len(seq) \in Nat
  OBVIOUS
<1>2. \A k \in 1 .. Len(seq) + 1 : more[k] = IF k = Len(seq) + 1 THEN x ELSE seq[k]
  OBVIOUS
<1> HIDE DEF more
<1>3. more \in [1 .. Len(seq) + 1 -> Tick]
  BY <1>1
<1>4. more = [k \in 1 .. Len(seq) + 1 |-> IF k = Len(seq) + 1 THEN x ELSE seq[k]]
  BY <1>2, <1>3
<1> QED
  BY <1>4 DEF more

LEMMA NextCInv == IInv /\ CInv /\ [Next]_vars => CInv'
<1> SUFFICES ASSUME IInv, CInv, [Next]_vars PROVE CInv'
  OBVIOUS
<1>0. /\ building \in [Code -> Candle \cup {NoCandle}] /\ emitted \in Seq(Candle)
      /\ ticks \in Seq(Tick) /\ (source # "live" => connected = FALSE)
  BY DEF IInv, FieldsOK, CInv
<1>1. CASE Login \/ Disconnect \/ EditWatchlist \/ NextMinute \/ UNCHANGED vars
  <2>1. UNCHANGED <<source, building, emitted, ticks>>
    BY <1>1 DEF Login, Disconnect, EditWatchlist, NextMinute, vars, feedVars
  <2>2. source' # "live" => connected' = FALSE
    <3>1. CASE Login \/ Disconnect
      BY <2>1, <3>1 DEF Login, Disconnect
    <3>2. CASE EditWatchlist \/ NextMinute \/ UNCHANGED vars
      <4>1. connected' = connected /\ source' = source
        BY <2>1, <3>2 DEF EditWatchlist, NextMinute, vars, feedVars
      <4> QED
        BY <1>0, <4>1
    <3> QED
      BY <1>1, <3>1, <3>2
  <2> QED
    BY <2>1, <2>2, CandlesStay DEF CInv
<1>2. CASE RealDataEvent
  <2>1. PICK c \in Streamed, t \in Trades :
          LET tick == [code |-> c, price |-> t.price, volume |-> t.volume, time |-> minute]
          IN Aggregate(OnTick(building, Extracted(tick))) /\ ticks' = Append(ticks, tick)
    BY <1>2 DEF RealDataEvent
  <2> DEFINE tick == [code |-> c, price |-> t.price, volume |-> t.volume, time |-> minute]
  <2>2. c \in Code
    BY DEF Streamed, IInv, TrackedIsWanted, ScreensOwn, Subscription
  <2>3. tick \in Tick /\ Extracted(tick) \in Tick
    BY <2>2, FeedAssumption DEF Tick, Extracted, IInv, FieldsOK
  <2> HIDE DEF tick
  <2>4. Aggregate(OnTick(building, Extracted(tick))) /\ ticks' = Append(ticks, tick)
    BY <2>1 DEF tick
  <2>5. source = "live" /\ source' = "live" /\ connected' = connected
    <3>1. connected /\ source' = source /\ connected' = connected
      BY <1>2 DEF RealDataEvent
    <3>2. source = "live"
      BY <1>0, <3>1, Zenon
    <3> QED
      BY <3>1, <3>2
  <2>6. Handed' = Append(Handed, Extracted(tick)) /\ Handed \in Seq(Tick)
    <3>0. ticks \in Seq(Tick) /\ tick \in Tick /\ ticks' = Append(ticks, tick)
      BY <1>0, <2>3, <2>4
    <3>1. /\ Len(ticks) \in Nat /\ DOMAIN ticks = 1 .. Len(ticks)
          /\ DOMAIN ticks' = 1 .. Len(ticks) + 1
          /\ \A k \in DOMAIN ticks : ticks'[k] = ticks[k] /\ ticks[k] \in Tick
          /\ ticks'[Len(ticks) + 1] = tick
      BY <3>0
    <3>2. Handed = [k \in DOMAIN ticks |-> Extracted(ticks[k])]
          /\ Handed' = [k \in DOMAIN ticks' |-> Extracted(ticks'[k])]
      BY <2>5 DEF Handed
    <3>3. \A x \in Tick : Extracted(x) \in Tick
      BY DEF Extracted, Tick
    <3>4. Handed \in [1 .. Len(ticks) -> Tick] /\ Handed \in Seq(Tick) /\ Len(Handed) = Len(ticks)
      BY <3>1, <3>2, <3>3
    <3>5. ASSUME NEW x \in Tick
          PROVE  Append(Handed, x) =
                   [k \in 1 .. Len(Handed) + 1 |-> IF k = Len(Handed) + 1 THEN x ELSE Handed[k]]
      BY <3>4, AppendIs
    <3> QED
      BY <2>3, <3>1, <3>2, <3>4, <3>5
  <2>7. \A d \in Code : CandleInv(d)'
    BY <1>0, <2>3, <2>4, <2>5, <2>6, TickKeeps
  <2> QED
    BY <1>0, <2>5, <2>7 DEF CInv
<1>3. CASE ReplayTick
  <2>1. PICK c \in Code, t \in Trades, time \in 0 .. MaxMinute \cup {NoTime} :
          LET tick == [code |-> c, price |-> t.price, volume |-> t.volume, time |-> time]
          IN Aggregate(OnTick(building, tick)) /\ ticks' = Append(ticks, tick)
    BY <1>3 DEF ReplayTick
  <2> DEFINE tick == [code |-> c, price |-> t.price, volume |-> t.volume, time |-> time]
  <2>3. tick \in Tick
    BY FeedAssumption DEF Tick
  <2> HIDE DEF tick
  <2>4. Aggregate(OnTick(building, tick)) /\ ticks' = Append(ticks, tick)
    BY <2>1 DEF tick
  <2>5. source = "replay" /\ source' = "replay" /\ connected' = connected
    BY <1>3 DEF ReplayTick
  <2>6. Handed' = Append(Handed, tick) /\ Handed \in Seq(Tick)
    <3>1. Handed' = ticks' /\ Handed = ticks
      BY <2>5 DEF Handed
    <3> QED
      BY <1>0, <2>4, <3>1
  <2>7. \A d \in Code : CandleInv(d)'
    BY <1>0, <2>3, <2>4, <2>5, <2>6, TickKeeps
  <2> QED
    BY <1>0, <2>5, <2>7 DEF CInv
<1>4. CASE ReplayEnds
  <2>1. \A d \in Code : CandleInv(d)'
    BY <1>0, <1>4, EndGives
  <2>2. source = "replay" /\ connected' = connected
    BY <1>4 DEF ReplayEnds
  <2> QED
    BY <1>0, <2>1, <2>2 DEF CInv
<1> QED
  BY <1>1, <1>2, <1>3, <1>4 DEF Next

\* Each priced tick is in exactly one candle, for any stocks, trades, width of
\* a candle and number of ticks: what the callbacks were given, with the candle
\* being built, are the runs of equal slots, and a replay's end leaves none.
THEOREM CandlesComplete == Spec => []CandlesAreTicks
<1>1. IInv /\ CInv => CandlesAreTicks
  <2> SUFFICES ASSUME IInv, CInv, NEW c \in Code
               PROVE  /\ AreCandlesOf(Shown(c), Handed, c)
                      /\ source = "ended" => building[c] = NoCandle
    BY DEF CandlesAreTicks
  <2>1. building[c] \in Candle \cup {NoCandle} /\ emitted \in Seq(Candle)
    BY DEF IInv, FieldsOK
  <2>2. CASE building[c] # NoCandle
    <3>1. /\ source # "ended" /\ building[c].code = c
          /\ BuildingRun(emitted, building[c], Handed, c)
      BY <2>2 DEF CInv, CandleInv
    <3>2. OneGiven(emitted, Append(emitted, building[c]), building[c], Len(emitted) + 1, c)
      BY <2>1, <2>2, <3>1, GiveOne
    <3> QED
      BY <2>2, <3>1, <3>2, AllGiven DEF Shown
  <2>3. CASE building[c] = NoCandle /\ source = "ended"
    BY <2>3 DEF CInv, CandleInv, Shown
  <2>4. CASE building[c] = NoCandle /\ source # "ended"
    <3>1. PricedOf(Handed, c) = {} /\ OfCode(emitted, c) = {}
      BY <2>4 DEF CInv, CandleInv
    <3> QED
      BY <2>4, <3>1, NothingGiven, GivenStay DEF Shown
  <2> QED
    BY <2>2, <2>3, <2>4
<1> QED
  BY <1>1, InitIInv, InitCInv, NextIInv, NextCInv, PTL DEF Spec
=============================================================================
