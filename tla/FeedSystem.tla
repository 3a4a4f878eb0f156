----------------------------- MODULE FeedSystem -----------------------------
(***************************************************************************)
(* The live data pipeline as main.py wires it: a login restores the        *)
(* subscriptions of earlier logins and adds the watch list of now; a trade *)
(* in a streamed stock raises a real-time event, whose extracted FIDs go   *)
(* to the candle aggregator. (The risk manager, which is handed the same   *)
(* dictionary first, is in TradingSystem.) A replay drives an aggregator of*)
(* its own from a database of ticks; the model has one or the other.       *)
(***************************************************************************)
EXTENDS CandleAggregator, RealData, FiniteSets

CONSTANTS
  Trades,         \* external: price and volume a trade may report, with signs
  MaxTicks,       \* bound: events
  MaxMinute,      \* bound: the clock
  MaxLogins,      \* bound: logins
  MaxEdits        \* bound: changes of the watch list

ASSUME FeedAssumption ==
  /\ \A t \in Trades : t.price \in Int /\ t.volume \in Int
  /\ {MaxTicks, MaxMinute, MaxLogins, MaxEdits} \subseteq Nat

VARIABLES
  source,                 \* what drives the aggregator: live, replay, or ended
  connected, logins,
  watchlist, edits,       \* watchlist and watchlist_strategies of the settings
  minute,                 \* external: the time of the exchange
  building,               \* CandleAggregator._building
  emitted,                \* history: candles the callbacks were given
  ticks,                  \* history: what happened at the exchange, as streamed
  wanted                  \* history: the stocks of every login's watch list

feedVars == <<source, connected, logins, watchlist, edits, minute, building, emitted, ticks, wanted>>
vars == <<realDataVars, feedVars>>

Tick == [code : Code, price : Int, volume : Int, time : Nat \cup {NoTime}]
Candle == [code : Code, slot : Int, open : Nat, high : Nat, low : Nat, close : Nat, volume : Nat]

ASSUME NoCandleAssumption == NoCandle \notin Candle

\* Each screen carries one subscription, and the fields have their types: the
\* sign of the feed never reaches a candle.
TypeOK ==
  /\ source \in {"live", "replay", "ended"} /\ connected \in BOOLEAN
  /\ watchlist \subseteq Code /\ wanted \subseteq Code
  /\ building \in [Code -> Candle \cup {NoCandle}]
  /\ emitted \in Seq(Candle) /\ ticks \in Seq(Tick)
  /\ \A r, s \in registered : r.screen = s.screen => r = s

Init ==
  /\ RealDataInit
  /\ source \in {"live", "replay"}
  /\ connected = FALSE /\ logins = 0
  /\ watchlist \in SUBSET Code /\ edits = 0
  /\ minute = 0
  /\ building = [c \in Code |-> NoCandle]
  /\ emitted = <<>> /\ ticks = <<>>
  /\ wanted = {}

\* A successful OnEventConnect: SessionManager._on_connect, connected first,
\* restores what is tracked; _on_login_success subscribes the watch list.
Login ==
  /\ source = "live" /\ ~connected /\ logins < MaxLogins
  /\ connected' = TRUE
  /\ logins' = logins + 1
  /\ wanted' = wanted \cup watchlist
  /\ IF watchlist = {}
     THEN registered' = Restored(tracked) /\ UNCHANGED <<subscriptions, tracked, screen>>
     ELSE Subscribe(watchlist, Restored(tracked))
  /\ UNCHANGED <<source, watchlist, edits, minute, building, emitted, ticks>>

\* The connection is lost.
Disconnect ==
  /\ connected
  /\ connected' = FALSE
  /\ registered' = {}
  /\ UNCHANGED <<source, subscriptions, tracked, screen, logins, watchlist, edits,
                 minute, building, emitted, ticks, wanted>>

\* _on_add_stock and _on_remove_stock save the settings; neither touches the
\* subscriptions, so the change counts from the next login.
EditWatchlist ==
  /\ source = "live" /\ edits < MaxEdits
  /\ edits' = edits + 1
  /\ \E c \in Code : watchlist' = IF c \in watchlist THEN watchlist \ {c} ELSE watchlist \cup {c}
  /\ UNCHANGED <<realDataVars, source, connected, logins, minute, building, emitted, ticks, wanted>>

\* The dictionary on_real_data makes of an event: the FIDs it extracts.
Extracted(tick) ==
  [tick EXCEPT !.time = IF "EXEC_TIME" \in StandardFids THEN tick.time ELSE NoTime]

Aggregate(after) == building' = after.building /\ emitted' = emitted \o after.done

\* OnReceiveRealData.
RealDataEvent ==
  /\ connected /\ Len(ticks) < MaxTicks
  /\ \E c \in Streamed, t \in Trades :
       LET tick  == [code |-> c, price |-> t.price, volume |-> t.volume, time |-> minute]
       IN Aggregate(OnTick(building, Extracted(tick))) /\ ticks' = Append(ticks, tick)
  /\ UNCHANGED <<realDataVars, source, connected, logins, watchlist, edits, minute, wanted>>

NextMinute ==
  /\ source = "live" /\ minute < MaxMinute
  /\ minute' = minute + 1
  /\ UNCHANGED <<realDataVars, source, connected, logins, watchlist, edits, building,
                 emitted, ticks, wanted>>

\* A row of the database, in the order of arrival: a late one is of an
\* earlier minute, and a column may be empty.
ReplayTick ==
  /\ source = "replay" /\ Len(ticks) < MaxTicks
  /\ \E c \in Code, t \in Trades, time \in 0 .. MaxMinute \cup {NoTime} :
       LET tick == [code |-> c, price |-> t.price, volume |-> t.volume, time |-> time]
       IN Aggregate(OnTick(building, tick)) /\ ticks' = Append(ticks, tick)
  /\ UNCHANGED <<realDataVars, source, connected, logins, watchlist, edits, minute, wanted>>

\* The rows end: what is being built is completed, in the order in which the
\* candles were begun.
ReplayEnds ==
  /\ source = "replay" /\ source' = "ended"
  /\ \E codes \in SetToSeqs({c \in Code : building[c] # NoCandle}) :
       Aggregate(Flush(building, codes))
  /\ UNCHANGED <<realDataVars, connected, logins, watchlist, edits, minute, ticks, wanted>>

Next ==
  \/ Login \/ Disconnect \/ EditWatchlist \/ RealDataEvent \/ NextMinute
  \/ ReplayTick \/ ReplayEnds

Spec == Init /\ [][Next]_vars

-----------------------------------------------------------------------------
(* Properties *)

\* After a login every stock of any login's watch list is streamed again,
\* whatever was lost and edited in between, and nothing else is.
StreamsRestored == connected => Streamed = wanted

\* The dictionaries handed on, and the candles the callbacks were given with
\* the one of code c that is being built.
Handed == IF source = "live" THEN [k \in DOMAIN ticks |-> Extracted(ticks[k])] ELSE ticks
Shown(c) == IF building[c] = NoCandle THEN emitted ELSE Append(emitted, building[c])

\* Each priced tick is in exactly one candle: the candles given to the
\* callbacks and the one being built are the runs of equal slots of the
\* dictionaries handed on, with their open, high, low, close and volume; and
\* when a replay has ended, every tick's candle has been given.
CandlesAreTicks ==
  \A c \in Code :
    /\ AreCandlesOf(Shown(c), Handed, c)
    /\ source = "ended" => building[c] = NoCandle

\* candle_aggregator.py:20: "When a tick crosses a minute boundary, the
\* previous candle is finalized and emitted to all registered callbacks."
MinuteEndsCandle ==
  [][\A c \in Code :
       \A k \in PricedOf(ticks', c) \ PricedOf(ticks, c), j \in PricedOf(ticks, c) :
         (\A i \in PricedOf(ticks, c) : i <= j) /\ ~SameSlot(ticks', j, k)
           => emitted' # emitted]_vars
=============================================================================
