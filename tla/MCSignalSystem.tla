--------------------------- MODULE MCSignalSystem ---------------------------
(* SignalSystem on a small instance: one strategy on a crossing with a rule *)
(* that nests, one on the price against the same indicator.                 *)
EXTENDS SignalSystem

CONSTANTS c1

Cond(i, op, v)   == [indicator |-> i, operator |-> op, value |-> v, ref |-> NoRef]
Ref(i, op, r)    == [indicator |-> i, operator |-> op, value |-> NoValue, ref |-> r]
Rule(logic, cs)  == [logic |-> logic, conditions |-> cs]

MCStrategy == {"cross", "vwap"}
MCConfig ==
  [cross |-> [priority |-> 1, cooldown |-> 3, indicators |-> {"ema"},
              entry |-> Rule("AND", {Cond("ema", "cross_above", 4),
                                     Rule("OR", {Cond("price", "gte", 4), Cond("volume", "gt", 0)})}),
              exit  |-> Rule("OR", {Cond("ema", "cross_below", 5)})],
   vwap  |-> [priority |-> 1, cooldown |-> 2, indicators |-> {"ema", "vwap"},
              entry |-> Rule("AND", {Ref("price", "gt", "vwap")}),
              exit  |-> Rule("AND", {Ref("price", "lt", "vwap"), Cond("ema", "lte", 4)})]]
MCWatchlist == [c \in Code |-> <<"cross", "vwap">>]
MCWarmup    == [ema |-> 2, vwap |-> 1]
=============================================================================
