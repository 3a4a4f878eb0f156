---------------------------- MODULE MCSimulation ----------------------------
(* Simulation on a small instance: four candles, a replay's at the times that *)
(* the day strategies tell apart, a backtest's of two days.                  *)
EXTENDS Simulation, TLC

CONSTANTS c1, c2

Shape(o, c, v) == [open |-> o, high |-> Top(o, c), low |-> Bottom(o, c), close |-> c, volume |-> v]

MCShapes    == {Shape(100, 96, 1), Shape(96, 100, 4), Shape(100, 104, 1)}
MCMoments   == <<5, 35, 60, 300>>
MCBacktestMoments == <<5, 35, 60, 1450>>
MCSignals   == {<<>>, <<"BUY">>, <<"SELL", "BUY">>}
MCPrevHigh  == [c \in Code |-> 99]
MCPrevLow   == [c \in Code |-> 97]
MCPrevClose == [c \in Code |-> 102]
Symmetry    == Permutations(Code)
=============================================================================
