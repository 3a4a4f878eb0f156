--------------------------- MODULE MCTradingSystem ---------------------------
(* TradingSystem on a small instance. *)
EXTENDS TradingSystem, TLC

Codes == Permutations(Code)
=============================================================================
