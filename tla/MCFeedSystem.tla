---------------------------- MODULE MCFeedSystem ----------------------------
(* FeedSystem on a small instance: a rising, a falling, and an empty trade. *)
EXTENDS FeedSystem

MCTrades == {[price |-> 1, volume |-> 1], [price |-> -2, volume |-> -2],
             [price |-> 0, volume |-> 1]}
=============================================================================
