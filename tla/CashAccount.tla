---------------------------- MODULE CashAccount ----------------------------
(***************************************************************************)
(* What every virtual account of the program promises, whoever trades on   *)
(* it (the paper trader, the backtest, the replay): shares are only ever   *)
(* exchanged for cash at a price, a step never gains and loses at most     *)
(* LossRate, in parts of 100000 of what it trades with, to costs, cash is  *)
(* never lent, and no shares are sold that are not held. An account may be *)
(* replaced by a fresh one.                                                *)
(***************************************************************************)
EXTENDS Integers

CONSTANTS Code, Price, InitialCash, LossRate

VARIABLES cash, held

Init == cash = InitialCash /\ held = [c \in Code |-> 0]

\* The cash with the shares of a stock at a price.
Worth(c, p) == cash + p * held[c]

\* One or more trades of one stock at one price.
Trade(c, p) ==
  /\ \A d \in Code \ {c} : held'[d] = held[d]
  /\ held'[c] >= 0
  /\ cash' >= 0
  /\ Worth(c, p)' <= Worth(c, p)
  /\ 100000 * (Worth(c, p) - Worth(c, p)') <= LossRate * Worth(c, p)

Fresh == cash' = InitialCash /\ held' = [c \in Code |-> 0]

Next == Fresh \/ \E c \in Code, p \in Price : Trade(c, p)

Spec == Init /\ [][Next]_<<cash, held>>
=============================================================================
