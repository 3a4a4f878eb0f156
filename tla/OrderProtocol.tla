---------------------------- MODULE OrderProtocol ----------------------------
(***************************************************************************)
(* What OrderManager promises whoever holds one of its Order objects,      *)
(* with nothing of how it finds the object a chejan report belongs to:     *)
(*   - an order's state moves along VALID_TRANSITIONS and nowhere else;    *)
(*   - the executed quantity never shrinks, grows only in a step that      *)
(*     reports an execution (or the cancellation of the rest), and an      *)
(*     order shown as executed has an executed quantity;                   *)
(*   - an order that is finished is finished: neither field moves again.   *)
(* One handler may move several orders (a liquidation submits one for each *)
(* position), so a step moves every order by one transition or not at all. *)
(***************************************************************************)
EXTENDS Naturals, OrderModels

CONSTANT Id             \* the orders the process may create

VARIABLES
  state,                \* Order.state
  filled                \* Order.filled_qty

Init ==
  /\ state  = [i \in Id |-> "CREATED"]
  /\ filled = [i \in Id |-> 0]

Keep(i) ==
  /\ state'[i]  = state[i]
  /\ filled'[i] = filled[i]

Move(i) ==
  /\ state'[i] \in ValidTransitions[state[i]]
  /\ filled'[i] \in Nat
  /\ filled'[i] >= filled[i]
  /\ filled'[i] > filled[i] => state'[i] \in {"PARTIAL_FILL", "FILLED", "CANCELLED"}
  /\ state'[i] \in {"PARTIAL_FILL", "FILLED"} => filled'[i] > 0

Next ==
  /\ DOMAIN state' = Id
  /\ DOMAIN filled' = Id
  /\ \A i \in Id : Keep(i) \/ Move(i)

Spec == Init /\ [][Next]_<<state, filled>>
=============================================================================
