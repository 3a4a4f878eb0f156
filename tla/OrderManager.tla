----------------------------- MODULE OrderManager -----------------------------
(***************************************************************************)
(* kiwoom_trader/core/order_manager.py: the orders this process submitted, *)
(* the two dictionaries it finds them in, and the handler that turns       *)
(* chejan reports into state transitions.                                  *)
(*                                                                         *)
(* An order is named by its internal counter value (the temporary number   *)
(* ORD_nnnnnn); it stays the identity of the order after the exchange has  *)
(* given it a number. Side, price, hoga and screen number travel with the  *)
(* order and decide nothing in this class; they are left out, and so is    *)
(* the fill price, which is always stored together with the filled         *)
(* quantity.                                                               *)
(***************************************************************************)
EXTENDS Sequences, OrderModels, OrderData

CONSTANT NoRequest        \* content of an order that has not been created

Request == [code : Code, qty : Qty]

ASSUME NoRequestAssumption == NoRequest \notin Request

VARIABLES
  account,        \* BOOLEAN: _account_no is set
  lastId,         \* _internal_id_counter
  request,        \* code and qty of each order
  state,          \* Order.state
  filled,         \* Order.filled_qty
  number,         \* Order.order_no: 0 while it is the temporary number
  pending,        \* keys of _pending_orders
  index           \* _orders: the order stored under a number, 0 for none

managerVars == <<account, lastId, request, state, filled, number, pending, index>>

ManagerTypeOK ==
  /\ account \in BOOLEAN
  /\ lastId \in 0 .. MaxOrders
  /\ request \in [Id -> Request \cup {NoRequest}]
  /\ state \in [Id -> OrderState]
  /\ filled \in [Id -> 0 .. MaxQty]
  /\ number \in [Id -> Number \cup {0}]
  /\ pending \subseteq Id
  /\ index \in [Number -> Id \cup {0}]

ManagerInit ==
  /\ account \in BOOLEAN
  /\ lastId  = 0
  /\ request = [i \in Id |-> NoRequest]
  /\ state   = [i \in Id |-> "CREATED"]
  /\ filled  = [i \in Id |-> 0]
  /\ number  = [i \in Id |-> 0]
  /\ pending = {}
  /\ index   = [n \in Number |-> 0]

-----------------------------------------------------------------------------
(* Submitting *)

\* _select_account (main.py) sets the account submit_order needs.
SelectAccount ==
  /\ ~account
  /\ account' = TRUE
  /\ UNCHANGED <<lastId, request, state, filled, number, pending, index>>

\* The internal ids that submitting n orders one after the other uses up.
NewIds(n) == lastId + 1 .. lastId + n

\* submit_order, called for each of reqs in turn by one handler. sent holds
\* the positions for which SendOrder returned 0: those orders are SUBMITTED
\* and wait in _pending_orders, the others are REJECTED and stored nowhere.
\* Without an account the method returns None and nothing happens.
SubmitAll(reqs, sent) ==
  /\ account
  /\ lastId + Len(reqs) <= MaxOrders
  /\ lastId'  = lastId + Len(reqs)
  /\ request' = [i \in Id |-> IF i \in NewIds(Len(reqs))
                              THEN reqs[i - lastId] ELSE request[i]]
  /\ state'   = [i \in Id |-> IF i \in NewIds(Len(reqs))
                              THEN IF i - lastId \in sent THEN "SUBMITTED"
                                                          ELSE "REJECTED"
                              ELSE state[i]]
  /\ pending' = pending \cup {i \in NewIds(Len(reqs)) : i - lastId \in sent}
  /\ UNCHANGED <<account, filled, number, index>>

-----------------------------------------------------------------------------
(* Chejan reports *)

\* Mutant: the executed quantity is looked at before the status text.
ExecutionFirst(r) ==
  IF r.unfilled = 0 /\ r.exec > 0 THEN "FILLED"
  ELSE IF r.unfilled > 0 /\ r.exec > 0 THEN "PARTIAL_FILL"
  ELSE IF r.status = "rejected" THEN "REJECTED"
  ELSE IF r.status = "cancelled" THEN "CANCELLED"
  ELSE IF r.status = "accepted" THEN "ACCEPTED"
  ELSE "NONE"

\* _determine_state: the tests in the order the method makes them; "NONE" is
\* its None, which is no state and so in no row of the table.
DetermineState(r) ==
  IF r.status = "rejected" THEN "REJECTED"
  ELSE IF r.status = "cancelled" THEN "CANCELLED"
  ELSE IF r.unfilled = 0 /\ r.exec > 0 THEN "FILLED"
  ELSE IF r.unfilled > 0 /\ r.exec > 0 THEN "PARTIAL_FILL"
  ELSE IF r.status = "accepted" THEN "ACCEPTED"
  ELSE "NONE"

\* Mutant: an undetermined state is applied like any other.
ApplyUndetermined(i, r) ==
  IF DetermineState(r) \in ValidTransitions[state[i]] \cup {"NONE"}
  THEN /\ state'  = [state EXCEPT ![i] = DetermineState(r)]
       /\ filled' = [filled EXCEPT ![i] = IF r.exec > 0 THEN r.exec ELSE @]
  ELSE UNCHANGED <<state, filled>>

\* Mutant: the table is not consulted.
ApplyUnchecked(i, r) ==
  IF DetermineState(r) # "NONE"
  THEN /\ state'  = [state EXCEPT ![i] = DetermineState(r)]
       /\ filled' = [filled EXCEPT ![i] = IF r.exec > 0 THEN r.exec ELSE @]
  ELSE UNCHANGED <<state, filled>>

\* The tail of _handle_order_chejan_inner once the order is known. An illegal
\* transition is logged and changes nothing, the fill data included.
ApplyReport(i, r) ==
  IF DetermineState(r) \in ValidTransitions[state[i]]
  THEN /\ state'  = [state EXCEPT ![i] = DetermineState(r)]
       /\ filled' = [filled EXCEPT ![i] = IF r.exec > 0 THEN r.exec ELSE @]
  ELSE UNCHANGED <<state, filled>>

\* Mutant: the code of the report keeps its "A" prefix.
PendingForPrefixed(c) == {i \in pending : <<"A", request[i].code>> = <<c>>}

\* The waiting orders a report of an unknown number may be matched with, and
\* whether i is the one that is: _pending_orders keeps insertion order, which
\* is id order.
PendingFor(c) == {i \in pending : request[i].code = c}

\* Mutant: the latest waiting order is matched.
LastPending(i, c) == i \in PendingFor(c) /\ \A j \in PendingFor(c) : j <= i

FirstPending(i, c) == i \in PendingFor(c) /\ \A j \in PendingFor(c) : i <= j

\* The number is a key of _orders.
ReportOfKnown(r) ==
  /\ index[r.no] # 0
  /\ ApplyReport(index[r.no], r)
  /\ UNCHANGED <<account, lastId, request, number, pending, index>>

\* Mutant: the order keeps waiting under its temporary number as well.
AdoptedStillWaits(r) ==
  /\ index[r.no] = 0
  /\ \E i \in pending :
       /\ FirstPending(i, r.code)
       /\ number'  = [number EXCEPT ![i] = r.no]
       /\ index'   = [index EXCEPT ![r.no] = i]
       /\ ApplyReport(i, r)
  /\ UNCHANGED <<account, lastId, request, pending>>

\* It is not: the first waiting order of the same code takes the number.
ReportAdopted(r) ==
  /\ index[r.no] = 0
  /\ \E i \in pending :
       /\ FirstPending(i, r.code)
       /\ pending' = pending \ {i}
       /\ number'  = [number EXCEPT ![i] = r.no]
       /\ index'   = [index EXCEPT ![r.no] = i]
       /\ ApplyReport(i, r)
  /\ UNCHANGED <<account, lastId, request>>

\* No order of that code waits: "Chejan data for untracked order".
ReportUntracked(r) ==
  /\ index[r.no] = 0
  /\ PendingFor(r.code) = {}
  /\ UNCHANGED managerVars

HandleOrderChejan(r) == ReportOfKnown(r) \/ ReportAdopted(r) \/ ReportUntracked(r)

\* cancel_order: a request to the exchange, nothing changes here. Only an
\* order with a number can be cancelled to any effect: for a waiting order
\* the method sends the temporary number, which the exchange does not know.
CancelOrder(n) ==
  /\ index[n] # 0
  /\ UNCHANGED managerVars

\* Mutant: only the numbered orders are listed.
ActiveNumbered ==
  {i \in {index[n] : n \in {m \in Number : index[m] # 0}} : state[i] \notin TerminalState}

\* get_active_orders
ActiveOrders ==
  {i \in pending \cup {index[n] : n \in {m \in Number : index[m] # 0}} :
     state[i] \notin TerminalState}
=============================================================================
