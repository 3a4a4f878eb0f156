------------------------------ MODULE OrderData ------------------------------
(***************************************************************************)
(* The bounds of an instance and the messages OrderManager and the         *)
(* exchange share.                                                         *)
(***************************************************************************)
EXTENDS Naturals

CONSTANTS
  Code,           \* stock codes
  MaxOrders,      \* bound: submit_order calls in a behaviour
  Qty,            \* the sizes orders are submitted in
  MaxQty,         \* bound: the largest of them
  MaxNumber       \* bound: order numbers the exchange hands out

ASSUME BoundAssumption == MaxOrders \in Nat /\ MaxQty \in Nat /\ MaxNumber \in Nat
ASSUME QtyAssumption == Qty \subseteq 1 .. MaxQty

Id     == 1 .. MaxOrders      \* internal counter values, ORD_nnnnnn
Number == 1 .. MaxNumber      \* order numbers of the exchange

\* One gubun=0 chejan event: the FIDs _handle_order_chejan_inner reads.
Status == {"accepted", "confirmed", "executed", "cancelled", "rejected"}
Report == [no : Number, code : Code, status : Status,
           unfilled : 0 .. MaxQty, exec : 0 .. MaxQty]
=============================================================================
