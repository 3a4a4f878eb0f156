----------------------------- MODULE OrderSystem -----------------------------
(***************************************************************************)
(* OrderManager connected to the exchange: send_order feeds the exchange,  *)
(* and each report on the wire becomes one OnReceiveChejanData event of    *)
(* the Qt main thread, handled to its end before the next one.             *)
(***************************************************************************)
EXTENDS OrderManager, Exchange

vars == <<account, lastId, request, state, filled, number, pending, index,
          outbox, book, cancels, wire, faults>>

TypeOK == ManagerTypeOK /\ ExchangeTypeOK

Init == ManagerInit /\ ExchangeInit

-----------------------------------------------------------------------------

Select == SelectAccount /\ UNCHANGED exchangeVars

\* One submit_order call; SendOrder succeeds or fails.
Submit(r) ==
  \/ /\ SubmitAll(<<r>>, {1})
     /\ ReceiveOrders(<<[owner |-> lastId + 1, code |-> r.code, qty |-> r.qty]>>)
  \/ /\ SubmitAll(<<r>>, {})
     /\ UNCHANGED exchangeVars

Cancel(n) == CancelOrder(n) /\ n <= Len(book) /\ ReceiveCancel(n)

\* handle_chejan_data with gubun 0.
HandleChejan == Deliver /\ HandleOrderChejan(Head(wire))

\* What the other side does on its own.
Trade(n) ==
  /\ \/ \E q \in 1 .. MaxQty : Execute(n, q)
     \/ CancelRest(n)
  /\ UNCHANGED managerVars

Answering == Answer /\ UNCHANGED managerVars

Fault ==
  /\ \/ \E c \in Code, q \in Qty : ForeignOrder(c, q)
     \/ LoseReport
  /\ UNCHANGED managerVars

Next ==
  \/ Select
  \/ \E r \in Request : Submit(r)
  \/ \E n \in Number : Cancel(n)
  \/ HandleChejan
  \/ Answering
  \/ \E n \in 1 .. Len(book) : Trade(n)
  \/ Fault

\* The Qt event loop handles what is queued, and the exchange answers every
\* order. Nothing makes a price reach a limit order, a user cancel, or a
\* strategy order.
Spec == Init /\ [][Next]_vars /\ WF_vars(HandleChejan) /\ WF_vars(Answering)

-----------------------------------------------------------------------------
(* Properties *)

Numbers == 1 .. Len(book)
Awaited == {wire[k].no : k \in DOMAIN wire}

\* An order is found in at most one way, and the two directions agree: a
\* waiting order is SUBMITTED and has no number, a numbered one is stored
\* under exactly its number and no longer waits, an order that never
\* reached the exchange is in neither dictionary. The hazard is the hand-over
\* in _handle_order_chejan_inner, which pops, renumbers and stores.
Placement ==
  /\ \A i \in pending : i <= lastId /\ state[i] = "SUBMITTED" /\ number[i] = 0
  /\ \A n \in Number : index[n] # 0 => index[n] \notin pending /\ number[index[n]] = n
  /\ \A i \in Id : number[i] # 0 => index[number[i]] = i
  /\ \A i \in Id : i \notin pending /\ number[i] = 0 => state[i] \in {"CREATED", "REJECTED"}

\* As long as the account is used by this process alone and no report is
\* lost, the number stored with an order is the one the exchange gave that
\* order, although the handler matches by stock code only.
NumbersMatch ==
  faults = 0 =>
    \A n \in Number : index[n] # 0 => n \in Numbers /\ book[n].owner = index[n]

\* The state the manager must show for an entry of the book.
ShownState(e) ==
  CASE e.status = "filled"    -> "FILLED"
    [] e.status = "cancelled" -> "CANCELLED"
    [] e.status = "rejected"  -> "REJECTED"
    [] e.status = "open"      -> IF e.done = 0 THEN "ACCEPTED" ELSE "PARTIAL_FILL"

\* Once every report of an order has been handled the manager shows what the
\* exchange has: no report was refused by the transition table, none was
\* read as a different state, none went to another order.
ViewAgrees ==
  faults = 0 =>
    \A n \in Numbers \ Awaited :
      /\ index[n] # 0
      /\ state[index[n]]  = ShownState(book[n])
      /\ filled[index[n]] = book[n].done

\* get_active_orders, when nothing is under way, lists exactly the orders
\* that can still trade: those not answered yet and those open in the book.
ActiveAgrees ==
  faults = 0 /\ wire = <<>> =>
    ActiveOrders = {outbox[k].owner : k \in DOMAIN outbox}
                   \cup {book[n].owner : n \in {m \in Numbers : book[m].status = "open"}}

\* A finished order is shown as finished sooner or later, whatever else is
\* going on, unless a fault intervened.
Finished(n) == n \in Numbers /\ book[n].status # "open"
FinishedIsShown ==
  \A n \in Number :
    Finished(n) ~> \/ faults > 0
                   \/ index[n] # 0 /\ state[index[n]] \in TerminalState

\* Every order that waits for its number gets one, or a fault intervened.
WaitingEnds ==
  \A i \in Id : (i \in pending) ~> (i \notin pending \/ faults > 0)

\* OrderManager implements the promise of OrderProtocol, faults included.
Protocol == INSTANCE OrderProtocol WITH Id <- Id, state <- state, filled <- filled
ImplementsProtocol == Protocol!Spec
=============================================================================
