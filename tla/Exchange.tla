------------------------------- MODULE Exchange -------------------------------
(***************************************************************************)
(* The far side of KiwoomAPI.send_order and OnReceiveChejanData: the       *)
(* broker and the exchange behind it. None of it is code of this           *)
(* repository; it is modelled from what order_manager.py and its tests     *)
(* expect of the reports:                                                  *)
(*   - orders of the account are answered in the order they were sent,     *)
(*     each with an order number and the status accepted (or rejected);    *)
(*   - an execution reports the quantity executed so far and the quantity  *)
(*     still unfilled, a cancellation the quantity executed before it;     *)
(*   - the reports of the account arrive in the order they were raised.    *)
(* Two things the code must live with are counted as faults: an order of   *)
(* the same account that this process did not send (another terminal, or   *)
(* an earlier run of the process), and a report lost with the connection.  *)
(***************************************************************************)
EXTENDS Sequences, OrderData

CONSTANTS
  MaxFaults,      \* bound: faults in a behaviour
  MaxWire         \* bound: reports under way at once

ASSUME ExchangeAssumption == MaxFaults \in Nat /\ MaxWire \in Nat

VARIABLES
  outbox,         \* orders sent, not yet answered, oldest first
  book,           \* the orders that have a number: book[n] is order number n
  cancels,        \* numbers a cancel request has been received for
  wire,           \* reports raised, not yet handled, oldest first
  faults          \* faults so far

exchangeVars == <<outbox, book, cancels, wire, faults>>

\* owner is the id the sender gave the order (it travels in rq_name), 0 for
\* an order that is not of this process.
Sent  == [owner : Id, code : Code, qty : Qty]
Life  == {"open", "filled", "cancelled", "rejected"}
Entry == {e \in [owner : Id \cup {0}, code : Code, qty : Qty, done : 0 .. MaxQty,
                 status : Life] : e.done <= e.qty}

ExchangeTypeOK ==
  /\ outbox \in Seq(Sent)
  /\ book \in Seq(Entry)
  /\ Len(book) <= MaxNumber
  /\ cancels \subseteq 1 .. Len(book)
  /\ wire \in Seq(Report)
  /\ faults \in 0 .. MaxFaults

ExchangeInit ==
  /\ outbox  = <<>>
  /\ book    = <<>>
  /\ cancels = {}
  /\ wire    = <<>>
  /\ faults  = 0

\* Adds a report to the wire.
Raise(r) == Len(wire) < MaxWire /\ wire' = Append(wire, r)

\* The report of entry e, which has (or is getting) number n.
ReportOn(n, e, status, unfilled) ==
  [no |-> n, code |-> e.code, status |-> status, unfilled |-> unfilled, exec |-> e.done]

NewEntry(owner, c, q, status) ==
  [owner |-> owner, code |-> c, qty |-> q, done |-> 0, status |-> status]

\* Entry e once done shares of it are executed.
Updated(e, done, status) ==
  [owner |-> e.owner, code |-> e.code, qty |-> e.qty, done |-> done, status |-> status]

\* Orders arrive from SendOrder, oldest first.
ReceiveOrders(orders) ==
  /\ outbox' = outbox \o orders
  /\ UNCHANGED <<book, cancels, wire, faults>>

\* The oldest order gets a number and is accepted or refused.
Answer ==
  /\ outbox # <<>>
  /\ Len(book) < MaxNumber
  /\ \E accept \in BOOLEAN :
       LET o == Head(outbox)
           e == NewEntry(o.owner, o.code, o.qty, IF accept THEN "open" ELSE "rejected")
       IN /\ book' = Append(book, e)
          /\ Raise(ReportOn(Len(book) + 1, e,
                            IF accept THEN "accepted" ELSE "rejected", e.qty))
  /\ outbox' = Tail(outbox)
  /\ UNCHANGED <<cancels, faults>>

\* q more shares of order n are executed.
Execute(n, q) ==
  /\ book[n].status = "open"
  /\ q <= book[n].qty - book[n].done
  /\ LET done == book[n].done + q
         e    == Updated(book[n], done, IF done = book[n].qty THEN "filled" ELSE "open")
     IN /\ book' = [book EXCEPT ![n] = e]
        /\ Raise(ReportOn(n, e, "executed", e.qty - done))
  /\ UNCHANGED <<outbox, cancels, faults>>

\* A cancel request for order n arrives; while the order is open it is
\* confirmed first, the cancellation itself follows (or an execution wins).
ReceiveCancel(n) ==
  /\ n \notin cancels
  /\ cancels' = cancels \cup {n}
  /\ IF book[n].status = "open"
     THEN Raise(ReportOn(n, book[n], "confirmed", book[n].qty - book[n].done))
     ELSE UNCHANGED wire
  /\ UNCHANGED <<outbox, book, faults>>

\* The rest of order n is cancelled. The unfilled quantity of the report is
\* the rest or already 0: the code is written, and tested, without relying
\* on either.
CancelRest(n) ==
  /\ n \in cancels
  /\ book[n].status = "open"
  /\ book' = [book EXCEPT ![n] = Updated(book[n], book[n].done, "cancelled")]
  /\ \E unfilled \in {0, book[n].qty - book[n].done} :
       Raise(ReportOn(n, book[n], "cancelled", unfilled))
  /\ UNCHANGED <<outbox, cancels, faults>>

\* Fault: an order of the account that this process did not send.
ForeignOrder(c, q) ==
  /\ faults < MaxFaults
  /\ Len(book) < MaxNumber
  /\ faults' = faults + 1
  /\ LET e == NewEntry(0, c, q, "open")
     IN /\ book' = Append(book, e)
        /\ Raise(ReportOn(Len(book) + 1, e, "accepted", q))
  /\ UNCHANGED <<outbox, cancels>>

\* Fault: the oldest report is lost.
LoseReport ==
  /\ faults < MaxFaults
  /\ wire # <<>>
  /\ faults' = faults + 1
  /\ wire' = Tail(wire)
  /\ UNCHANGED <<outbox, book, cancels>>

\* The oldest report leaves the wire: it is being handled.
Deliver ==
  /\ wire # <<>>
  /\ wire' = Tail(wire)
  /\ UNCHANGED <<outbox, book, cancels, faults>>
=============================================================================
