----------------------------- MODULE OrderProofs -----------------------------
(***************************************************************************)
(* What OrderSystem guarantees for any set of codes, any sizes and any     *)
(* number of orders, reports and faults: its types, the agreement of the   *)
(* two dictionaries with the orders, that every order obeys OrderProtocol, *)
(* and, without faults, that what the manager shows of its orders is what  *)
(* the exchange has of them.                                               *)
(***************************************************************************)
EXTENDS OrderSystem, TLAPS

-----------------------------------------------------------------------------
(* The inductive invariant *)

\* What a report on the wire says about its order: the quantity it shows
\* was executed, a refused order has none.
ReportsTrue ==
  \A k \in DOMAIN wire :
    /\ wire[k].no <= Len(book)
    /\ wire[k].exec <= book[wire[k].no].done
    /\ wire[k].status = "rejected" => wire[k].exec = 0

\* Two reports of one order show quantities in the order they were raised.
ReportsOrdered ==
  \A j, k \in DOMAIN wire :
    j < k /\ wire[j].no = wire[k].no => wire[j].exec <= wire[k].exec

\* What the manager shows as executed for a number is no more than what any
\* report still to come shows, nor than what the exchange executed.
FillsBehind ==
  \A n \in Number : index[n] # 0 =>
    /\ n <= Len(book)
    /\ filled[index[n]] <= book[n].done
    /\ \A k \in DOMAIN wire : wire[k].no = n => filled[index[n]] <= wire[k].exec

\* An order that never met a report shows nothing executed, one that was
\* not created is CREATED.
Untouched ==
  /\ \A i \in Id : number[i] = 0 => filled[i] = 0
  /\ \A i \in Id : i > lastId => state[i] = "CREATED" /\ number[i] = 0

IInv ==
  /\ TypeOK
  /\ Placement
  /\ ReportsTrue
  /\ ReportsOrdered
  /\ FillsBehind
  /\ Untouched

-----------------------------------------------------------------------------
(* Types *)

\* The table leads to states only.
LEMMA TransitionsType ==
  ASSUME NEW s \in OrderState
  PROVE  ValidTransitions[s] \subseteq OrderState
BY DEF OrderState, ValidTransitions, TerminalState

\* Applying a report to an order keeps the states states and the fills fills.
LEMMA ApplyType ==
  ASSUME ManagerTypeOK, NEW i \in Id, NEW r \in Report, ApplyReport(i, r)
  PROVE  /\ state' \in [Id -> OrderState]
         /\ filled' \in [Id -> 0 .. MaxQty]
<1>1. ValidTransitions[state[i]] \subseteq OrderState
  BY TransitionsType DEF ManagerTypeOK
<1>2. r.exec \in 0 .. MaxQty
  BY DEF Report
<1>3. CASE DetermineState(r) \in ValidTransitions[state[i]]
  BY <1>1, <1>2, <1>3 DEF ApplyReport, ManagerTypeOK
<1>4. CASE DetermineState(r) \notin ValidTransitions[state[i]]
  BY <1>4 DEF ApplyReport, ManagerTypeOK
<1> QED
  BY <1>3, <1>4

\* The chejan handler keeps the manager's types.
LEMMA HandleType ==
  ASSUME ManagerTypeOK, NEW r \in Report, HandleOrderChejan(r)
  PROVE  ManagerTypeOK'
<1>0. r.no \in Number
  BY DEF Report
<1>1. CASE ReportOfKnown(r)
  <2>1. index[r.no] \in Id
    BY <1>0, <1>1 DEF ReportOfKnown, ManagerTypeOK
  <2>2. state' \in [Id -> OrderState] /\ filled' \in [Id -> 0 .. MaxQty]
    BY <1>1, <2>1, ApplyType DEF ReportOfKnown
  <2> QED
    BY <1>1, <2>2 DEF ReportOfKnown, ManagerTypeOK
<1>2. CASE ReportAdopted(r)
  <2>1. PICK i \in pending :
          /\ FirstPending(i, r.code)
          /\ pending' = pending \ {i}
          /\ number'  = [number EXCEPT ![i] = r.no]
          /\ index'   = [index EXCEPT ![r.no] = i]
          /\ ApplyReport(i, r)
    BY <1>2 DEF ReportAdopted
  <2>2. i \in Id
    BY DEF ManagerTypeOK
  <2>3. state' \in [Id -> OrderState] /\ filled' \in [Id -> 0 .. MaxQty]
    BY <2>1, <2>2, ApplyType
  <2> QED
    BY <1>0, <1>2, <2>1, <2>2, <2>3 DEF ReportAdopted, ManagerTypeOK
<1>3. CASE ReportUntracked(r)
  BY <1>3 DEF ReportUntracked, managerVars, ManagerTypeOK
<1> QED
  BY <1>1, <1>2, <1>3 DEF HandleOrderChejan

\* Submitting one order keeps the manager's types.
LEMMA SubmitType ==
  ASSUME ManagerTypeOK, NEW r \in Request, NEW sent, SubmitAll(<<r>>, sent)
  PROVE  ManagerTypeOK'
<1>1. Len(<<r>>) = 1 /\ lastId \in Nat /\ MaxOrders \in Nat
  BY BoundAssumption DEF ManagerTypeOK, Id
<1>2. lastId' = lastId + 1 /\ lastId' \in 0 .. MaxOrders
  BY <1>1 DEF SubmitAll, ManagerTypeOK
<1>3. \A i \in Id : i \in NewIds(Len(<<r>>)) => <<r>>[i - lastId] = r
  BY <1>1 DEF NewIds, Id
<1>4. request' \in [Id -> Request \cup {NoRequest}]
  BY <1>3 DEF SubmitAll, ManagerTypeOK
<1>5. state' \in [Id -> OrderState]
  BY DEF SubmitAll, ManagerTypeOK, OrderState
<1>6. NewIds(Len(<<r>>)) \subseteq Id
  BY <1>1, <1>2 DEF NewIds, Id
<1>7. pending' \subseteq Id
  BY <1>6 DEF SubmitAll, ManagerTypeOK
<1> QED
  BY <1>2, <1>4, <1>5, <1>7 DEF SubmitAll, ManagerTypeOK

\* Everything the exchange does keeps its types.
LEMMA ReportType ==
  ASSUME NEW n \in Number, NEW e \in Entry, NEW s \in Status, NEW u \in 0 .. MaxQty
  PROVE  ReportOn(n, e, s, u) \in Report
BY DEF ReportOn, Entry, Report

\* What is known of an entry's quantities.
LEMMA EntryFacts ==
  ASSUME NEW e \in Entry
  PROVE  /\ e.qty \in 1 .. MaxQty /\ e.qty \in 0 .. MaxQty
         /\ e.done \in 0 .. e.qty /\ e.done \in Nat
         /\ e.qty - e.done \in 0 .. MaxQty
<1>1. e.qty \in 1 .. MaxQty /\ e.done \in 0 .. MaxQty /\ e.done <= e.qty
  BY QtyAssumption DEF Entry
<1> QED
  BY <1>1, BoundAssumption

LEMMA NewEntryType ==
  ASSUME NEW o \in Id \cup {0}, NEW c \in Code, NEW q \in Qty,
         NEW s \in Life
  PROVE  NewEntry(o, c, q, s) \in Entry
<1>1. q \in Nat /\ 0 \in 0 .. MaxQty
  BY BoundAssumption, QtyAssumption
<1> QED
  BY <1>1 DEF NewEntry, Entry

LEMMA UpdatedType ==
  ASSUME NEW e \in Entry, NEW d \in 0 .. e.qty, NEW s \in Life
  PROVE  Updated(e, d, s) \in Entry /\ Updated(e, d, s).qty = e.qty
<1>1. e.qty \in 1 .. MaxQty
  BY EntryFacts
<1>2. d \in 0 .. MaxQty /\ d <= e.qty
  BY <1>1, BoundAssumption
<1> QED
  BY <1>2 DEF Updated, Entry

LEMMA RaiseType ==
  ASSUME wire \in Seq(Report), NEW r \in Report, Raise(r)
  PROVE  wire' \in Seq(Report)
BY DEF Raise

\* An entry of the book is an entry, and so is one more than the book holds.
LEMMA BookType ==
  ASSUME ExchangeTypeOK, NEW n \in 1 .. Len(book)
  PROVE  n \in Number /\ book[n] \in Entry
BY BoundAssumption DEF ExchangeTypeOK, Number

LEMMA AnswerType ==
  ASSUME ExchangeTypeOK, Answer
  PROVE  ExchangeTypeOK'
<1> USE BoundAssumption DEF ExchangeTypeOK
<1>1. Head(outbox) \in Sent /\ Tail(outbox) \in Seq(Sent)
  BY DEF Answer
<1>2. PICK accept \in BOOLEAN :
        LET o == Head(outbox)
            e == NewEntry(o.owner, o.code, o.qty, IF accept THEN "open" ELSE "rejected")
        IN /\ book' = Append(book, e)
           /\ Raise(ReportOn(Len(book) + 1, e,
                             IF accept THEN "accepted" ELSE "rejected", e.qty))
  BY DEF Answer
<1> DEFINE o == Head(outbox)
           e == NewEntry(o.owner, o.code, o.qty, IF accept THEN "open" ELSE "rejected")
<1>3. e \in Entry /\ e.qty \in 0 .. MaxQty
  <2>1. o.owner \in Id \cup {0} /\ o.code \in Code /\ o.qty \in Qty
    BY <1>1 DEF Sent
  <2>2. e \in Entry
    BY <2>1, NewEntryType DEF Life
  <2> QED
    BY <2>2, EntryFacts
<1>4. Len(book) + 1 \in Number
  BY DEF Answer, Number
<1>5. ReportOn(Len(book) + 1, e, IF accept THEN "accepted" ELSE "rejected", e.qty) \in Report
  BY <1>3, <1>4, ReportType DEF Status
<1>6. wire' \in Seq(Report)
  BY <1>2, <1>5, RaiseType
<1>7. book' \in Seq(Entry) /\ Len(book') = Len(book) + 1
  BY <1>2, <1>3
<1> QED
  BY <1>1, <1>4, <1>6, <1>7 DEF Answer, Number

\* What is executed and what is left stay within the order's quantity.
LEMMA ExecutedRest ==
  ASSUME NEW d \in 0 .. MaxQty, NEW t \in 1 .. MaxQty, NEW q \in 1 .. MaxQty, q =< t - d
  PROVE  d + q \in 0 .. t /\ t - (d + q) \in 0 .. MaxQty
BY BoundAssumption

LEMMA ExecuteType ==
  ASSUME ExchangeTypeOK, NEW n \in 1 .. Len(book), NEW q \in 1 .. MaxQty, Execute(n, q)
  PROVE  ExchangeTypeOK'
<1> USE BoundAssumption DEF ExchangeTypeOK
<1>1. n \in Number /\ book[n] \in Entry
  BY BookType
<1> DEFINE done == book[n].done + q
           s    == IF done = book[n].qty THEN "filled" ELSE "open"
           e    == Updated(book[n], done, s)
<1>2. book[n].done \in 0 .. MaxQty /\ book[n].qty \in Qty /\ book[n].qty \in 1 .. MaxQty
  BY <1>1, QtyAssumption DEF Entry
<1>3. done \in 0 .. book[n].qty /\ book[n].qty - done \in 0 .. MaxQty
  <2>1. q =< book[n].qty - book[n].done
    BY Zenon DEF Execute
  <2> HIDE DEF ExchangeTypeOK
  <2> QED
    BY <1>2, <2>1, ExecutedRest
<1>4. e \in Entry /\ e.qty = book[n].qty
  <2>1. s \in Life
    BY DEF Life
  <2> QED
    BY <1>1, <1>3, <2>1, UpdatedType
<1>5. ReportOn(n, e, "executed", e.qty - done) \in Report
  BY <1>1, <1>3, <1>4, ReportType DEF Status
<1>6. wire' \in Seq(Report)
  BY <1>5, RaiseType DEF Execute
<1>7. book' \in Seq(Entry) /\ Len(book') = Len(book)
  BY <1>4 DEF Execute
<1> QED
  BY <1>6, <1>7 DEF Execute

LEMMA CancelRestType ==
  ASSUME ExchangeTypeOK, NEW n \in 1 .. Len(book), CancelRest(n)
  PROVE  ExchangeTypeOK'
<1> USE BoundAssumption DEF ExchangeTypeOK
<1>1. n \in Number /\ book[n] \in Entry
  BY BookType
<1>2. PICK unfilled \in {0, book[n].qty - book[n].done} :
        Raise(ReportOn(n, book[n], "cancelled", unfilled))
  BY DEF CancelRest
<1>3. unfilled \in 0 .. MaxQty
  BY <1>1, EntryFacts
<1>4. wire' \in Seq(Report)
  BY <1>1, <1>2, <1>3, ReportType, RaiseType DEF Status
<1>5. Updated(book[n], book[n].done, "cancelled") \in Entry
  BY <1>1, UpdatedType, EntryFacts DEF Life
<1>6. book' \in Seq(Entry) /\ Len(book') = Len(book)
  BY <1>5 DEF CancelRest
<1> QED
  BY <1>4, <1>6 DEF CancelRest

LEMMA ReceiveCancelType ==
  ASSUME ExchangeTypeOK, NEW n \in 1 .. Len(book), ReceiveCancel(n)
  PROVE  ExchangeTypeOK'
<1> USE DEF ExchangeTypeOK
<1>1. ReportOn(n, book[n], "confirmed", book[n].qty - book[n].done) \in Report
  BY BookType, EntryFacts, ReportType DEF Status
<1>2. wire' \in Seq(Report)
  BY <1>1, RaiseType DEF ReceiveCancel
<1> QED
  BY <1>2 DEF ReceiveCancel

LEMMA FaultType ==
  ASSUME ExchangeTypeOK, Fault
  PROVE  ExchangeTypeOK'
<1> USE BoundAssumption, ExchangeAssumption DEF ExchangeTypeOK
<1>1. CASE LoseReport
  BY <1>1 DEF LoseReport
<1>2. CASE \E c \in Code, q \in Qty : ForeignOrder(c, q)
  <2>1. PICK c \in Code, q \in Qty : ForeignOrder(c, q)
    BY <1>2
  <2> DEFINE e == NewEntry(0, c, q, "open")
  <2>2. e \in Entry
    BY NewEntryType DEF Life
  <2>3. Len(book) + 1 \in Number /\ q \in 0 .. MaxQty
    BY <2>1, QtyAssumption DEF ForeignOrder, Number
  <2>4. ReportOn(Len(book) + 1, e, "accepted", q) \in Report
    BY <2>2, <2>3, ReportType DEF Status
  <2>5. wire' \in Seq(Report)
    BY <2>1, <2>4, RaiseType DEF ForeignOrder
  <2>6. book' \in Seq(Entry) /\ Len(book') = Len(book) + 1
    BY <2>1, <2>2 DEF ForeignOrder
  <2> QED
    BY <2>1, <2>3, <2>5, <2>6 DEF ForeignOrder, Number
<1> QED
  BY <1>1, <1>2 DEF Fault

LEMMA TypeInit == Init => TypeOK
BY BoundAssumption, ExchangeAssumption
   DEF Init, TypeOK, ManagerInit, ManagerTypeOK, ExchangeInit, ExchangeTypeOK, OrderState

LEMMA TypeNext ==
  ASSUME TypeOK, [Next]_vars
  PROVE  TypeOK'
<1> USE DEF TypeOK
<1>1. CASE Select
  BY <1>1 DEF Select, SelectAccount, exchangeVars, ManagerTypeOK, ExchangeTypeOK
<1>2. ASSUME NEW r \in Request, Submit(r) PROVE TypeOK'
  <2>1. ManagerTypeOK'
    BY <1>2, SubmitType DEF Submit
  <2>2. CASE UNCHANGED exchangeVars
    BY <2>1, <2>2 DEF exchangeVars, ExchangeTypeOK
  <2>3. CASE /\ SubmitAll(<<r>>, {1})
             /\ ReceiveOrders(<<[owner |-> lastId + 1, code |-> r.code, qty |-> r.qty]>>)
    <3>1. lastId + 1 \in Id
      BY <2>3, BoundAssumption DEF SubmitAll, ManagerTypeOK, Id
    <3>2. <<[owner |-> lastId + 1, code |-> r.code, qty |-> r.qty]>> \in Seq(Sent)
      BY <3>1 DEF Sent, Request
    <3> QED
      BY <2>1, <2>3, <3>2 DEF ReceiveOrders, ExchangeTypeOK
  <2> QED
    BY <1>2, <2>2, <2>3 DEF Submit
<1>3. ASSUME NEW n \in Number, Cancel(n) PROVE TypeOK'
  <2>1. n \in 1 .. Len(book)
    BY <1>3 DEF Cancel, Number, ExchangeTypeOK
  <2> QED
    BY <1>3, <2>1, ReceiveCancelType DEF Cancel, CancelOrder, managerVars, ManagerTypeOK
<1>4. CASE HandleChejan
  <2>1. Head(wire) \in Report /\ Tail(wire) \in Seq(Report)
    BY <1>4 DEF HandleChejan, Deliver, ExchangeTypeOK
  <2>2. ManagerTypeOK'
    BY <1>4, <2>1, HandleType DEF HandleChejan
  <2> QED
    BY <1>4, <2>1, <2>2 DEF HandleChejan, Deliver, ExchangeTypeOK
<1>5. CASE Answering
  BY <1>5, AnswerType DEF Answering, managerVars, ManagerTypeOK
<1>6. ASSUME NEW n \in 1 .. Len(book), Trade(n) PROVE TypeOK'
  BY <1>6, ExecuteType, CancelRestType DEF Trade, managerVars, ManagerTypeOK
<1>7. CASE Fault
  BY <1>7, FaultType DEF Fault, managerVars, ManagerTypeOK
<1>8. CASE UNCHANGED vars
  BY <1>8 DEF vars, ManagerTypeOK, ExchangeTypeOK
<1> QED
  BY <1>1, <1>2, <1>3, <1>4, <1>5, <1>6, <1>7, <1>8 DEF Next

\* Every variable of the manager and of the exchange keeps its type, whatever
\* is submitted, cancelled, reported or lost: no report makes an order leave
\* the states of the table.
THEOREM TypeCorrect == Spec => []TypeOK
<1>1. Init => TypeOK
  BY TypeInit
<1>2. TypeOK /\ [Next]_vars => TypeOK'
  BY TypeNext
<1> QED
  BY <1>1, <1>2, PTL DEF Spec

-----------------------------------------------------------------------------
(* Placement *)

\* What Placement and Untouched say of the dictionaries; the step of a report
\* and of a submission preserve it.
Located == Placement /\ Untouched

LEMMA LocatedSubmit ==
  ASSUME TypeOK, Located, NEW r \in Request, NEW sent, SubmitAll(<<r>>, sent)
  PROVE  Located'
<1> USE BoundAssumption DEF TypeOK, ManagerTypeOK, Id
<1> DEFINE new == lastId + 1
<1>1. NewIds(Len(<<r>>)) = {new} /\ lastId' = new /\ new \in Id
  BY DEF NewIds, SubmitAll
<1>2. number' = number /\ index' = index /\ filled' = filled
  BY DEF SubmitAll
<1>3. \A i \in Id : i # new => state'[i] = state[i]
  BY <1>1 DEF SubmitAll
<1>4. state'[new] = IF 1 \in sent THEN "SUBMITTED" ELSE "REJECTED"
  BY <1>1 DEF SubmitAll
<1>5. pending' = IF 1 \in sent THEN pending \cup {new} ELSE pending
  BY <1>1 DEF SubmitAll
<1>6. number[new] = 0 /\ new \notin pending /\ \A n \in Number : index[n] # new
  <2>1. number[new] = 0 /\ new \notin pending
    BY <1>1 DEF Located, Placement, Untouched
  <2>2. \A n \in Number : n # 0
    BY DEF Number
  <2>3. new # 0
    BY <1>1
  <2>4. \A n \in Number : index[n] = new => number[new] = n
    BY <2>3 DEF Located, Placement
  <2> QED
    BY <2>1, <2>2, <2>4
<1>7. Placement'
  <2>1. \A i \in pending' : i <= lastId' /\ state'[i] = "SUBMITTED" /\ number'[i] = 0
    BY <1>1, <1>2, <1>3, <1>4, <1>5, <1>6 DEF Located, Placement
  <2>2. \A n \in Number : index'[n] # 0 => index'[n] \notin pending' /\ number'[index'[n]] = n
    BY <1>2, <1>5, <1>6 DEF Located, Placement
  <2>3. \A i \in Id : i \notin pending' /\ number'[i] = 0 => state'[i] \in {"CREATED", "REJECTED"}
    BY <1>1, <1>2, <1>3, <1>4, <1>5 DEF Located, Placement
  <2> QED
    BY <1>2, <2>1, <2>2, <2>3 DEF Located, Placement
<1>8. Untouched'
  BY <1>1, <1>2, <1>3 DEF Located, Untouched
<1> QED
  BY <1>7, <1>8 DEF Located

\* Applying a report moves one order, along the table or not at all.
LEMMA ApplyMoves ==
  ASSUME ManagerTypeOK, NEW i \in Id, NEW r \in Report, ApplyReport(i, r)
  PROVE  /\ \A j \in Id : j # i => state'[j] = state[j] /\ filled'[j] = filled[j]
         /\ \/ state'[i] = state[i] /\ filled'[i] = filled[i]
            \/ /\ state'[i] = DetermineState(r)
               /\ DetermineState(r) \in ValidTransitions[state[i]]
               /\ filled'[i] = IF r.exec > 0 THEN r.exec ELSE filled[i]
BY DEF ApplyReport, ManagerTypeOK

LEMMA LocatedReport ==
  ASSUME TypeOK, Located, NEW r \in Report, HandleOrderChejan(r)
  PROVE  Located'
<1> USE DEF TypeOK
<1>0. r.no \in Number /\ r.no # 0
  BY DEF Report, Number
<1>1. CASE ReportOfKnown(r)
  <2> DEFINE i == index[r.no]
  <2>1. i \in Id /\ i \notin pending /\ number[i] = r.no
    BY <1>0, <1>1 DEF ReportOfKnown, ManagerTypeOK, Located, Placement
  <2>2. \A j \in Id : j # i => state'[j] = state[j] /\ filled'[j] = filled[j]
    BY <1>1, <2>1, ApplyMoves DEF ReportOfKnown
  <2>3. Placement'
    BY <1>0, <1>1, <2>1, <2>2 DEF ReportOfKnown, ManagerTypeOK, Located, Placement
  <2>4. Untouched'
    BY <1>0, <1>1, <2>1, <2>2 DEF ReportOfKnown, Located, Untouched
  <2> QED
    BY <2>3, <2>4 DEF Located
<1>2. CASE ReportAdopted(r)
  <2>1. PICK i \in pending :
          /\ FirstPending(i, r.code)
          /\ pending' = pending \ {i}
          /\ number'  = [number EXCEPT ![i] = r.no]
          /\ index'   = [index EXCEPT ![r.no] = i]
          /\ ApplyReport(i, r)
    BY <1>2 DEF ReportAdopted
  <2>2. i \in Id /\ number[i] = 0 /\ i <= lastId
    BY DEF ManagerTypeOK, Located, Placement
  <2>3. \A j \in Id : j # i => state'[j] = state[j] /\ filled'[j] = filled[j]
    BY <2>1, <2>2, ApplyMoves
  <2>4. index[r.no] = 0 /\ lastId' = lastId
    BY <1>2 DEF ReportAdopted
  <2>5. /\ number'[i] = r.no /\ \A j \in Id : j # i => number'[j] = number[j]
        /\ index'[r.no] = i /\ \A n \in Number : n # r.no => index'[n] = index[n]
    BY <1>0, <2>1, <2>2 DEF ManagerTypeOK
  <2>6. Placement'
    <3>1. \A j \in pending' : j <= lastId' /\ state'[j] = "SUBMITTED" /\ number'[j] = 0
      BY <2>1, <2>3, <2>4, <2>5 DEF ManagerTypeOK, Located, Placement
    <3>2. \A n \in Number : index'[n] # 0 =>
            index'[n] \notin pending' /\ number'[index'[n]] = n
      <4> SUFFICES ASSUME NEW n \in Number, index'[n] # 0
                   PROVE  index'[n] \notin pending' /\ number'[index'[n]] = n
        OBVIOUS
      <4>1. CASE n = r.no
        BY <2>1, <2>5, <4>1
      <4>2. CASE n # r.no
        <5>1. index[n] \in Id /\ index[n] # 0 /\ index'[n] = index[n]
          BY <2>5, <4>2 DEF ManagerTypeOK
        <5>2. index[n] \notin pending /\ number[index[n]] = n
          BY <5>1 DEF Located, Placement
        <5> QED
          BY <2>1, <2>5, <5>1, <5>2
      <4> QED
        BY <4>1, <4>2
    <3>3. \A j \in Id : number'[j] # 0 => index'[number'[j]] = j
      <4> SUFFICES ASSUME NEW j \in Id, number'[j] # 0
                   PROVE  index'[number'[j]] = j
        OBVIOUS
      <4>1. CASE j = i
        BY <2>5, <4>1
      <4>2. CASE j # i
        <5>1. number'[j] = number[j] /\ number[j] \in Number /\ index[number[j]] = j
          BY <2>5, <4>2 DEF ManagerTypeOK, Located, Placement
        <5>2. j # 0
          BY DEF Id
        <5>3. number[j] # r.no
          BY <2>4, <5>1, <5>2
        <5> QED
          BY <2>5, <5>1, <5>3
      <4> QED
        BY <4>1, <4>2
    <3>4. \A j \in Id : j \notin pending' /\ number'[j] = 0 =>
            state'[j] \in {"CREATED", "REJECTED"}
      BY <1>0, <2>1, <2>3, <2>5 DEF Located, Placement
    <3> QED
      BY <3>1, <3>2, <3>3, <3>4 DEF Placement
  <2>7. Untouched'
    <3>1. \A j \in Id : number'[j] = 0 => filled'[j] = 0
      BY <1>0, <2>3, <2>5 DEF Located, Untouched
    <3>2. \A j \in Id : j > lastId' => state'[j] = "CREATED" /\ number'[j] = 0
      BY <2>2, <2>3, <2>4, <2>5 DEF Located, Untouched, ManagerTypeOK, Id
    <3> QED
      BY <3>1, <3>2 DEF Untouched
  <2> QED
    BY <2>6, <2>7 DEF Located
<1>3. CASE ReportUntracked(r)
  BY <1>3 DEF ReportUntracked, managerVars, Located, Placement, Untouched
<1> QED
  BY <1>1, <1>2, <1>3 DEF HandleOrderChejan

LEMMA LocatedNext ==
  ASSUME TypeOK, Located, [Next]_vars
  PROVE  Located'
<1>1. CASE Select
  BY <1>1 DEF Select, SelectAccount, Located, Placement, Untouched
<1>2. ASSUME NEW r \in Request, Submit(r) PROVE Located'
  BY <1>2, LocatedSubmit DEF Submit
<1>3. CASE HandleChejan
  <2>1. Head(wire) \in Report
    BY <1>3 DEF HandleChejan, Deliver, TypeOK, ExchangeTypeOK
  <2> QED
    BY <1>3, <2>1, LocatedReport DEF HandleChejan
<1>4. CASE UNCHANGED managerVars
  BY <1>4 DEF managerVars, Located, Placement, Untouched
<1>5. ASSUME NEW n \in Number, Cancel(n) PROVE UNCHANGED managerVars
  BY <1>5 DEF Cancel, CancelOrder
<1>6. ASSUME NEW n \in 1 .. Len(book), Trade(n) PROVE UNCHANGED managerVars
  BY <1>6 DEF Trade
<1>7. Answering \/ Fault \/ UNCHANGED vars => UNCHANGED managerVars
  BY DEF Answering, Fault, vars, managerVars
<1> QED
  BY <1>1, <1>2, <1>3, <1>4, <1>5, <1>6, <1>7 DEF Next

LEMMA LocatedInit == Init => Located
BY DEF Init, ManagerInit, Located, Placement, Untouched, Id, Number

\* The two dictionaries and the orders agree, for any number of orders,
\* reports and faults: the hand-over from _pending_orders to _orders neither
\* loses an order nor leaves it in both, and no two orders share a number.
THEOREM PlacementHolds == Spec => []Placement
<1>1. Init => TypeOK /\ Located
  BY TypeInit, LocatedInit
<1>2. TypeOK /\ Located /\ [Next]_vars => (TypeOK /\ Located)'
  BY TypeNext, LocatedNext
<1>3. Located => Placement
  BY DEF Located
<1> QED
  BY <1>1, <1>2, <1>3, PTL DEF Spec

-----------------------------------------------------------------------------
(* What the reports on the wire say *)

Reported == ReportsTrue /\ ReportsOrdered /\ FillsBehind

LEMMA ReportedInit == Init => Reported
BY DEF Init, ManagerInit, ExchangeInit, Reported, ReportsTrue, ReportsOrdered, FillsBehind

\* A step of the exchange that only lets executed quantities grow, and that
\* raises at most one report which shows the quantity executed by now, keeps
\* the reports true and ordered and the manager behind them.
LEMMA ReportedRaise ==
  ASSUME TypeOK, TypeOK', Reported, UNCHANGED managerVars,
         Len(book) <= Len(book'),
         \A n \in 1 .. Len(book) : book[n].done <= book'[n].done,
         \/ wire' = wire
         \/ \E r \in Report : /\ wire' = Append(wire, r)
                              /\ r.no <= Len(book')
                              /\ r.exec = book'[r.no].done
                              /\ r.status = "rejected" => r.exec = 0
  PROVE  Reported'
<1>0. /\ wire \in Seq(Report) /\ book \in Seq(Entry) /\ book' \in Seq(Entry)
      /\ Len(book') <= MaxNumber /\ ManagerTypeOK
  BY DEF TypeOK, ExchangeTypeOK
<1>1. \A n \in 1 .. Len(book) : book[n].done \in Nat
  BY <1>0, EntryFacts
<1>2. \A n \in 1 .. Len(book') : book'[n].done \in Nat
  BY <1>0, EntryFacts
<1>3. \A k \in DOMAIN wire : wire[k].no \in 1 .. Len(book) /\ wire[k].exec \in Nat
  <2>1. \A k \in DOMAIN wire : wire[k] \in Report
    BY <1>0
  <2> QED
    BY <1>0, <2>1 DEF Reported, ReportsTrue, Report, Number
<1>4. \A n \in Number : index[n] # 0 => n \in 1 .. Len(book) /\ filled[index[n]] \in Nat
  BY <1>0 DEF Reported, FillsBehind, Number, ManagerTypeOK
<1>5. filled' = filled /\ index' = index
  BY DEF managerVars
<1>6. \A k \in DOMAIN wire :
        wire[k].no <= Len(book') /\ wire[k].exec <= book'[wire[k].no].done
  <2> SUFFICES ASSUME NEW k \in DOMAIN wire
               PROVE  wire[k].no <= Len(book') /\ wire[k].exec <= book'[wire[k].no].done
    OBVIOUS
  <2> DEFINE n == wire[k].no
  <2>1. n \in 1 .. Len(book) /\ n \in 1 .. Len(book') /\ wire[k].exec \in Nat
    BY <1>0, <1>3
  <2>2. wire[k].exec <= book[n].done
    BY DEF Reported, ReportsTrue
  <2>3. book[n].done \in Nat /\ book'[n].done \in Nat /\ book[n].done <= book'[n].done
    BY <1>1, <1>2, <2>1
  <2> HIDE DEF n
  <2>4. n <= Len(book') /\ wire[k].exec <= book'[n].done
    BY <2>1, <2>2, <2>3
  <2> QED
    BY <2>4 DEF n
<1>7. CASE wire' = wire
  <2>1. ReportsTrue'
    BY <1>7, <1>6 DEF Reported, ReportsTrue
  <2>2. ReportsOrdered'
    BY <1>7 DEF Reported, ReportsOrdered
  <2>3. FillsBehind'
    BY <1>1, <1>2, <1>4, <1>5, <1>7 DEF Reported, FillsBehind
  <2> QED
    BY <2>1, <2>2, <2>3 DEF Reported
<1>8. CASE \E r \in Report : /\ wire' = Append(wire, r)
                             /\ r.no <= Len(book')
                             /\ r.exec = book'[r.no].done
                             /\ r.status = "rejected" => r.exec = 0
  <2>0. PICK r \in Report : /\ wire' = Append(wire, r)
                            /\ r.no <= Len(book')
                            /\ r.exec = book'[r.no].done
                            /\ r.status = "rejected" => r.exec = 0
    BY <1>8
  <2> DEFINE last == Len(wire) + 1
  <2>1. r.no \in 1 .. Len(book')
    <3>1. r.no \in Number
      BY DEF Report
    <3>2. r.no <= Len(book')
      BY <2>0
    <3>3. Len(book') \in Nat
      BY <1>0
    <3> QED
      BY <3>1, <3>2, <3>3 DEF Number
  <2>2. /\ DOMAIN wire' = 1 .. last /\ DOMAIN wire = 1 .. Len(wire)
        /\ wire'[last] = r
        /\ \A k \in 1 .. Len(wire) : wire'[k] = wire[k]
    BY <1>0, <2>0
  <2>3. \A k \in DOMAIN wire' : k = last \/ k \in DOMAIN wire
    BY <2>2
  <2>4. ReportsTrue'
    <3> SUFFICES ASSUME NEW k \in DOMAIN wire'
                 PROVE  /\ wire'[k].no <= Len(book')
                        /\ wire'[k].exec <= book'[wire'[k].no].done
                        /\ wire'[k].status = "rejected" => wire'[k].exec = 0
      BY DEF ReportsTrue
    <3>1. CASE k = last
      <4>1. wire'[k] = r
        BY <2>2, <3>1
      <4>2. book'[r.no].done \in Nat /\ r.exec = book'[r.no].done
        BY <1>2, <2>0, <2>1
      <4> QED
        BY <2>0, <4>1, <4>2
    <3>2. CASE k # last
      <4>1. k \in DOMAIN wire /\ wire'[k] = wire[k]
        BY <2>2, <2>3, <3>2
      <4> QED
        BY <1>6, <4>1 DEF Reported, ReportsTrue
    <3> QED
      BY <3>1, <3>2
  <2>5. ReportsOrdered'
    <3> SUFFICES ASSUME NEW j \in DOMAIN wire', NEW k \in DOMAIN wire',
                        j < k, wire'[j].no = wire'[k].no
                 PROVE  wire'[j].exec <= wire'[k].exec
      BY DEF ReportsOrdered
    <3>1. j \in DOMAIN wire /\ wire'[j] = wire[j]
      BY <2>2
    <3>2. CASE k = last
      <4>1. wire'[k] = r /\ wire'[k].exec = book'[r.no].done
        BY <2>0, <2>2, <3>2
      <4>2. wire[j].exec <= book'[wire[j].no].done
        BY <1>6, <3>1
      <4>3. wire[j].no = r.no
        BY <3>1, <4>1
      <4> QED
        BY <3>1, <4>1, <4>2, <4>3
    <3>3. CASE k # last
      BY <2>2, <2>3, <3>1, <3>3 DEF Reported, ReportsOrdered
    <3> QED
      BY <3>2, <3>3
  <2>6. FillsBehind'
    <3> SUFFICES ASSUME NEW n \in Number, index[n] # 0
                 PROVE  /\ n <= Len(book')
                        /\ filled[index[n]] <= book'[n].done
                        /\ \A k \in DOMAIN wire' : wire'[k].no = n =>
                             filled[index[n]] <= wire'[k].exec
      BY <1>5 DEF FillsBehind
    <3>1. n \in 1 .. Len(book) /\ n \in 1 .. Len(book')
      BY <1>0, <1>4
    <3>2. filled[index[n]] <= book'[n].done
      BY <1>1, <1>2, <1>4, <3>1 DEF Reported, FillsBehind
    <3>3. \A k \in DOMAIN wire : wire[k].no = n => filled[index[n]] <= wire[k].exec
      BY DEF Reported, FillsBehind
    <3>4. \A k \in DOMAIN wire' : wire'[k].no = n => filled[index[n]] <= wire'[k].exec
      <4> SUFFICES ASSUME NEW k \in DOMAIN wire', wire'[k].no = n
                   PROVE  filled[index[n]] <= wire'[k].exec
        OBVIOUS
      <4>1. CASE k = last
        <5>1. wire'[k] = r
          BY <2>2, <4>1
        <5> QED
          BY <2>0, <3>2, <5>1
      <4>2. CASE k # last
        BY <2>2, <2>3, <3>3, <4>2
      <4> QED
        BY <4>1, <4>2
    <3> QED
      BY <3>1, <3>2, <3>4
  <2> QED
    BY <2>4, <2>5, <2>6 DEF Reported
<1> QED
  BY <1>7, <1>8

\* The four ways the exchange raises a report are of that kind.
LEMMA ReportedAnswer ==
  ASSUME TypeOK, TypeOK', Reported, UNCHANGED managerVars, Answer
  PROVE  Reported'
<1> USE DEF TypeOK, ExchangeTypeOK
<1>1. PICK accept \in BOOLEAN :
        LET o == Head(outbox)
            e == NewEntry(o.owner, o.code, o.qty, IF accept THEN "open" ELSE "rejected")
        IN /\ book' = Append(book, e)
           /\ Raise(ReportOn(Len(book) + 1, e,
                             IF accept THEN "accepted" ELSE "rejected", e.qty))
  BY DEF Answer
<1> DEFINE o == Head(outbox)
           e == NewEntry(o.owner, o.code, o.qty, IF accept THEN "open" ELSE "rejected")
           r == ReportOn(Len(book) + 1, e, IF accept THEN "accepted" ELSE "rejected", e.qty)
<1>2. book' = Append(book, e) /\ wire' = Append(wire, r)
  BY <1>1 DEF Raise
<1>3. r.no = Len(book) + 1 /\ r.exec = 0 /\ e.done = 0
  BY DEF ReportOn, NewEntry
<1> HIDE DEF o, e, r
<1>4. /\ Len(book') = Len(book) + 1 /\ book'[Len(book) + 1] = e
      /\ \A n \in 1 .. Len(book) : book'[n] = book[n]
  <2>1. e \in Entry
    <3>1. Len(book') = Len(book) + 1 /\ book'[Len(book) + 1] = e
      BY <1>2
    <3> QED
      BY <3>1
  <2> QED
    BY <1>2, <2>1
<1>5. r \in Report
  <2>1. Len(wire') = Len(wire) + 1 /\ wire'[Len(wire) + 1] = r
    BY <1>2
  <2> QED
    BY <2>1
<1>6. \A n \in 1 .. Len(book) : book[n].done <= book'[n].done
  <2> SUFFICES ASSUME NEW n \in 1 .. Len(book) PROVE book[n].done <= book'[n].done
    OBVIOUS
  <2>1. book[n] \in Entry
    BY BookType DEF TypeOK
  <2>2. book[n].done \in Nat
    BY <2>1, EntryFacts
  <2>3. book'[n] = book[n]
    BY <1>4
  <2> QED
    BY <2>2, <2>3
<1>7. \E s \in Report : /\ wire' = Append(wire, s)
                        /\ s.no <= Len(book')
                        /\ s.exec = book'[s.no].done
                        /\ s.status = "rejected" => s.exec = 0
  BY <1>2, <1>3, <1>4, <1>5
<1> QED
  BY <1>4, <1>6, <1>7, ReportedRaise

LEMMA ReportedExecute ==
  ASSUME TypeOK, TypeOK', Reported, UNCHANGED managerVars,
         NEW n \in 1 .. Len(book), NEW q \in 1 .. MaxQty, Execute(n, q)
  PROVE  Reported'
<1>0. /\ wire \in Seq(Report) /\ wire' \in Seq(Report)
      /\ book \in Seq(Entry) /\ book' \in Seq(Entry)
  BY DEF TypeOK, ExchangeTypeOK
<1> DEFINE done == book[n].done + q
           e    == Updated(book[n], done, IF done = book[n].qty THEN "filled" ELSE "open")
           r    == ReportOn(n, e, "executed", e.qty - done)
<1>1. book' = [book EXCEPT ![n] = e] /\ wire' = Append(wire, r)
  BY DEF Execute, Raise
<1>2. r.no = n /\ r.exec = e.done /\ r.status = "executed" /\ e.done = done
  BY DEF ReportOn, Updated
<1> HIDE DEF e, r
<1>3. r \in Report
  <2>1. Len(wire') = Len(wire) + 1 /\ wire'[Len(wire) + 1] = r
    BY <1>0, <1>1
  <2> QED
    BY <1>0, <2>1
<1>4. /\ Len(book') = Len(book) /\ book'[n] = e
      /\ \A m \in 1 .. Len(book) : m # n => book'[m] = book[m]
  BY <1>0, <1>1
<1>5. \A m \in 1 .. Len(book) : book[m].done <= book'[m].done
  <2>1. \A m \in 1 .. Len(book) : book[m].done \in Nat
    BY <1>0, EntryFacts
  <2>2. book[n].done <= done
    BY <2>1
  <2> QED
    BY <1>2, <1>4, <2>1, <2>2
<1>6. \E s \in Report : /\ wire' = Append(wire, s)
                        /\ s.no <= Len(book')
                        /\ s.exec = book'[s.no].done
                        /\ s.status = "rejected" => s.exec = 0
  BY <1>0, <1>1, <1>2, <1>3, <1>4
<1>7. Len(book) <= Len(book')
  BY <1>0, <1>4
<1> QED
  BY <1>5, <1>6, <1>7, ReportedRaise

\* A report that shows an order as it stands: a cancellation, its
\* confirmation.
LEMMA ReportedStanding ==
  ASSUME TypeOK, TypeOK', Reported, UNCHANGED managerVars,
         NEW n \in 1 .. Len(book), NEW st \in {"confirmed", "cancelled"}, NEW u,
         Len(book') = Len(book),
         \A m \in 1 .. Len(book) : book'[m].done = book[m].done,
         wire' = Append(wire, ReportOn(n, book[n], st, u))
  PROVE  Reported'
<1>0. /\ wire \in Seq(Report) /\ wire' \in Seq(Report)
      /\ book \in Seq(Entry) /\ book' \in Seq(Entry)
  BY DEF TypeOK, ExchangeTypeOK
<1> DEFINE r == ReportOn(n, book[n], st, u)
<1>1. r.no = n /\ r.exec = book[n].done /\ r.status # "rejected"
  BY DEF ReportOn
<1> HIDE DEF r
<1>2. wire' = Append(wire, r)
  BY DEF r
<1>3. r \in Report
  <2>1. Len(wire') = Len(wire) + 1 /\ wire'[Len(wire) + 1] = r
    BY <1>0, <1>2
  <2> QED
    BY <1>0, <2>1
<1>4. \A m \in 1 .. Len(book) : book[m].done <= book'[m].done
  BY <1>0, EntryFacts
<1>5. \E s \in Report : /\ wire' = Append(wire, s)
                        /\ s.no <= Len(book')
                        /\ s.exec = book'[s.no].done
                        /\ s.status = "rejected" => s.exec = 0
  BY <1>0, <1>1, <1>2, <1>3
<1>6. Len(book) <= Len(book')
  BY <1>0
<1> QED
  BY <1>4, <1>5, <1>6, ReportedRaise

LEMMA ReportedCancel ==
  ASSUME TypeOK, TypeOK', Reported, UNCHANGED managerVars,
         NEW n \in 1 .. Len(book), CancelRest(n) \/ ReceiveCancel(n)
  PROVE  Reported'
<1>0. book \in Seq(Entry)
  BY DEF TypeOK, ExchangeTypeOK
<1>1. CASE CancelRest(n)
  <2>1. PICK u \in {0, book[n].qty - book[n].done} :
          Raise(ReportOn(n, book[n], "cancelled", u))
    BY <1>1 DEF CancelRest
  <2>2. /\ Len(book') = Len(book)
        /\ \A m \in 1 .. Len(book) : book'[m].done = book[m].done
    BY <1>0, <1>1 DEF CancelRest, Updated
  <2> QED
    BY <2>1, <2>2, ReportedStanding DEF Raise
<1>2. CASE ReceiveCancel(n)
  <2>1. CASE book[n].status = "open"
    BY <1>2, <2>1, ReportedStanding DEF ReceiveCancel, Raise
  <2>2. CASE book[n].status # "open"
    BY <1>2, <2>2 DEF ReceiveCancel, managerVars, Reported, ReportsTrue, ReportsOrdered, FillsBehind
  <2> QED
    BY <2>1, <2>2
<1> QED
  BY <1>1, <1>2

\* Dropping the oldest report, lost or handled without effect.
LEMMA ReportedTail ==
  ASSUME TypeOK, Reported, wire # <<>>, wire' = Tail(wire), book' = book,
         UNCHANGED <<filled, index>>
  PROVE  Reported'
<1>1. wire \in Seq(Report)
  BY DEF TypeOK, ExchangeTypeOK
<1>2. \A k \in DOMAIN wire' : k + 1 \in DOMAIN wire /\ wire'[k] = wire[k + 1]
  BY <1>1
<1>3. \A k \in DOMAIN wire' : k \in Nat
  BY <1>1
<1>4. ReportsTrue'
  BY <1>2 DEF Reported, ReportsTrue
<1>5. ReportsOrdered'
  BY <1>2, <1>3 DEF Reported, ReportsOrdered
<1>6. FillsBehind'
  BY <1>2 DEF Reported, FillsBehind
<1> QED
  BY <1>4, <1>5, <1>6 DEF Reported

LEMMA ReportedFault ==
  ASSUME TypeOK, TypeOK', Reported, Fault
  PROVE  Reported'
<1>0. /\ wire \in Seq(Report) /\ wire' \in Seq(Report)
      /\ book \in Seq(Entry) /\ book' \in Seq(Entry)
  BY DEF TypeOK, ExchangeTypeOK
<1>1. CASE LoseReport
  BY <1>1, ReportedTail DEF Fault, LoseReport, managerVars
<1>2. CASE \E c \in Code, q \in Qty : ForeignOrder(c, q)
  <2>1. PICK c \in Code, q \in Qty : ForeignOrder(c, q)
    BY <1>2
  <2> DEFINE e == NewEntry(0, c, q, "open")
             r == ReportOn(Len(book) + 1, e, "accepted", q)
  <2>2. book' = Append(book, e) /\ wire' = Append(wire, r)
    BY <2>1 DEF ForeignOrder, Raise
  <2>3. r.no = Len(book) + 1 /\ r.exec = 0 /\ e.done = 0
    BY DEF ReportOn, NewEntry
  <2> HIDE DEF e, r
  <2>4. Len(book') = Len(book) + 1 /\ Len(wire') = Len(wire) + 1
    BY <1>0, <2>2
  <2>5. book'[Len(book) + 1] = e /\ wire'[Len(wire) + 1] = r
    BY <1>0, <2>2
  <2>6. r \in Report /\ Len(book) <= Len(book')
    BY <1>0, <2>4, <2>5
  <2>7. \A n \in 1 .. Len(book) : book[n].done <= book'[n].done
    BY <1>0, <2>2, EntryFacts
  <2>8. \E s \in Report : /\ wire' = Append(wire, s)
                          /\ s.no <= Len(book')
                          /\ s.exec = book'[s.no].done
                          /\ s.status = "rejected" => s.exec = 0
    BY <1>0, <2>2, <2>3, <2>4, <2>5, <2>6
  <2> QED
    BY <2>6, <2>7, <2>8, ReportedRaise DEF Fault
<1> QED
  BY <1>1, <1>2 DEF Fault

\* Handling the oldest report: its order now shows what the report said, and
\* every later report of that number says at least as much.
LEMMA ReportedHandle ==
  ASSUME TypeOK, Located, Reported, HandleChejan
  PROVE  Reported'
<1> DEFINE r == Head(wire)
<1>0. ManagerTypeOK /\ wire \in Seq(Report) /\ book \in Seq(Entry)
  BY DEF TypeOK, ExchangeTypeOK
<1>1. wire # <<>> /\ wire' = Tail(wire) /\ book' = book
  BY DEF HandleChejan, Deliver
<1>2. r \in Report /\ r = wire[1] /\ 1 \in DOMAIN wire
  BY <1>0, <1>1
<1>3. r.no \in Number /\ r.exec \in 0 .. MaxQty
  BY <1>2 DEF Report
<1>4. \A k \in DOMAIN wire' : k + 1 \in DOMAIN wire /\ wire'[k] = wire[k + 1] /\ 1 < k + 1
  BY <1>0, <1>1
<1>5. r.no <= Len(book) /\ r.exec <= book[r.no].done
  BY <1>2 DEF Reported, ReportsTrue
<1>6. \A k \in DOMAIN wire' : wire'[k].no = r.no => r.exec <= wire'[k].exec
  BY <1>2, <1>4 DEF Reported, ReportsOrdered
<1>7. ASSUME NEW i \in Id, ApplyReport(i, r),
             \/ index[r.no] = i
             \/ index[r.no] = 0 /\ number[i] = 0,
             index'[r.no] = i,
             \A n \in Number : n # r.no => index'[n] = index[n]
      PROVE  Reported'
  <2>1. filled[i] \in Nat /\ filled'[i] \in Nat
        /\ (filled'[i] = filled[i] \/ filled'[i] = r.exec)
    BY <1>0, <1>2, <1>3, <1>7, ApplyMoves DEF ManagerTypeOK
  <2>2. \A j \in Id : j # i => filled'[j] = filled[j]
    BY <1>0, <1>2, <1>7, ApplyMoves
  <2>3. /\ filled[i] <= book[r.no].done
        /\ \A k \in DOMAIN wire : wire[k].no = r.no => filled[i] <= wire[k].exec
    <3>1. CASE index[r.no] = i
      BY <1>3, <3>1 DEF Reported, FillsBehind, Id
    <3>2. CASE number[i] = 0
      <4>1. filled[i] = 0
        BY <3>2 DEF Located, Untouched
      <4>2. \A k \in DOMAIN wire : 0 <= wire[k].exec
        <5>1. \A k \in DOMAIN wire : wire[k] \in Report
          BY <1>0
        <5> QED
          BY <5>1 DEF Report
      <4>3. 0 <= book[r.no].done
        BY <1>0, <1>3, <1>5, EntryFacts DEF Number
      <4> QED
        BY <4>1, <4>2, <4>3
    <3> QED
      BY <1>7, <3>1, <3>2
  <2>4. /\ filled'[i] <= book[r.no].done
        /\ \A k \in DOMAIN wire' : wire'[k].no = r.no => filled'[i] <= wire'[k].exec
    BY <1>4, <1>5, <1>6, <2>1, <2>3
  <2>5. \A n \in Number : n # r.no /\ index'[n] # 0 => index[n] \in Id /\ index[n] # i
    <3> SUFFICES ASSUME NEW n \in Number, n # r.no, index'[n] # 0
                 PROVE  index[n] \in Id /\ index[n] # i
      OBVIOUS
    <3>1. index[n] \in Id /\ index[n] # 0
      BY <1>0, <1>7 DEF ManagerTypeOK
    <3>2. number[index[n]] = n
      BY <3>1 DEF Located, Placement
    <3>3. number[i] = r.no \/ number[i] = 0
      BY <1>3, <1>7 DEF Located, Placement, Id
    <3>4. n # 0
      BY DEF Number
    <3> QED
      BY <3>1, <3>2, <3>3, <3>4
  <2>6. FillsBehind'
    <3> SUFFICES ASSUME NEW n \in Number, index'[n] # 0
                 PROVE  /\ n <= Len(book')
                        /\ filled'[index'[n]] <= book'[n].done
                        /\ \A k \in DOMAIN wire' : wire'[k].no = n =>
                             filled'[index'[n]] <= wire'[k].exec
      BY DEF FillsBehind
    <3>1. CASE n = r.no
      BY <1>1, <1>5, <1>7, <2>4, <3>1
    <3>2. CASE n # r.no
      <4>1. index'[n] = index[n] /\ filled'[index[n]] = filled[index[n]] /\ index[n] # 0
        BY <1>7, <2>2, <2>5, <3>2
      <4> QED
        BY <1>1, <1>4, <4>1 DEF Reported, FillsBehind
    <3> QED
      BY <3>1, <3>2
  <2>7. ReportsTrue'
    BY <1>1, <1>4 DEF Reported, ReportsTrue
  <2>8. ReportsOrdered'
    <3>1. \A k \in DOMAIN wire' : k \in Nat
      BY <1>0, <1>1
    <3> QED
      BY <1>4, <3>1 DEF Reported, ReportsOrdered
  <2> QED
    BY <2>6, <2>7, <2>8 DEF Reported
<1>8. CASE ReportOfKnown(r)
  <2>1. index[r.no] \in Id /\ index' = index
    BY <1>0, <1>3, <1>8 DEF ReportOfKnown, ManagerTypeOK
  <2> QED
    BY <1>7, <1>8, <2>1 DEF ReportOfKnown
<1>9. CASE ReportAdopted(r)
  <2>1. PICK i \in pending :
          /\ FirstPending(i, r.code)
          /\ pending' = pending \ {i}
          /\ number'  = [number EXCEPT ![i] = r.no]
          /\ index'   = [index EXCEPT ![r.no] = i]
          /\ ApplyReport(i, r)
    BY <1>9 DEF ReportAdopted
  <2>2. i \in Id /\ number[i] = 0 /\ index[r.no] = 0
    BY <1>0, <1>9 DEF ManagerTypeOK, Located, Placement, ReportAdopted
  <2>3. index'[r.no] = i /\ \A n \in Number : n # r.no => index'[n] = index[n]
    BY <1>0, <1>3, <2>1 DEF ManagerTypeOK
  <2> QED
    BY <1>7, <2>1, <2>2, <2>3
<1>10. CASE ReportUntracked(r)
  BY <1>1, <1>10, ReportedTail DEF ReportUntracked, managerVars
<1> QED
  BY <1>8, <1>9, <1>10 DEF HandleChejan, HandleOrderChejan

-----------------------------------------------------------------------------
(* The inductive invariant holds *)

LEMMA InvariantInit == Init => IInv
BY TypeInit, LocatedInit, ReportedInit DEF IInv, Located, Reported

LEMMA InvariantNext ==
  ASSUME IInv, [Next]_vars
  PROVE  IInv'
<1>0. TypeOK /\ Located /\ Reported
  BY DEF IInv, Located, Reported
<1>1. TypeOK' /\ Located'
  BY <1>0, TypeNext, LocatedNext
<1> SUFFICES Reported'
  BY <1>1 DEF IInv, Located, Reported
<1>2. CASE Select
  BY <1>0, <1>2 DEF Select, SelectAccount, exchangeVars,
                    Reported, ReportsTrue, ReportsOrdered, FillsBehind
<1>3. ASSUME NEW r \in Request, Submit(r) PROVE Reported'
  <2>1. UNCHANGED <<filled, index, book, wire>>
    BY <1>3 DEF Submit, SubmitAll, ReceiveOrders, exchangeVars
  <2> QED
    BY <1>0, <2>1 DEF Reported, ReportsTrue, ReportsOrdered, FillsBehind
<1>4. ASSUME NEW n \in Number, Cancel(n) PROVE Reported'
  <2>1. n \in 1 .. Len(book)
    BY <1>0, <1>4 DEF Cancel, Number, TypeOK, ExchangeTypeOK
  <2> QED
    BY <1>0, <1>1, <1>4, <2>1, ReportedCancel DEF Cancel, CancelOrder
<1>5. CASE HandleChejan
  BY <1>0, <1>5, ReportedHandle
<1>6. CASE Answering
  BY <1>0, <1>1, <1>6, ReportedAnswer DEF Answering
<1>7. ASSUME NEW n \in 1 .. Len(book), Trade(n) PROVE Reported'
  BY <1>0, <1>1, <1>7, ReportedExecute, ReportedCancel DEF Trade
<1>8. CASE Fault
  BY <1>0, <1>1, <1>8, ReportedFault
<1>9. CASE UNCHANGED vars
  BY <1>0, <1>9 DEF vars, Reported, ReportsTrue, ReportsOrdered, FillsBehind
<1> QED
  BY <1>2, <1>3, <1>4, <1>5, <1>6, <1>7, <1>8, <1>9 DEF Next

LEMMA Invariance == Spec => []IInv
BY InvariantInit, InvariantNext, PTL DEF Spec

-----------------------------------------------------------------------------
(* OrderManager implements OrderProtocol *)

\* What the handler reads as FILLED or PARTIAL_FILL is an execution.
LEMMA DeterminedByExecution ==
  ASSUME NEW r \in Report
  PROVE  /\ DetermineState(r) \in {"FILLED", "PARTIAL_FILL"} => r.exec > 0
         /\ r.exec > 0 /\ r.status # "rejected" =>
              DetermineState(r) \in {"FILLED", "PARTIAL_FILL", "CANCELLED"}
<1>1. r.exec \in Nat /\ r.unfilled \in Nat
  BY DEF Report
<1> QED
  BY <1>1 DEF DetermineState

LEMMA SameTable == Protocol!ValidTransitions = ValidTransitions
BY DEF ValidTransitions, OrderState, Protocol!ValidTransitions, Protocol!OrderState

\* Applying the oldest report moves its order by one step of the protocol,
\* and no other.
LEMMA ApplyRefines ==
  ASSUME IInv, NEW i \in Id, wire # <<>>, ApplyReport(i, Head(wire)),
         index[Head(wire).no] = i \/ number[i] = 0
  PROVE  Protocol!Next
<1> DEFINE r == Head(wire)
<1>0. ManagerTypeOK /\ wire \in Seq(Report)
  BY DEF IInv, TypeOK, ExchangeTypeOK
<1>1. r \in Report /\ r = wire[1] /\ 1 \in DOMAIN wire
  BY <1>0
<1>2. r.no \in Number /\ r.exec \in Nat /\ (r.status = "rejected" => r.exec = 0)
  BY <1>1 DEF IInv, ReportsTrue, Report
<1>3. filled[i] \in Nat /\ filled[i] <= r.exec
  <2>1. CASE index[r.no] = i
    BY <1>0, <1>1, <1>2, <2>1 DEF IInv, FillsBehind, ManagerTypeOK, Id
  <2>2. CASE number[i] = 0
    BY <1>2, <2>2 DEF IInv, Untouched
  <2> QED
    BY <2>1, <2>2
<1>4. DOMAIN state' = Id /\ DOMAIN filled' = Id
  BY <1>0, <1>1, ApplyType
<1>5. \A j \in Id : j # i => Protocol!Keep(j)
  BY <1>0, <1>1, ApplyMoves DEF Protocol!Keep
<1>6. Protocol!Keep(i) \/ Protocol!Move(i)
  <2>1. CASE state'[i] = state[i] /\ filled'[i] = filled[i]
    BY <2>1 DEF Protocol!Keep
  <2>2. CASE /\ state'[i] = DetermineState(r)
             /\ DetermineState(r) \in ValidTransitions[state[i]]
             /\ filled'[i] = IF r.exec > 0 THEN r.exec ELSE filled[i]
    <3>1. filled'[i] \in Nat /\ filled'[i] >= filled[i]
      BY <1>2, <1>3, <2>2
    <3>2. filled'[i] > filled[i] => state'[i] \in {"PARTIAL_FILL", "FILLED", "CANCELLED"}
      BY <1>1, <1>2, <1>3, <2>2, DeterminedByExecution
    <3>3. state'[i] \in {"PARTIAL_FILL", "FILLED"} => filled'[i] > 0
      BY <1>1, <2>2, DeterminedByExecution
    <3>4. state'[i] \in ValidTransitions[state[i]]
      BY <2>2
    <3> QED
      BY <3>1, <3>2, <3>3, <3>4, SameTable DEF Protocol!Move
  <2> QED
    BY <1>0, <1>1, <2>1, <2>2, ApplyMoves
<1> QED
  BY <1>4, <1>5, <1>6 DEF Protocol!Next

LEMMA HandleRefines ==
  ASSUME IInv, HandleChejan
  PROVE  [Protocol!Next]_<<state, filled>>
<1> DEFINE r == Head(wire)
<1>0. ManagerTypeOK /\ wire \in Seq(Report) /\ wire # <<>>
  BY DEF IInv, TypeOK, ExchangeTypeOK, HandleChejan, Deliver
<1>1. r.no \in Number
  <2>1. r \in Report
    BY <1>0
  <2> QED
    BY <2>1 DEF Report
<1>2. CASE ReportOfKnown(r)
  <2>1. index[r.no] \in Id
    BY <1>0, <1>1, <1>2 DEF ReportOfKnown, ManagerTypeOK
  <2> QED
    BY <1>0, <1>2, <2>1, ApplyRefines DEF ReportOfKnown
<1>3. CASE ReportAdopted(r)
  <2>1. PICK i \in pending : ApplyReport(i, r)
    BY <1>3 DEF ReportAdopted
  <2>2. i \in Id /\ number[i] = 0
    BY <1>0 DEF IInv, ManagerTypeOK, Placement
  <2> QED
    BY <1>0, <2>1, <2>2, ApplyRefines
<1>4. CASE ReportUntracked(r)
  BY <1>4 DEF ReportUntracked, managerVars
<1> QED
  BY <1>2, <1>3, <1>4 DEF HandleChejan, HandleOrderChejan

LEMMA SubmitRefines ==
  ASSUME IInv, NEW r \in Request, NEW sent, SubmitAll(<<r>>, sent)
  PROVE  Protocol!Next
<1>0. ManagerTypeOK
  BY DEF IInv, TypeOK
<1>1. DOMAIN state' = Id /\ DOMAIN filled' = Id /\ filled' = filled
  BY <1>0 DEF SubmitAll, ManagerTypeOK
<1>2. \A i \in Id : i \in NewIds(Len(<<r>>)) => state[i] = "CREATED" /\ filled[i] = 0
  <2>1. \A i \in Id : i \in NewIds(Len(<<r>>)) => i > lastId
    BY <1>0 DEF NewIds, Id, ManagerTypeOK
  <2> QED
    BY <2>1 DEF IInv, Untouched
<1>3. ASSUME NEW i \in Id, i \in NewIds(Len(<<r>>)) PROVE Protocol!Move(i)
  <2>1. state'[i] \in {"SUBMITTED", "REJECTED"}
    BY <1>3 DEF SubmitAll
  <2>2. state[i] = "CREATED" /\ filled[i] = 0 /\ filled'[i] = 0
    BY <1>1, <1>2, <1>3
  <2>3. state'[i] \in ValidTransitions[state[i]]
    BY <2>1, <2>2 DEF ValidTransitions, OrderState
  <2> QED
    BY <2>1, <2>2, <2>3, SameTable DEF Protocol!Move
<1>4. ASSUME NEW i \in Id, i \notin NewIds(Len(<<r>>)) PROVE Protocol!Keep(i)
  BY <1>1, <1>4 DEF SubmitAll, Protocol!Keep
<1> QED
  BY <1>1, <1>3, <1>4 DEF Protocol!Next

\* Every order of the manager lives by the protocol, whatever reports arrive,
\* of its own orders or of others, in whatever faults: it moves along
\* VALID_TRANSITIONS, what it shows as executed never shrinks, and once it is
\* finished nothing changes it.
THEOREM OrderManagerImplementsProtocol == Spec => ImplementsProtocol
<1>1. Init => Protocol!Init
  BY DEF Init, ManagerInit, Protocol!Init
<1>2. IInv /\ [Next]_vars => [Protocol!Next]_<<state, filled>>
  <2> SUFFICES ASSUME IInv, [Next]_vars
               PROVE  [Protocol!Next]_<<state, filled>>
    OBVIOUS
  <2>1. CASE Select
    BY <2>1 DEF Select, SelectAccount
  <2>2. ASSUME NEW r \in Request, Submit(r) PROVE [Protocol!Next]_<<state, filled>>
    BY <2>2, SubmitRefines DEF Submit
  <2>3. CASE HandleChejan
    BY <2>3, HandleRefines
  <2>4. CASE UNCHANGED managerVars
    BY <2>4 DEF managerVars
  <2>5. ASSUME NEW n \in Number, Cancel(n) PROVE UNCHANGED managerVars
    BY <2>5 DEF Cancel, CancelOrder
  <2>6. ASSUME NEW n \in 1 .. Len(book), Trade(n) PROVE UNCHANGED managerVars
    BY <2>6 DEF Trade
  <2>7. Answering \/ Fault \/ UNCHANGED vars => UNCHANGED managerVars
    BY DEF Answering, Fault, vars, managerVars
  <2> QED
    BY <2>1, <2>2, <2>3, <2>4, <2>5, <2>6, <2>7 DEF Next
<1> QED
  BY <1>1, <1>2, Invariance, PTL DEF Spec, ImplementsProtocol, Protocol!Spec

-----------------------------------------------------------------------------
(* What the manager shows of its orders *)

\* The orders on their way to the exchange, and reports that give a number.
Owners == {outbox[k].owner : k \in DOMAIN outbox}
Answers(r) == r.status \in {"accepted", "rejected"}

\* Orders reach the exchange and get their numbers in the order of their ids,
\* for the code they were submitted for.
SentInOrder ==
  /\ \A j, k \in DOMAIN outbox : j < k => outbox[j].owner < outbox[k].owner
  /\ \A m, n \in DOMAIN book : m < n => book[m].owner < book[n].owner
  /\ \A n \in DOMAIN book, k \in DOMAIN outbox : book[n].owner < outbox[k].owner
  /\ \A k \in DOMAIN outbox :
       outbox[k].owner <= lastId /\ outbox[k].code = request[outbox[k].owner].code
  /\ \A n \in DOMAIN book :
       /\ book[n].owner \in Id /\ book[n].owner <= lastId
       /\ book[n].code = request[book[n].owner].code

\* A number comes before the larger ones, and an order waits exactly as long as
\* the report that gives its number is under way.
AnswersFirst ==
  /\ \A j, k \in DOMAIN wire : j < k /\ Answers(wire[k]) => wire[j].no < wire[k].no
  /\ \A n \in DOMAIN book :
       index[n] = 0 <=> \E k \in DOMAIN wire : wire[k].no = n /\ Answers(wire[k])
  /\ \A k \in DOMAIN wire : wire[k].no \in DOMAIN book /\ wire[k].code = book[wire[k].no].code

Waiting ==
  pending = Owners \cup {book[n].owner : n \in {m \in DOMAIN book : index[m] = 0}}

\* An open order has shares left; what the reports hold.
Contents ==
  /\ \A n \in DOMAIN book : book[n].status = "open" => book[n].done < book[n].qty
  /\ \A k \in DOMAIN wire :
       /\ Answers(wire[k]) => wire[k].exec = 0
       /\ wire[k].status = "executed" => wire[k].exec > 0
       /\ wire[k].status \in {"accepted", "confirmed"} => wire[k].unfilled > 0

\* After r the manager should show state s and f shares executed.
Says(r, s, f) ==
  /\ f = r.exec
  /\ s = IF r.status = "rejected" THEN "REJECTED"
         ELSE IF r.status = "cancelled" THEN "CANCELLED"
         ELSE IF r.exec = 0 THEN "ACCEPTED"
         ELSE IF r.unfilled = 0 THEN "FILLED" ELSE "PARTIAL_FILL"

\* The last report under way of an order says what the book says.
LastSays ==
  \A k \in DOMAIN wire :
    (\A j \in DOMAIN wire : j > k => wire[j].no # wire[k].no)
      => Says(wire[k], ShownState(book[wire[k].no]), book[wire[k].no].done)

\* Nothing is reported of an order after its end.
Final(r) == r.status \in {"rejected", "cancelled"} \/ (r.status = "executed" /\ r.unfilled = 0)
FinalLast ==
  /\ \A j, k \in DOMAIN wire : j < k /\ wire[j].no = wire[k].no => ~Final(wire[j])
  /\ \A j \in DOMAIN wire : Final(wire[j]) => book[wire[j].no].status # "open"

\* What is shown of an order that has a number; after its end no report is to
\* come.
ShownViews ==
  \A n \in Number : index[n] # 0 =>
    /\ state[index[n]] \in {"ACCEPTED", "PARTIAL_FILL"} \cup TerminalState
    /\ state[index[n]] = "ACCEPTED" => filled[index[n]] = 0
    /\ state[index[n]] = "PARTIAL_FILL" => filled[index[n]] > 0
    /\ state[index[n]] \in TerminalState => n \notin Awaited /\ book[n].status # "open"

\* The numbers are those of the exchange; without reports under way the views
\* are those of the book.
NumbersOwn ==
  \A n \in Number : index[n] # 0 => n \in DOMAIN book /\ book[n].owner = index[n]
ViewsTrue ==
  \A n \in DOMAIN book : n \notin Awaited =>
    /\ index[n] # 0
    /\ state[index[n]]  = ShownState(book[n])
    /\ filled[index[n]] = book[n].done

Undisturbed ==
  /\ SentInOrder /\ AnswersFirst /\ Waiting /\ Contents /\ LastSays /\ FinalLast
  /\ ShownViews /\ NumbersOwn /\ ViewsTrue

\* The types the following steps rest on.
LEMMA SystemTypes ==
  ASSUME TypeOK
  PROVE  /\ outbox \in Seq(Sent) /\ book \in Seq(Entry) /\ wire \in Seq(Report)
         /\ DOMAIN outbox = 1 .. Len(outbox) /\ DOMAIN book = 1 .. Len(book)
         /\ DOMAIN wire = 1 .. Len(wire)
         /\ Len(outbox) \in Nat /\ Len(book) \in Nat /\ Len(wire) \in Nat
         /\ Len(book) <= MaxNumber /\ MaxNumber \in Nat /\ DOMAIN book \subseteq Number
         /\ lastId \in Nat /\ pending \subseteq Id
         /\ \A n \in Number : index[n] \in Id \cup {0}
         /\ \A i \in Id : i \in Nat /\ i # 0
         /\ \A k \in DOMAIN outbox : outbox[k] \in Sent
         /\ \A n \in DOMAIN book : book[n] \in Entry
         /\ \A k \in DOMAIN wire : wire[k] \in Report /\ wire[k].no \in Number
<1>1. /\ outbox \in Seq(Sent) /\ book \in Seq(Entry) /\ wire \in Seq(Report)
      /\ Len(book) <= MaxNumber /\ MaxNumber \in Nat
      /\ lastId \in Nat /\ pending \subseteq Id
      /\ \A n \in Number : index[n] \in Id \cup {0}
      /\ \A i \in Id : i \in Nat /\ i # 0
  BY BoundAssumption DEF TypeOK, ManagerTypeOK, ExchangeTypeOK, Id
<1>2. /\ DOMAIN outbox = 1 .. Len(outbox) /\ DOMAIN book = 1 .. Len(book)
      /\ DOMAIN wire = 1 .. Len(wire)
      /\ Len(outbox) \in Nat /\ Len(book) \in Nat /\ Len(wire) \in Nat
      /\ \A k \in DOMAIN outbox : outbox[k] \in Sent
      /\ \A n \in DOMAIN book : book[n] \in Entry
      /\ \A k \in DOMAIN wire : wire[k] \in Report
  BY <1>1
<1>3. DOMAIN book \subseteq Number
  BY <1>1, <1>2 DEF Number
<1>4. \A k \in DOMAIN wire : wire[k].no \in Number
  BY <1>2 DEF Report
<1> QED
  BY <1>1, <1>2, <1>3, <1>4

LEMMA UndisturbedInit == Init => Undisturbed
<1> SUFFICES ASSUME Init PROVE Undisturbed
  OBVIOUS
<1> USE DEF Init, ManagerInit, ExchangeInit
<1>1. SentInOrder /\ AnswersFirst /\ Contents /\ LastSays /\ FinalLast /\ ViewsTrue
  BY DEF SentInOrder, AnswersFirst, Contents, LastSays, FinalLast, ViewsTrue
<1>2. Waiting
  BY DEF Waiting, Owners
<1>3. ShownViews /\ NumbersOwn
  BY DEF ShownViews, NumbersOwn
<1> QED
  BY <1>1, <1>2, <1>3 DEF Undisturbed

\* A submission: the newest id goes to the end of the outbox, or nowhere.
LEMMA UndisturbedSubmit ==
  ASSUME TypeOK, Undisturbed, NEW r \in Request, Submit(r)
  PROVE  Undisturbed'
<1> DEFINE new == lastId + 1
           s   == [owner |-> new, code |-> r.code, qty |-> r.qty]
<1>0. /\ lastId \in Nat /\ Len(<<r>>) = 1
      /\ request \in [Id -> Request \cup {NoRequest}] /\ state \in [Id -> OrderState]
  BY BoundAssumption DEF TypeOK, ManagerTypeOK
<1>1. /\ lastId' = new /\ NewIds(Len(<<r>>)) = {new} /\ new \in Id
      /\ UNCHANGED <<filled, number, index, book, wire>>
  BY <1>0, BoundAssumption DEF Submit, SubmitAll, ReceiveOrders, exchangeVars, NewIds, Id
<1>2. /\ \A i \in Id : i # new => request'[i] = request[i] /\ state'[i] = state[i]
      /\ request'[new].code = r.code
  <2>1. \A i \in Id : request'[i] = IF i \in NewIds(Len(<<r>>)) THEN <<r>>[i - lastId] ELSE request[i]
    BY DEF Submit, SubmitAll
  <2>2. \A i \in Id : i # new => state'[i] = state[i]
    BY <1>1 DEF Submit, SubmitAll
  <2>3. new - lastId = 1
    BY <1>0
  <2> QED
    BY <1>1, <2>1, <2>2, <2>3
<1>3. \/ outbox' = Append(outbox, s) /\ pending' = pending \cup {new}
      \/ outbox' = outbox /\ pending' = pending
  <2>1. CASE SubmitAll(<<r>>, {1}) /\ ReceiveOrders(<<s>>)
    <3>1. outbox' = outbox \o <<s>>
      BY <2>1 DEF ReceiveOrders
    <3>2. outbox' = Append(outbox, s)
      BY <3>1, SystemTypes
    <3>3. pending' = pending \cup {new}
      BY <1>0, <1>1, <2>1 DEF SubmitAll
    <3> QED
      BY <3>2, <3>3
  <2>2. CASE SubmitAll(<<r>>, {}) /\ UNCHANGED exchangeVars
    BY <2>2 DEF SubmitAll, exchangeVars
  <2> QED
    BY <2>1, <2>2 DEF Submit
<1>4. \A k \in DOMAIN outbox :
        /\ outbox[k].owner \in Id /\ outbox[k].owner # new
        /\ outbox[k].owner < new /\ outbox[k].owner <= new
        /\ outbox[k].code = request'[outbox[k].owner].code
  <2>1. \A k \in DOMAIN outbox : outbox[k].owner \in Id /\ outbox[k].owner \in Nat
    BY SystemTypes DEF Sent
  <2>2. \A k \in DOMAIN outbox :
          outbox[k].owner <= lastId /\ outbox[k].code = request[outbox[k].owner].code
    BY DEF Undisturbed, SentInOrder
  <2> QED
    BY <1>0, <1>2, <2>1, <2>2
<1>5. \A n \in DOMAIN book :
        /\ book[n].owner \in Id /\ book[n].owner # new
        /\ book[n].owner < new /\ book[n].owner <= new
        /\ book[n].code = request'[book[n].owner].code
  <2>1. \A n \in DOMAIN book :
          /\ book[n].owner \in Id /\ book[n].owner <= lastId
          /\ book[n].code = request[book[n].owner].code
    BY DEF Undisturbed, SentInOrder
  <2> QED
    BY <1>0, <1>2, <2>1, SystemTypes
<1>6. SentInOrder'
  <2>1. CASE outbox' = outbox
    BY <1>1, <1>4, <1>5, <2>1 DEF Undisturbed, SentInOrder
  <2>2. CASE outbox' = Append(outbox, s)
    <3> DEFINE last == Len(outbox) + 1
    <3>1. /\ DOMAIN outbox' = 1 .. last /\ outbox'[last].owner = new /\ outbox'[last].code = r.code
          /\ \A k \in DOMAIN outbox' : k = last \/ k \in DOMAIN outbox
          /\ \A k \in DOMAIN outbox : outbox'[k] = outbox[k]
          /\ \A k \in DOMAIN outbox : k < last
          /\ last \in Nat
      BY <2>2, SystemTypes
    <3> HIDE DEF last
    <3>2. \A j, k \in DOMAIN outbox' : j < k => outbox'[j].owner < outbox'[k].owner
      <4> SUFFICES ASSUME NEW j \in DOMAIN outbox', NEW k \in DOMAIN outbox', j < k
                   PROVE  outbox'[j].owner < outbox'[k].owner
        OBVIOUS
      <4>1. j \in Nat /\ k \in Nat /\ j # last
        BY <3>1
      <4> QED
        BY <1>4, <3>1, <4>1 DEF Undisturbed, SentInOrder
    <3>3. \A n \in DOMAIN book, k \in DOMAIN outbox' : book[n].owner < outbox'[k].owner
      BY <1>5, <3>1 DEF Undisturbed, SentInOrder
    <3>4. \A k \in DOMAIN outbox' :
            outbox'[k].owner <= new /\ outbox'[k].code = request'[outbox'[k].owner].code
      <4>1. outbox'[last].owner <= new /\ outbox'[last].code = request'[outbox'[last].owner].code
        BY <1>0, <1>2, <3>1
      <4> QED
        BY <1>4, <3>1, <4>1
    <3> QED
      BY <1>1, <1>5, <3>2, <3>3, <3>4 DEF Undisturbed, SentInOrder
  <2> QED
    BY <1>3, <2>1, <2>2
<1>7. Waiting'
  <2>1. CASE outbox' = outbox /\ pending' = pending
    BY <1>1, <2>1 DEF Undisturbed, Waiting, Owners
  <2>2. CASE outbox' = Append(outbox, s) /\ pending' = pending \cup {new}
    <3> DEFINE last == Len(outbox) + 1
    <3>1. /\ DOMAIN outbox' = 1 .. last /\ outbox'[last].owner = new
          /\ \A k \in DOMAIN outbox' : k = last \/ k \in DOMAIN outbox
          /\ \A k \in DOMAIN outbox : k \in DOMAIN outbox' /\ outbox'[k] = outbox[k]
          /\ last \in DOMAIN outbox'
      BY <2>2, SystemTypes
    <3> HIDE DEF last
    <3>2. Owners' = Owners \cup {new}
      BY <3>1 DEF Owners
    <3> QED
      BY <1>1, <2>2, <3>2 DEF Undisturbed, Waiting
  <2> QED
    BY <1>3, <2>1, <2>2
<1>8. NumbersOwn'
  BY <1>1 DEF Undisturbed, NumbersOwn
<1>9. \A n \in Number : index[n] # 0 => index[n] \in Id /\ state'[index[n]] = state[index[n]]
  BY <1>2, <1>5 DEF Undisturbed, NumbersOwn
<1>10. ShownViews'
  BY <1>1, <1>9 DEF Undisturbed, ShownViews, Awaited
<1>11. ViewsTrue'
  <2>1. DOMAIN book \subseteq Number
    BY SystemTypes
  <2> QED
    BY <1>1, <1>9, <2>1 DEF Undisturbed, ViewsTrue, Awaited
<1>12. AnswersFirst' /\ Contents' /\ LastSays' /\ FinalLast'
  BY <1>1, ZenonT(60) DEF Undisturbed, AnswersFirst, Contents, LastSays, FinalLast, ShownState
<1> QED
  BY <1>6, <1>7, <1>8, <1>10, <1>11, <1>12 DEF Undisturbed

\* A report that the exchange raises of an open order it has just updated.
LEMMA UndisturbedRaise ==
  ASSUME TypeOK, TypeOK', Undisturbed, UNCHANGED <<managerVars, outbox>>,
         NEW n \in DOMAIN book, NEW e, NEW r,
         book' = [book EXCEPT ![n] = e], wire' = Append(wire, r),
         book[n].status = "open", e.owner = book[n].owner, e.code = book[n].code,
         e.status = "open" => e.done < e.qty,
         r.no = n, r.code = book[n].code, ~Answers(r),
         r.status = "executed" => r.exec > 0,
         r.status = "confirmed" => r.unfilled > 0,
         Final(r) => e.status # "open",
         Says(r, ShownState(e), e.done)
  PROVE  Undisturbed'
<1> DEFINE last == Len(wire) + 1
<1>1. /\ DOMAIN book' = DOMAIN book /\ book'[n] = e
      /\ \A m \in DOMAIN book : m # n => book'[m] = book[m]
      /\ \A m \in DOMAIN book : book'[m].owner = book[m].owner /\ book'[m].code = book[m].code
  BY SystemTypes
<1>2. /\ wire'[last] = r /\ last \in DOMAIN wire' /\ last \in Nat
      /\ \A k \in DOMAIN wire' : k \in Nat /\ k <= last
      /\ \A k \in DOMAIN wire' : k = last \/ k \in DOMAIN wire
      /\ \A k \in DOMAIN wire : k \in DOMAIN wire' /\ wire'[k] = wire[k] /\ k < last
  BY SystemTypes
<1>3. UNCHANGED <<lastId, request, state, filled, number, pending, index>>
  BY DEF managerVars
<1>4. Awaited' = Awaited \cup {n}
  BY <1>2 DEF Awaited
<1>5. \A k \in DOMAIN wire : k # last
  BY <1>2, SystemTypes
<1> HIDE DEF last
<1>6. SentInOrder'
  BY <1>1, <1>3 DEF Undisturbed, SentInOrder
<1>7. AnswersFirst'
  <2>1. \A j, k \in DOMAIN wire' : j < k /\ Answers(wire'[k]) => wire'[j].no < wire'[k].no
    <3> SUFFICES ASSUME NEW j \in DOMAIN wire', NEW k \in DOMAIN wire', j < k, Answers(wire'[k])
                 PROVE  wire'[j].no < wire'[k].no
      OBVIOUS
    <3>1. k # last
      BY <1>2
    <3>2. j # last
      BY <1>2
    <3> QED
      BY <1>2, <3>1, <3>2 DEF Undisturbed, AnswersFirst
  <2>2. \A m \in DOMAIN book :
          (\E k \in DOMAIN wire' : wire'[k].no = m /\ Answers(wire'[k]))
            <=> (\E k \in DOMAIN wire : wire[k].no = m /\ Answers(wire[k]))
    BY <1>2
  <2>3. \A k \in DOMAIN wire' : wire'[k].no \in DOMAIN book /\ wire'[k].code = book[wire'[k].no].code
    BY <1>2 DEF Undisturbed, AnswersFirst
  <2>4. \A k \in DOMAIN wire' : wire'[k].code = book'[wire'[k].no].code
    BY <1>1, <2>3
  <2> QED
    BY <1>1, <1>3, <2>1, <2>2, <2>3, <2>4 DEF Undisturbed, AnswersFirst
<1>8. Waiting'
  BY <1>1, <1>3 DEF Undisturbed, Waiting, Owners
<1>9. Contents'
  <2>1. \A m \in DOMAIN book' : book'[m].status = "open" => book'[m].done < book'[m].qty
    BY <1>1 DEF Undisturbed, Contents
  <2>2. ~(r.status \in {"accepted", "rejected"})
    BY DEF Answers
  <2>3. \A k \in DOMAIN wire' :
          /\ Answers(wire'[k]) => wire'[k].exec = 0
          /\ wire'[k].status = "executed" => wire'[k].exec > 0
          /\ wire'[k].status \in {"accepted", "confirmed"} => wire'[k].unfilled > 0
    BY <1>2, <2>2 DEF Undisturbed, Contents
  <2> QED
    BY <2>1, <2>3 DEF Contents
<1>10. LastSays'
  <2> SUFFICES ASSUME NEW k \in DOMAIN wire',
                      \A j \in DOMAIN wire' : j > k => wire'[j].no # wire'[k].no
               PROVE  Says(wire'[k], ShownState(book'[wire'[k].no]), book'[wire'[k].no].done)
    BY DEF LastSays, ShownState
  <2>1. CASE k = last
    BY <1>1, <1>2, <2>1
  <2>2. CASE k # last
    <3>1. k \in DOMAIN wire /\ wire'[k] = wire[k] /\ last > k
      BY <1>2, <2>2
    <3>2. wire[k].no # n /\ wire[k].no \in DOMAIN book
      BY <1>2, <3>1 DEF Undisturbed, AnswersFirst
    <3>3. \A j \in DOMAIN wire : j > k => wire[j].no # wire[k].no
      BY <1>2, <3>1
    <3>4. Says(wire[k], ShownState(book[wire[k].no]), book[wire[k].no].done)
      BY <3>1, <3>3 DEF Undisturbed, LastSays
    <3> QED
      BY <1>1, <3>1, <3>2, <3>4
  <2> QED
    BY <2>1, <2>2
<1>11. FinalLast'
  <2>1. \A j \in DOMAIN wire : Final(wire[j]) => wire[j].no # n /\ wire[j].no \in DOMAIN book
    BY DEF Undisturbed, FinalLast, AnswersFirst
  <2>2. \A j \in DOMAIN wire' : Final(wire'[j]) => book'[wire'[j].no].status # "open"
    BY <1>1, <1>2, <2>1 DEF Undisturbed, FinalLast
  <2>3. \A j, k \in DOMAIN wire' : j < k /\ wire'[j].no = wire'[k].no => ~Final(wire'[j])
    <3> SUFFICES ASSUME NEW j \in DOMAIN wire', NEW k \in DOMAIN wire', j < k,
                        wire'[j].no = wire'[k].no
                 PROVE  ~Final(wire'[j])
      OBVIOUS
    <3>1. j # last
      BY <1>2
    <3> QED
      BY <1>2, <2>1, <3>1 DEF Undisturbed, FinalLast
  <2> QED
    BY <2>2, <2>3 DEF FinalLast
<1>12. NumbersOwn'
  BY <1>1, <1>3 DEF Undisturbed, NumbersOwn
<1>13. ShownViews'
  <2>1. \A m \in Number : index[m] # 0 => m \in DOMAIN book
    BY DEF Undisturbed, NumbersOwn
  <2> QED
    BY <1>1, <1>3, <1>4, <2>1 DEF Undisturbed, ShownViews
<1>14. ViewsTrue'
  <2>1. \A m \in DOMAIN book' : m \notin Awaited' => m \notin Awaited /\ book'[m] = book[m]
    BY <1>1, <1>4
  <2>2. \A m \in DOMAIN book' : m \notin Awaited' =>
          /\ index'[m] # 0 /\ state'[index'[m]] = ShownState(book'[m])
          /\ filled'[index'[m]] = book'[m].done
    BY <1>1, <1>3, <2>1 DEF Undisturbed, ViewsTrue
  <2> QED
    BY <2>2 DEF ViewsTrue, ShownState
<1> QED
  BY <1>6, <1>7, <1>8, <1>9, <1>10, <1>11, <1>12, <1>13, <1>14 DEF Undisturbed

LEMMA UndisturbedExecute ==
  ASSUME TypeOK, TypeOK', Undisturbed, UNCHANGED managerVars,
         NEW n \in DOMAIN book, NEW q \in 1 .. MaxQty, Execute(n, q)
  PROVE  Undisturbed'
<1> DEFINE done == book[n].done + q
           e    == Updated(book[n], done, IF done = book[n].qty THEN "filled" ELSE "open")
           r    == ReportOn(n, e, "executed", e.qty - done)
<1>1. /\ book' = [book EXCEPT ![n] = e] /\ wire' = Append(wire, r)
      /\ book[n].status = "open" /\ q <= book[n].qty - book[n].done /\ outbox' = outbox
  BY DEF Execute, Raise
<1>2. /\ book[n] \in Entry /\ book[n].done \in Nat /\ book[n].qty \in Nat /\ q \in Nat /\ q > 0
  BY BoundAssumption, SystemTypes, EntryFacts
<1>3. done \in Nat /\ done > 0 /\ done <= book[n].qty
  BY <1>1, <1>2
<1>4. /\ e.owner = book[n].owner /\ e.code = book[n].code /\ e.done = done /\ e.qty = book[n].qty
      /\ e.status = IF done = book[n].qty THEN "filled" ELSE "open"
      /\ r.no = n /\ r.code = book[n].code /\ r.status = "executed" /\ r.exec = done
      /\ r.unfilled = book[n].qty - done
  BY DEF Updated, ReportOn
<1> HIDE DEF done, e, r
<1>5. (e.status = "open" => e.done < e.qty) /\ ~Answers(r) /\ (Final(r) => e.status # "open")
  BY <1>2, <1>3, <1>4 DEF Answers, Final
<1>6. Says(r, ShownState(e), e.done)
  BY <1>2, <1>3, <1>4 DEF Says, ShownState
<1>7. /\ r.status = "executed" => r.exec > 0
      /\ r.status = "confirmed" => r.unfilled > 0
  BY <1>3, <1>4
<1> QED
  BY <1>1, <1>4, <1>5, <1>6, <1>7, UndisturbedRaise

\* Steps that touch neither the orders nor the reports.
LEMMA UndisturbedQuiet ==
  ASSUME Undisturbed,
         UNCHANGED <<lastId, request, state, filled, pending, index, outbox, book, wire>>
  PROVE  Undisturbed'
<1>1. SentInOrder' /\ AnswersFirst'
  BY DEF Undisturbed, SentInOrder, AnswersFirst
<1>2. Waiting' /\ Contents'
  BY DEF Undisturbed, Waiting, Owners, Contents
<1>3. LastSays' /\ FinalLast'
  BY DEF Undisturbed, LastSays, FinalLast, ShownState
<1>4. NumbersOwn' /\ ShownViews'
  BY DEF Undisturbed, NumbersOwn, ShownViews, Awaited
<1>5. ViewsTrue'
  BY DEF Undisturbed, ViewsTrue, Awaited, ShownState
<1> QED
  BY <1>1, <1>2, <1>3, <1>4, <1>5 DEF Undisturbed

LEMMA UndisturbedCancel ==
  ASSUME TypeOK, TypeOK', Undisturbed, UNCHANGED managerVars,
         NEW n \in DOMAIN book, CancelRest(n) \/ ReceiveCancel(n)
  PROVE  Undisturbed'
<1>1. /\ book[n] \in Entry /\ book[n].done \in Nat /\ book[n].qty \in Nat
      /\ book[n].status = "open" => book[n].done < book[n].qty
      /\ outbox' = outbox
  BY BoundAssumption, SystemTypes, EntryFacts DEF Undisturbed, Contents, CancelRest, ReceiveCancel
<1>2. CASE CancelRest(n)
  <2> DEFINE e == Updated(book[n], book[n].done, "cancelled")
  <2>1. PICK u : Raise(ReportOn(n, book[n], "cancelled", u))
    BY <1>2 DEF CancelRest
  <2> DEFINE r == ReportOn(n, book[n], "cancelled", u)
  <2>2. book' = [book EXCEPT ![n] = e] /\ wire' = Append(wire, r) /\ book[n].status = "open"
    BY <1>2, <2>1 DEF CancelRest, Raise
  <2>3. /\ e.owner = book[n].owner /\ e.code = book[n].code /\ e.done = book[n].done
        /\ e.status = "cancelled"
        /\ r.no = n /\ r.code = book[n].code /\ r.status = "cancelled" /\ r.exec = book[n].done
    BY DEF Updated, ReportOn
  <2> HIDE DEF e, r
  <2>4. ~Answers(r) /\ Says(r, ShownState(e), e.done)
    BY <2>3 DEF Answers, Says, ShownState
  <2> QED
    BY <1>1, <2>2, <2>3, <2>4, UndisturbedRaise
<1>3. CASE ReceiveCancel(n) /\ book[n].status = "open"
  <2> DEFINE e == book[n]
             r == ReportOn(n, book[n], "confirmed", book[n].qty - book[n].done)
  <2>1. book' = [book EXCEPT ![n] = e] /\ wire' = Append(wire, r)
    <3>1. book' = book
      BY <1>3 DEF ReceiveCancel
    <3> QED
      BY <1>3, <3>1, SystemTypes DEF ReceiveCancel, Raise
  <2>2. /\ r.no = n /\ r.code = book[n].code /\ r.status = "confirmed" /\ r.exec = book[n].done
        /\ r.unfilled = book[n].qty - book[n].done
    BY DEF ReportOn
  <2>3. r.unfilled > 0
    BY <1>1, <1>3, <2>2
  <2> HIDE DEF r
  <2>4. ~Answers(r) /\ ~Final(r) /\ r.status # "executed" /\ Says(r, ShownState(e), e.done)
    BY <1>1, <1>3, <2>2, <2>3 DEF Answers, Final, Says, ShownState
  <2> QED
    BY <1>1, <1>3, <2>1, <2>2, <2>3, <2>4, UndisturbedRaise
<1>4. CASE ReceiveCancel(n) /\ book[n].status # "open"
  <2>1. UNCHANGED <<managerVars, outbox, book, wire>>
    BY <1>4 DEF ReceiveCancel
  <2> QED
    BY <2>1, UndisturbedQuiet DEF managerVars
<1> QED
  BY <1>2, <1>3, <1>4

\* The oldest order sent gets the next number.
LEMMA UndisturbedAnswer ==
  ASSUME TypeOK, TypeOK', Undisturbed, UNCHANGED managerVars, Answer
  PROVE  Undisturbed'
<1>1. PICK accept \in BOOLEAN :
        LET o == Head(outbox)
            e == NewEntry(o.owner, o.code, o.qty, IF accept THEN "open" ELSE "rejected")
        IN /\ book' = Append(book, e)
           /\ Raise(ReportOn(Len(book) + 1, e,
                             IF accept THEN "accepted" ELSE "rejected", e.qty))
  BY DEF Answer
<1> DEFINE o == Head(outbox)
           n == Len(book) + 1
           e == NewEntry(o.owner, o.code, o.qty, IF accept THEN "open" ELSE "rejected")
           r == ReportOn(n, e, IF accept THEN "accepted" ELSE "rejected", e.qty)
           last == Len(wire) + 1
<1>2. /\ book' = Append(book, e) /\ wire' = Append(wire, r) /\ outbox # <<>> /\ outbox' = Tail(outbox)
  BY <1>1 DEF Answer, Raise
<1>3. /\ e.owner = o.owner /\ e.code = o.code /\ e.qty = o.qty /\ e.done = 0
      /\ e.status = IF accept THEN "open" ELSE "rejected"
      /\ r.no = n /\ r.code = o.code /\ r.exec = 0 /\ r.unfilled = o.qty
      /\ r.status = IF accept THEN "accepted" ELSE "rejected"
  BY DEF NewEntry, ReportOn
<1> HIDE DEF e, r
<1>4. /\ o = outbox[1] /\ 1 \in DOMAIN outbox
      /\ \A k \in DOMAIN outbox' : /\ k + 1 \in DOMAIN outbox /\ outbox'[k] = outbox[k + 1]
                                   /\ k \in Nat /\ 1 < k + 1
      /\ \A k \in DOMAIN outbox : k = 1 \/ (k - 1 \in DOMAIN outbox' /\ outbox'[k - 1] = outbox[k])
  BY <1>2, SystemTypes
<1>5. /\ DOMAIN book' = DOMAIN book \cup {n} /\ book'[n] = e /\ n \in Nat
      /\ \A m \in DOMAIN book : book'[m] = book[m] /\ m < n /\ m # n /\ m \in Nat
  BY <1>2, SystemTypes
<1>6. /\ wire'[last] = r /\ last \in DOMAIN wire' /\ last \in Nat
      /\ \A k \in DOMAIN wire' : k \in Nat /\ k <= last
      /\ \A k \in DOMAIN wire' : k = last \/ k \in DOMAIN wire
      /\ \A k \in DOMAIN wire : k \in DOMAIN wire' /\ wire'[k] = wire[k] /\ k < last
  BY <1>2, SystemTypes
<1>7. UNCHANGED <<lastId, request, state, filled, number, pending, index>>
  BY DEF managerVars
<1>8. Awaited' = Awaited \cup {n}
  BY <1>3, <1>6 DEF Awaited
<1>9. /\ o.owner \in Id /\ o.qty > 0 /\ o.owner <= lastId /\ o.code = request[o.owner].code
      /\ \A m \in DOMAIN book : book[m].owner < o.owner
      /\ \A k \in DOMAIN outbox : outbox[k].owner \in Nat
  <2>1. o \in Sent
    BY <1>4, SystemTypes
  <2>2. o.owner \in Id /\ o.qty > 0
    <3>1. \A x \in Sent : x.owner \in Id /\ x.qty \in 1 .. MaxQty
      BY QtyAssumption DEF Sent
    <3>2. o.owner \in Id /\ o.qty \in 1 .. MaxQty
      BY <2>1, <3>1
    <3> QED
      BY <3>2, BoundAssumption
  <2>3. \A k \in DOMAIN outbox : outbox[k].owner \in Nat
    BY SystemTypes DEF Sent, Id
  <2> QED
    BY <1>4, <2>2, <2>3 DEF Undisturbed, SentInOrder
<1>10. index[n] = 0 /\ n \in Number
  <2>1. n \notin DOMAIN book
    BY <1>5
  <2>2. n \in Number
    BY <1>5, SystemTypes DEF Answer, Number
  <2> QED
    BY <2>1, <2>2 DEF Undisturbed, NumbersOwn
<1>11. \A k \in DOMAIN wire : wire[k].no \in DOMAIN book /\ wire[k].no # n /\ wire[k].no < n
  BY <1>5 DEF Undisturbed, AnswersFirst
<1> HIDE DEF o, n, last
<1>12. SentInOrder'
  <2>1. \A j, k \in DOMAIN outbox' : j < k => outbox'[j].owner < outbox'[k].owner
    <3> SUFFICES ASSUME NEW j \in DOMAIN outbox', NEW k \in DOMAIN outbox', j < k
                 PROVE  outbox'[j].owner < outbox'[k].owner
      OBVIOUS
    <3>1. j + 1 < k + 1 /\ j + 1 \in DOMAIN outbox /\ k + 1 \in DOMAIN outbox
      BY <1>4
    <3> QED
      BY <1>4, <3>1 DEF Undisturbed, SentInOrder
  <2>2. \A m, p \in DOMAIN book' : m < p => book'[m].owner < book'[p].owner
    <3> SUFFICES ASSUME NEW m \in DOMAIN book', NEW p \in DOMAIN book', m < p
                 PROVE  book'[m].owner < book'[p].owner
      OBVIOUS
    <3>1. m \in DOMAIN book
      BY <1>5
    <3> QED
      BY <1>3, <1>5, <1>9, <3>1 DEF Undisturbed, SentInOrder
  <2>3. \A k \in DOMAIN outbox' : o.owner < outbox'[k].owner
    <3> SUFFICES ASSUME NEW k \in DOMAIN outbox'
                 PROVE  o.owner < outbox'[k].owner
      OBVIOUS
    <3>1. 1 < k + 1 /\ k + 1 \in DOMAIN outbox
      BY <1>4
    <3> QED
      BY <1>4, <3>1 DEF Undisturbed, SentInOrder
  <2>4. \A m \in DOMAIN book', k \in DOMAIN outbox' : book'[m].owner < outbox'[k].owner
    BY <1>3, <1>4, <1>5, <2>3 DEF Undisturbed, SentInOrder
  <2>5. \A k \in DOMAIN outbox' :
          outbox'[k].owner <= lastId /\ outbox'[k].code = request[outbox'[k].owner].code
    BY <1>4 DEF Undisturbed, SentInOrder
  <2>6. \A m \in DOMAIN book' : /\ book'[m].owner \in Id /\ book'[m].owner <= lastId
                                /\ book'[m].code = request[book'[m].owner].code
    BY <1>3, <1>5, <1>9 DEF Undisturbed, SentInOrder
  <2> QED
    BY <1>7, <2>1, <2>2, <2>4, <2>5, <2>6 DEF SentInOrder
<1>13. AnswersFirst'
  <2>1. \A j, k \in DOMAIN wire' : j < k /\ Answers(wire'[k]) => wire'[j].no < wire'[k].no
    <3> SUFFICES ASSUME NEW j \in DOMAIN wire', NEW k \in DOMAIN wire', j < k, Answers(wire'[k])
                 PROVE  wire'[j].no < wire'[k].no
      OBVIOUS
    <3>1. j # last
      BY <1>6
    <3> QED
      BY <1>3, <1>6, <1>11, <3>1 DEF Undisturbed, AnswersFirst
  <2>2. \A m \in DOMAIN book :
          index[m] = 0 <=> \E k \in DOMAIN wire' : wire'[k].no = m /\ Answers(wire'[k])
    BY <1>3, <1>5, <1>6 DEF Undisturbed, AnswersFirst
  <2>3. \E k \in DOMAIN wire' : wire'[k].no = n /\ Answers(wire'[k])
    BY <1>3, <1>6 DEF Answers
  <2>4. \A k \in DOMAIN wire' : wire'[k].no \in DOMAIN book' /\ wire'[k].code = book'[wire'[k].no].code
    BY <1>3, <1>5, <1>6, <1>11 DEF Undisturbed, AnswersFirst
  <2> QED
    BY <1>5, <1>7, <1>10, <2>1, <2>2, <2>3, <2>4 DEF AnswersFirst
<1>14. Waiting'
  <2>1. Owners = Owners' \cup {o.owner}
    BY <1>4 DEF Owners
  <2>2. {book'[m].owner : m \in {p \in DOMAIN book' : index[p] = 0}}
          = {book[m].owner : m \in {p \in DOMAIN book : index[p] = 0}} \cup {o.owner}
    BY <1>3, <1>5, <1>10
  <2> QED
    BY <1>7, <2>1, <2>2 DEF Undisturbed, Waiting
<1>15. Contents'
  <2>1. \A m \in DOMAIN book' : book'[m].status = "open" => book'[m].done < book'[m].qty
    BY <1>3, <1>5, <1>9 DEF Undisturbed, Contents
  <2>2. \A k \in DOMAIN wire' :
          /\ Answers(wire'[k]) => wire'[k].exec = 0
          /\ wire'[k].status = "executed" => wire'[k].exec > 0
          /\ wire'[k].status \in {"accepted", "confirmed"} => wire'[k].unfilled > 0
    BY <1>3, <1>6, <1>9 DEF Undisturbed, Contents
  <2> QED
    BY <2>1, <2>2 DEF Contents
<1>16. LastSays'
  <2> SUFFICES ASSUME NEW k \in DOMAIN wire',
                      \A j \in DOMAIN wire' : j > k => wire'[j].no # wire'[k].no
               PROVE  Says(wire'[k], ShownState(book'[wire'[k].no]), book'[wire'[k].no].done)
    BY DEF LastSays, ShownState
  <2>1. CASE k = last
    <3>1. Says(r, ShownState(e), e.done)
      BY <1>3 DEF Says, ShownState
    <3> QED
      BY <1>3, <1>5, <1>6, <2>1, <3>1
  <2>2. CASE k # last
    <3>1. k \in DOMAIN wire /\ wire'[k] = wire[k]
      BY <1>6, <2>2
    <3>2. \A j \in DOMAIN wire : j > k => wire[j].no # wire[k].no
      BY <1>6, <3>1
    <3>3. Says(wire[k], ShownState(book[wire[k].no]), book[wire[k].no].done)
      BY <3>1, <3>2 DEF Undisturbed, LastSays
    <3> QED
      BY <1>5, <1>11, <3>1, <3>3
  <2> QED
    BY <2>1, <2>2
<1>17. FinalLast'
  <2>1. \A j, k \in DOMAIN wire' : j < k /\ wire'[j].no = wire'[k].no => ~Final(wire'[j])
    <3> SUFFICES ASSUME NEW j \in DOMAIN wire', NEW k \in DOMAIN wire', j < k,
                        wire'[j].no = wire'[k].no
                 PROVE  ~Final(wire'[j])
      OBVIOUS
    <3>1. j # last
      BY <1>6
    <3> QED
      BY <1>3, <1>6, <1>11, <3>1 DEF Undisturbed, FinalLast
  <2>2. Final(r) => e.status # "open"
    BY <1>3 DEF Final
  <2>3. \A j \in DOMAIN wire' : Final(wire'[j]) => book'[wire'[j].no].status # "open"
    BY <1>3, <1>5, <1>6, <1>11, <2>2 DEF Undisturbed, FinalLast
  <2> QED
    BY <2>1, <2>3 DEF FinalLast
<1>18. NumbersOwn'
  BY <1>5, <1>7 DEF Undisturbed, NumbersOwn
<1>19. ShownViews'
  <2>1. \A m \in Number : index[m] # 0 => m \in DOMAIN book /\ m # n
    BY <1>10 DEF Undisturbed, NumbersOwn
  <2> QED
    BY <1>5, <1>7, <1>8, <2>1 DEF Undisturbed, ShownViews
<1>20. ViewsTrue'
  <2>1. \A m \in DOMAIN book' : m \notin Awaited' => m \notin Awaited /\ m \in DOMAIN book
    BY <1>5, <1>8
  <2>2. \A m \in DOMAIN book' : m \notin Awaited' =>
          /\ index'[m] # 0 /\ state'[index'[m]] = ShownState(book'[m])
          /\ filled'[index'[m]] = book'[m].done
    BY <1>5, <1>7, <2>1 DEF Undisturbed, ViewsTrue
  <2> QED
    BY <2>2 DEF ViewsTrue, ShownState
<1> QED
  BY <1>12, <1>13, <1>14, <1>15, <1>16, <1>17, <1>18, <1>19, <1>20 DEF Undisturbed

\* Handling the oldest report: it is of a number the manager knows, or it gives
\* the first waiting order of its code its number, which is the order's own.
\* Either way the order now shows what the report says.
LEMMA ReportFindsItsOrder ==
  ASSUME IInv, Undisturbed, HandleChejan, NEW r, r = Head(wire)
  PROVE  LET i == book[r.no].owner
         IN /\ r.no \in DOMAIN book /\ i \in Id /\ index[r.no] \in {0, i}
            /\ Answers(r) <=> index[r.no] = 0
            /\ Says(r, state'[i], filled'[i])
            /\ index' = [index EXCEPT ![r.no] = i] /\ pending' = pending \ {i}
            /\ \A j \in Id : j # i => state'[j] = state[j] /\ filled'[j] = filled[j]
<1> DEFINE n == r.no
           i == book[n].owner
<1>0. TypeOK /\ Placement /\ FillsBehind /\ Untouched /\ wire # <<>>
  BY DEF IInv, HandleChejan, Deliver
<1>1. /\ r = wire[1] /\ 1 \in DOMAIN wire /\ r \in Report /\ n \in Number
      /\ n \in DOMAIN book /\ r.code = book[n].code
      /\ \A k \in DOMAIN wire : k = 1 \/ 1 < k
  BY <1>0, SystemTypes DEF Undisturbed, AnswersFirst
<1>2. /\ i \in Id /\ request[i].code = book[n].code
      /\ \A m \in DOMAIN book : m \in Nat /\ book[m].owner \in Nat
      /\ i \in Nat /\ i # 0
  <2>1. \A m \in DOMAIN book : book[m].owner \in Id
    BY DEF Undisturbed, SentInOrder
  <2>2. \A m \in DOMAIN book : m \in Nat
    BY <1>0, SystemTypes
  <2> QED
    BY <1>0, <1>1, <2>1, <2>2, SystemTypes DEF Undisturbed, SentInOrder
<1>3. index[n] = 0 \/ index[n] = i
  BY <1>1 DEF Undisturbed, NumbersOwn
<1>4. r.exec \in Nat /\ r.unfilled \in Nat /\ r.status \in Status
  BY <1>1 DEF Report
<1>5. /\ Answers(r) => r.exec = 0
      /\ r.status = "executed" => r.exec > 0
      /\ r.status \in {"accepted", "confirmed"} => r.unfilled > 0
  BY <1>1 DEF Undisturbed, Contents
<1>6. state \in [Id -> OrderState] /\ filled \in [Id -> 0 .. MaxQty] /\ index \in [Number -> Id \cup {0}]
  BY <1>0 DEF TypeOK, ManagerTypeOK
<1>7. Answers(r) <=> index[n] = 0
  <2>1. Answers(r) => index[n] = 0
    BY <1>1 DEF Undisturbed, AnswersFirst
  <2>2. ASSUME index[n] = 0 PROVE Answers(r)
    <3>1. PICK k \in DOMAIN wire : wire[k].no = n /\ Answers(wire[k])
      BY <1>1, <2>2 DEF Undisturbed, AnswersFirst
    <3>2. 1 < k => wire[1].no < wire[k].no
      BY <1>1, <3>1 DEF Undisturbed, AnswersFirst
    <3>3. ~(n < n)
      BY <1>1, <1>2
    <3> QED
      BY <1>1, <3>1, <3>2, <3>3
  <2> QED
    BY <2>1, <2>2
<1>8. ASSUME ApplyReport(i, r),
             \/ ~Answers(r) /\ state[i] \in {"ACCEPTED", "PARTIAL_FILL"}
             \/ Answers(r) /\ state[i] = "SUBMITTED",
             filled[i] \in Nat, filled[i] <= r.exec,
             state[i] = "PARTIAL_FILL" => filled[i] > 0,
             state[i] = "ACCEPTED" => filled[i] = 0
      PROVE  /\ Says(r, state'[i], filled'[i])
             /\ \A j \in Id : j # i => state'[j] = state[j] /\ filled'[j] = filled[j]
  <2> DEFINE d == DetermineState(r)
  <2>1. d = IF r.status = "rejected" THEN "REJECTED"
            ELSE IF r.status = "cancelled" THEN "CANCELLED"
            ELSE IF r.unfilled = 0 /\ r.exec > 0 THEN "FILLED"
            ELSE IF r.unfilled > 0 /\ r.exec > 0 THEN "PARTIAL_FILL"
            ELSE IF r.status = "accepted" THEN "ACCEPTED" ELSE "NONE"
    BY DEF DetermineState
  <2>2. \A t : t \in ValidTransitions[state[i]] <=>
          \/ state[i] = "SUBMITTED" /\ t \in {"ACCEPTED", "REJECTED"}
          \/ state[i] = "ACCEPTED" /\ t \in {"PARTIAL_FILL", "FILLED", "CANCELLED", "MODIFY_PENDING"}
          \/ state[i] = "PARTIAL_FILL" /\ t \in {"FILLED", "CANCELLED", "MODIFY_PENDING", "PARTIAL_FILL"}
    BY <1>8 DEF ValidTransitions, OrderState
  <2>3. r.status \in {"accepted", "confirmed", "executed", "cancelled", "rejected"}
    BY <1>4 DEF Status
  <2> HIDE DEF d
  <2>4. CASE d \in ValidTransitions[state[i]]
    <3>1. state' = [state EXCEPT ![i] = d] /\ filled' = [filled EXCEPT ![i] = IF r.exec > 0 THEN r.exec ELSE @]
      BY <1>8, <2>4 DEF ApplyReport, d
    <3>2. /\ state'[i] = d /\ filled'[i] = IF r.exec > 0 THEN r.exec ELSE filled[i]
          /\ \A j \in Id : j # i => state'[j] = state[j] /\ filled'[j] = filled[j]
      BY <1>2, <1>6, <3>1
    <3>3. filled'[i] = r.exec
      BY <1>4, <1>8, <3>2
    <3>4. d # "NONE"
      BY <2>2, <2>4
    <3>5. d = IF r.status = "rejected" THEN "REJECTED"
              ELSE IF r.status = "cancelled" THEN "CANCELLED"
              ELSE IF r.exec = 0 THEN "ACCEPTED"
              ELSE IF r.unfilled = 0 THEN "FILLED" ELSE "PARTIAL_FILL"
      BY <1>4, <2>1, <3>4
    <3> QED
      BY <3>2, <3>3, <3>5 DEF Says
  <2>5. CASE d \notin ValidTransitions[state[i]]
    <3>1. state' = state /\ filled' = filled
      BY <1>8, <2>5 DEF ApplyReport, d
    <3>2. r.status = "confirmed" /\ r.exec = 0
      <4>1. CASE Answers(r)
        <5>1. /\ state[i] = "SUBMITTED" /\ r.status \in {"accepted", "rejected"} /\ r.exec = 0
              /\ d \notin {"ACCEPTED", "REJECTED"}
          BY <1>5, <1>8, <2>2, <2>5, <4>1 DEF Answers
        <5> QED
          BY <2>1, <5>1
      <4>2. CASE ~Answers(r)
        <5>1. r.status \in {"confirmed", "executed", "cancelled"}
          BY <2>3, <4>2 DEF Answers
        <5>2. d \notin {"FILLED", "CANCELLED", "PARTIAL_FILL"}
          BY <1>8, <2>2, <2>5, <4>2
        <5>3. r.exec = 0
          BY <1>4, <2>1, <5>1, <5>2
        <5> QED
          BY <1>5, <2>1, <5>1, <5>2, <5>3
      <4> QED
        BY <4>1, <4>2
    <3>3. state[i] = "ACCEPTED" /\ filled[i] = 0
      BY <1>8, <3>2 DEF Answers
    <3> QED
      BY <3>1, <3>2, <3>3 DEF Says
  <2> QED
    BY <2>4, <2>5
<1>9. CASE index[n] # 0
  <2>1. index[n] = i /\ ~Answers(r)
    BY <1>3, <1>7, <1>9
  <2>2. n \in Awaited
    BY <1>1 DEF Awaited
  <2>3. /\ state[i] \in {"ACCEPTED", "PARTIAL_FILL"}
        /\ state[i] = "PARTIAL_FILL" => filled[i] > 0
        /\ state[i] = "ACCEPTED" => filled[i] = 0
    BY <1>1, <1>9, <2>1, <2>2 DEF Undisturbed, ShownViews
  <2>4. filled[i] \in Nat /\ filled[i] <= r.exec
    BY <1>0, <1>1, <1>2, <1>6, <1>9, <2>1 DEF FillsBehind
  <2>5. ReportOfKnown(r)
    BY <1>9 DEF HandleChejan, HandleOrderChejan, ReportAdopted, ReportUntracked
  <2>6. ApplyReport(i, r) /\ pending' = pending /\ index' = index
    BY <2>1, <2>5 DEF ReportOfKnown
  <2>7. i \notin pending
    BY <1>0, <1>1, <1>9, <2>1 DEF Placement
  <2>8. index' = [index EXCEPT ![n] = i]
    BY <1>1, <1>6, <2>1, <2>6
  <2>9. pending' = pending \ {i}
    BY <2>6, <2>7
  <2> QED
    BY <1>1, <1>2, <1>3, <1>7, <1>8, <2>1, <2>3, <2>4, <2>6, <2>8, <2>9
<1>10. CASE index[n] = 0
  <2>1. Answers(r)
    BY <1>7, <1>10
  <2>2. i \in pending
    BY <1>1, <1>10 DEF Undisturbed, Waiting
  <2>3. i \in PendingFor(r.code)
    BY <1>1, <1>2, <2>2 DEF PendingFor
  <2>4. ReportAdopted(r)
    BY <1>10, <2>3 DEF HandleChejan, HandleOrderChejan, ReportOfKnown, ReportUntracked
  <2>5. PICK p \in pending :
          /\ FirstPending(p, r.code)
          /\ pending' = pending \ {p}
          /\ number'  = [number EXCEPT ![p] = r.no]
          /\ index'   = [index EXCEPT ![r.no] = p]
          /\ ApplyReport(p, r)
    BY <2>4 DEF ReportAdopted
  <2>6. p <= i
    BY <2>3, <2>5 DEF FirstPending
  <2>7. p = i
    <3>1. CASE p \in Owners
      <4>1. PICK k \in DOMAIN outbox : p = outbox[k].owner
        BY <3>1 DEF Owners
      <4>2. i < p /\ p \in Nat
        BY <1>0, <1>1, <4>1, SystemTypes DEF Undisturbed, SentInOrder
      <4> QED
        BY <1>2, <2>6, <4>2
    <3>2. ASSUME NEW m \in DOMAIN book, index[m] = 0, p = book[m].owner PROVE p = i
      <4>1. PICK k \in DOMAIN wire : wire[k].no = m /\ Answers(wire[k])
        BY <3>2 DEF Undisturbed, AnswersFirst
      <4>2. CASE k = 1
        BY <1>1, <3>2, <4>1, <4>2
      <4>3. CASE k # 1
        <5>1. n < m
          BY <1>1, <4>1, <4>3 DEF Undisturbed, AnswersFirst
        <5>2. i < p
          BY <1>1, <3>2, <5>1 DEF Undisturbed, SentInOrder
        <5> QED
          BY <1>2, <2>6, <3>2, <5>2
      <4> QED
        BY <4>2, <4>3
    <3> QED
      BY <2>5, <3>1, <3>2 DEF Undisturbed, Waiting
  <2>8. state[i] = "SUBMITTED" /\ filled[i] = 0
    BY <1>0, <1>2, <2>2 DEF Placement, Untouched
  <2>9. /\ Says(r, state'[i], filled'[i])
        /\ \A j \in Id : j # i => state'[j] = state[j] /\ filled'[j] = filled[j]
    <3>1. filled[i] \in Nat /\ filled[i] <= r.exec
      BY <1>4, <2>8
    <3>2. ApplyReport(i, r)
      BY <2>5, <2>7
    <3> QED
      BY <1>8, <2>1, <2>8, <3>1, <3>2
  <2> QED
    BY <1>1, <1>2, <1>3, <1>7, <2>5, <2>7, <2>9
<1> QED
  BY <1>9, <1>10

LEMMA UndisturbedHandle ==
  ASSUME IInv, Undisturbed, HandleChejan
  PROVE  Undisturbed'
<1> DEFINE r == Head(wire)
           n == r.no
           i == book[n].owner
<1>0. /\ TypeOK /\ wire # <<>> /\ wire' = Tail(wire) /\ UNCHANGED <<outbox, book, lastId, request>>
  BY DEF IInv, HandleChejan, Deliver, HandleOrderChejan, ReportOfKnown, ReportAdopted,
         ReportUntracked, managerVars
<1>1. /\ n \in DOMAIN book /\ i \in Id /\ index[n] \in {0, i}
      /\ Answers(r) <=> index[n] = 0
      /\ Says(r, state'[i], filled'[i])
      /\ index' = [index EXCEPT ![n] = i] /\ pending' = pending \ {i}
      /\ \A j \in Id : j # i => state'[j] = state[j] /\ filled'[j] = filled[j]
  BY ReportFindsItsOrder
<1>2. /\ r = wire[1] /\ 1 \in DOMAIN wire /\ r \in Report
      /\ \A k \in DOMAIN wire' : /\ k + 1 \in DOMAIN wire /\ wire'[k] = wire[k + 1]
                                 /\ k \in Nat /\ 1 < k + 1
      /\ \A k \in DOMAIN wire : k = 1 \/ (1 < k /\ k - 1 \in DOMAIN wire' /\ wire'[k - 1] = wire[k])
      /\ \A k \in DOMAIN wire : k \in Nat
  BY <1>0, SystemTypes
<1>3. /\ index'[n] = i /\ i # 0
      /\ \A m \in Number : m # n => index'[m] = index[m]
      /\ n \in Number /\ DOMAIN book \subseteq Number
      /\ \A m \in DOMAIN book : m \in Nat
  <2>1. index \in [Number -> Id \cup {0}]
    BY <1>0 DEF TypeOK, ManagerTypeOK
  <2> QED
    BY <1>0, <1>1, <2>1, SystemTypes
<1> HIDE DEF r, n, i
<1>4. \A m \in DOMAIN book : m # n => book[m].owner # i
  <2> SUFFICES ASSUME NEW m \in DOMAIN book, m # n PROVE book[m].owner # i
    OBVIOUS
  <2>1. book[m].owner \in Nat /\ book[n].owner \in Nat
    BY <1>0, <1>1, SystemTypes DEF Undisturbed, SentInOrder
  <2>2. m < n \/ n < m
    BY <1>1, <1>3
  <2> QED
    BY <1>1, <2>1, <2>2 DEF Undisturbed, SentInOrder, i
<1>5. \A k \in DOMAIN outbox : outbox[k].owner # i
  <2> SUFFICES ASSUME NEW k \in DOMAIN outbox PROVE outbox[k].owner # i
    OBVIOUS
  <2>1. i < outbox[k].owner
    BY <1>1 DEF Undisturbed, SentInOrder, i
  <2> QED
    BY <1>0, <1>1, <2>1, SystemTypes
<1>6. \A k \in DOMAIN wire : k # 1 /\ Answers(wire[k]) => n < wire[k].no
  BY <1>2 DEF Undisturbed, AnswersFirst, n
<1>7. i = book[n].owner
  BY DEF i
<1>8. /\ r.exec \in Nat /\ r.unfilled \in Nat /\ r.status \in Status /\ n = r.no
  BY <1>2 DEF Report, n
<1>9. Awaited' \subseteq Awaited /\ \A m \in Awaited : m = n \/ m \in Awaited'
  BY <1>2, <1>8 DEF Awaited
<1>10. SentInOrder'
  BY <1>0 DEF Undisturbed, SentInOrder
<1>11. AnswersFirst'
  <2>1. \A j, k \in DOMAIN wire' : j < k /\ Answers(wire'[k]) => wire'[j].no < wire'[k].no
    <3> SUFFICES ASSUME NEW j \in DOMAIN wire', NEW k \in DOMAIN wire', j < k, Answers(wire'[k])
                 PROVE  wire'[j].no < wire'[k].no
      OBVIOUS
    <3>1. j + 1 < k + 1
      BY <1>2
    <3> QED
      BY <1>2, <3>1 DEF Undisturbed, AnswersFirst
  <2>2. ASSUME NEW m \in DOMAIN book
        PROVE  index'[m] = 0 <=> \E k \in DOMAIN wire' : wire'[k].no = m /\ Answers(wire'[k])
    <3>1. CASE m = n
      <4>1. \A k \in DOMAIN wire' : ~(wire'[k].no = n /\ Answers(wire'[k]))
        <5> SUFFICES ASSUME NEW k \in DOMAIN wire', wire'[k].no = n, Answers(wire'[k]) PROVE FALSE
          OBVIOUS
        <5>1. n < n
          BY <1>2, <1>6
        <5> QED
          BY <1>3, <5>1, <1>1
      <4> QED
        BY <1>3, <3>1, <4>1
    <3>2. CASE m # n
      <4>1. (\E k \in DOMAIN wire' : wire'[k].no = m /\ Answers(wire'[k]))
              <=> (\E k \in DOMAIN wire : wire[k].no = m /\ Answers(wire[k]))
        BY <1>2, <1>8, <3>2
      <4> QED
        BY <1>3, <3>2, <4>1 DEF Undisturbed, AnswersFirst
    <3> QED
      BY <3>1, <3>2
  <2>3. \A k \in DOMAIN wire' : wire'[k].no \in DOMAIN book /\ wire'[k].code = book[wire'[k].no].code
    BY <1>2 DEF Undisturbed, AnswersFirst
  <2> QED
    BY <1>0, <2>1, <2>2, <2>3 DEF AnswersFirst
<1>12. Waiting'
  <2>1. {book[m].owner : m \in {p \in DOMAIN book : index'[p] = 0}}
          = {book[m].owner : m \in {p \in DOMAIN book : index[p] = 0}} \ {i}
    BY <1>3, <1>4, <1>7
  <2>2. Owners' = Owners /\ i \notin Owners
    BY <1>0, <1>5 DEF Owners
  <2>3. pending = Owners \cup {book[m].owner : m \in {p \in DOMAIN book : index[p] = 0}}
    BY DEF Undisturbed, Waiting
  <2> QED
    BY <1>0, <1>1, <2>1, <2>2, <2>3 DEF Waiting
<1>13. Contents'
  BY <1>0, <1>2 DEF Undisturbed, Contents
<1>14. LastSays'
  <2> SUFFICES ASSUME NEW k \in DOMAIN wire',
                      \A j \in DOMAIN wire' : j > k => wire'[j].no # wire'[k].no
               PROVE  Says(wire'[k], ShownState(book[wire'[k].no]), book[wire'[k].no].done)
    BY <1>0 DEF LastSays, ShownState
  <2>1. \A j \in DOMAIN wire : j > k + 1 => wire[j].no # wire[k + 1].no
    <3> SUFFICES ASSUME NEW j \in DOMAIN wire, j > k + 1 PROVE wire[j].no # wire[k + 1].no
      OBVIOUS
    <3>1. j # 1 /\ j - 1 > k
      BY <1>2
    <3> QED
      BY <1>2, <3>1
  <2> QED
    BY <1>2, <2>1 DEF Undisturbed, LastSays
<1>15. FinalLast'
  <2>1. \A j, k \in DOMAIN wire' : j < k /\ wire'[j].no = wire'[k].no => ~Final(wire'[j])
    <3> SUFFICES ASSUME NEW j \in DOMAIN wire', NEW k \in DOMAIN wire', j < k,
                        wire'[j].no = wire'[k].no
                 PROVE  ~Final(wire'[j])
      OBVIOUS
    <3>1. j + 1 < k + 1
      BY <1>2
    <3> QED
      BY <1>2, <3>1 DEF Undisturbed, FinalLast
  <2>2. \A j \in DOMAIN wire' : Final(wire'[j]) => book[wire'[j].no].status # "open"
    BY <1>2 DEF Undisturbed, FinalLast
  <2> QED
    BY <1>0, <2>1, <2>2 DEF FinalLast
<1>16. NumbersOwn'
  <2> SUFFICES ASSUME NEW m \in Number, index'[m] # 0
               PROVE  m \in DOMAIN book /\ book[m].owner = index'[m]
    BY <1>0 DEF NumbersOwn
  <2>1. CASE m = n
    BY <1>1, <1>3, <1>7, <2>1
  <2>2. CASE m # n
    BY <1>3, <2>2 DEF Undisturbed, NumbersOwn
  <2> QED
    BY <2>1, <2>2
<1>17. \A m \in Number : m # n /\ index'[m] # 0 =>
         /\ index'[m] = index[m] /\ index[m] \in Id /\ index[m] # i
         /\ state'[index[m]] = state[index[m]] /\ filled'[index[m]] = filled[index[m]]
  <2> SUFFICES ASSUME NEW m \in Number, m # n, index'[m] # 0
               PROVE  index'[m] = index[m] /\ index[m] \in Id /\ index[m] # i
    BY <1>1
  <2>1. index'[m] = index[m] /\ m \in DOMAIN book /\ book[m].owner = index[m]
    BY <1>3 DEF Undisturbed, NumbersOwn
  <2> QED
    BY <1>0, <1>4, <2>1, SystemTypes
<1>18. /\ state'[i] \in {"ACCEPTED", "PARTIAL_FILL"} \cup TerminalState
       /\ state'[i] = "ACCEPTED" => filled'[i] = 0
       /\ state'[i] = "PARTIAL_FILL" => filled'[i] > 0
       /\ state'[i] \in TerminalState => Final(r)
  <2>1. /\ Answers(r) => r.exec = 0
        /\ r.status \in {"accepted", "confirmed"} => r.unfilled > 0
    BY <1>2 DEF Undisturbed, Contents
  <2> QED
    BY <1>1, <1>8, <2>1 DEF Says, TerminalState, Final, Answers, Status
<1>19. Final(r) => n \notin Awaited' /\ book[n].status # "open"
  <2> SUFFICES ASSUME Final(r) PROVE n \notin Awaited' /\ book[n].status # "open"
    OBVIOUS
  <2>1. \A k \in DOMAIN wire' : wire'[k].no # n
    BY <1>2, <1>8 DEF Undisturbed, FinalLast
  <2> QED
    BY <1>2, <1>8, <2>1 DEF Undisturbed, FinalLast, Awaited
<1>20. ShownViews'
  <2> SUFFICES ASSUME NEW m \in Number, index'[m] # 0
               PROVE  /\ state'[index'[m]] \in {"ACCEPTED", "PARTIAL_FILL"} \cup TerminalState
                      /\ state'[index'[m]] = "ACCEPTED" => filled'[index'[m]] = 0
                      /\ state'[index'[m]] = "PARTIAL_FILL" => filled'[index'[m]] > 0
                      /\ state'[index'[m]] \in TerminalState =>
                           m \notin Awaited' /\ book[m].status # "open"
    BY <1>0 DEF ShownViews
  <2>1. CASE m = n
    BY <1>3, <1>18, <1>19, <2>1
  <2>2. CASE m # n
    BY <1>9, <1>17, <2>2 DEF Undisturbed, ShownViews
  <2> QED
    BY <2>1, <2>2
<1>21. ViewsTrue'
  <2> SUFFICES ASSUME NEW m \in DOMAIN book, m \notin Awaited'
               PROVE  /\ index'[m] # 0 /\ state'[index'[m]] = ShownState(book[m])
                      /\ filled'[index'[m]] = book[m].done
    BY <1>0 DEF ViewsTrue, ShownState
  <2>1. CASE m = n
    <3>1. \A j \in DOMAIN wire : j > 1 => wire[j].no # wire[1].no
      <4> SUFFICES ASSUME NEW j \in DOMAIN wire, j > 1 PROVE wire[j].no # n
        BY <1>2, <1>8
      <4>1. j # 1
        BY <1>2
      <4> QED
        BY <1>2, <2>1, <4>1 DEF Awaited
    <3>2. Says(r, ShownState(book[n]), book[n].done)
      BY <1>2, <1>8, <3>1 DEF Undisturbed, LastSays
    <3> QED
      BY <1>1, <1>3, <2>1, <3>2 DEF Says
  <2>2. CASE m # n
    <3>1. m \notin Awaited
      BY <1>9, <2>2
    <3>2. index[m] # 0 /\ index'[m] # 0 /\ m \in Number
      BY <1>3, <2>2, <3>1 DEF Undisturbed, ViewsTrue
    <3> QED
      BY <1>17, <2>2, <3>1, <3>2 DEF Undisturbed, ViewsTrue
  <2> QED
    BY <2>1, <2>2
<1> QED
  BY <1>10, <1>11, <1>12, <1>13, <1>14, <1>15, <1>16, <1>20, <1>21 DEF Undisturbed

\* As long as there is no fault, all of it holds.
Faultless == faults = 0 => Undisturbed

LEMMA FaultlessNext == IInv /\ IInv' /\ Faultless /\ [Next]_vars => Faultless'
<1> SUFFICES ASSUME IInv, IInv', Faultless, [Next]_vars, faults' = 0 PROVE Undisturbed'
  BY DEF Faultless
<1>0. TypeOK /\ TypeOK' /\ faults \in Nat
  BY DEF IInv, TypeOK, ExchangeTypeOK
<1>1. faults = 0 /\ ~Fault
  <2>1. Fault => faults' = faults + 1
    BY DEF Fault, ForeignOrder, LoseReport
  <2>2. faults' = faults \/ Fault
    BY DEF Next, Select, exchangeVars, Submit, ReceiveOrders, Cancel, ReceiveCancel, HandleChejan,
           Deliver, Answering, Answer, Trade, Execute, CancelRest, vars
  <2> QED
    BY <1>0, <2>1, <2>2
<1>2. Undisturbed
  BY <1>1 DEF Faultless
<1>3. CASE Select
  BY <1>2, <1>3, UndisturbedQuiet DEF Select, SelectAccount, exchangeVars
<1>4. ASSUME NEW r \in Request, Submit(r) PROVE Undisturbed'
  BY <1>0, <1>2, <1>4, UndisturbedSubmit
<1>5. ASSUME NEW n \in Number, Cancel(n) PROVE Undisturbed'
  <2>1. n \in DOMAIN book
    BY <1>0, <1>5, SystemTypes DEF Cancel, Number
  <2> QED
    BY <1>0, <1>2, <1>5, <2>1, UndisturbedCancel DEF Cancel, CancelOrder
<1>6. CASE HandleChejan
  BY <1>2, <1>6, UndisturbedHandle
<1>7. CASE Answering
  BY <1>0, <1>2, <1>7, UndisturbedAnswer DEF Answering
<1>8. ASSUME NEW n \in 1 .. Len(book), Trade(n) PROVE Undisturbed'
  <2>1. n \in DOMAIN book
    BY <1>0, SystemTypes
  <2> QED
    BY <1>0, <1>2, <1>8, <2>1, UndisturbedExecute, UndisturbedCancel DEF Trade
<1>9. CASE UNCHANGED vars
  BY <1>2, <1>9, UndisturbedQuiet DEF vars
<1> QED
  BY <1>1, <1>3, <1>4, <1>5, <1>6, <1>7, <1>8, <1>9 DEF Next

LEMMA FaultlessAlways == Spec => [](IInv /\ Faultless)
<1>1. Init => Faultless
  BY UndisturbedInit DEF Faultless
<1> QED
  BY <1>1, FaultlessNext, Invariance, PTL DEF Spec

\* Without faults the number stored with an order is the one the exchange gave
\* it, although the handler goes by the code alone.
THEOREM NumbersAreOwn == Spec => []NumbersMatch
<1>1. IInv /\ Faultless => NumbersMatch
  <2> SUFFICES ASSUME IInv, Faultless, faults = 0, NEW n \in Number, index[n] # 0
               PROVE  n \in Numbers /\ book[n].owner = index[n]
    BY DEF NumbersMatch
  <2> QED
    BY SystemTypes DEF IInv, Faultless, Undisturbed, NumbersOwn, Numbers
<1> QED
  BY <1>1, FaultlessAlways, PTL

\* Without faults, the manager shows of every order of which no report is under
\* way what the exchange has.
THEOREM ViewsAgree == Spec => []ViewAgrees
<1>1. IInv /\ Faultless => ViewAgrees
  <2> SUFFICES ASSUME IInv, Faultless, faults = 0, NEW n \in Numbers \ Awaited
               PROVE  /\ index[n] # 0 /\ state[index[n]]  = ShownState(book[n])
                      /\ filled[index[n]] = book[n].done
    BY DEF ViewAgrees
  <2>1. n \in DOMAIN book
    BY SystemTypes DEF IInv, Numbers
  <2> QED
    BY <2>1 DEF Faultless, Undisturbed, ViewsTrue
<1> QED
  BY <1>1, FaultlessAlways, PTL

\* Without faults and with no report under way, get_active_orders lists the
\* orders that can still trade, no more and no fewer.
THEOREM ActiveOrdersAgree == Spec => []ActiveAgrees
<1>1. IInv /\ Faultless => ActiveAgrees
  <2> SUFFICES ASSUME IInv, Faultless, faults = 0, wire = <<>>
               PROVE  ActiveOrders = Owners
                        \cup {book[n].owner : n \in {m \in Numbers : book[m].status = "open"}}
    BY DEF ActiveAgrees, Owners
  <2> DEFINE Stored == {index[n] : n \in {m \in Number : index[m] # 0}}
  <2>0. /\ Undisturbed /\ TypeOK /\ Placement /\ Numbers = DOMAIN book /\ DOMAIN book \subseteq Number
        /\ DOMAIN wire = {}
    BY SystemTypes DEF IInv, Faultless, Numbers
  <2>1. \A n \in DOMAIN book : /\ index[n] # 0 /\ index[n] = book[n].owner
                              /\ state[book[n].owner] = ShownState(book[n])
    BY <2>0 DEF Undisturbed, ViewsTrue, NumbersOwn, Awaited
  <2>2. pending = Owners
    <3>1. {book[n].owner : n \in {m \in DOMAIN book : index[m] = 0}} = {}
      BY <2>1
    <3>2. pending = Owners \cup {book[n].owner : n \in {m \in DOMAIN book : index[m] = 0}}
      BY <2>0 DEF Undisturbed, Waiting
    <3> QED
      BY <3>1, <3>2
  <2>3. Stored = {book[n].owner : n \in DOMAIN book}
    BY <2>0, <2>1 DEF Undisturbed, NumbersOwn
  <2>4. \A i \in pending : state[i] \notin TerminalState
    BY <2>0 DEF Placement, TerminalState
  <2>5. \A n \in DOMAIN book : ShownState(book[n]) \notin TerminalState <=> book[n].status = "open"
    <3>1. \A n \in DOMAIN book : book[n].status \in Life
      BY <2>0, SystemTypes DEF Entry
    <3> QED
      BY <3>1 DEF ShownState, TerminalState, Life
  <2>6. ActiveOrders = {i \in pending \cup Stored : state[i] \notin TerminalState}
    BY DEF ActiveOrders
  <2> HIDE DEF Stored
  <2> QED
    BY <2>0, <2>1, <2>2, <2>3, <2>4, <2>5, <2>6
<1> QED
  BY <1>1, FaultlessAlways, PTL
=============================================================================
