-------------------------------- MODULE Broker --------------------------------
(***************************************************************************)
(* The account at the broker, as risk_manager.py and position_tracker.py   *)
(* meet it: market orders execute in whole or in parts at the price of the *)
(* moment or are refused, and each execution raises one balance report     *)
(* (chejan gubun 1), delivered in the order they were raised. None of it   *)
(* is code of this repository.                                             *)
(***************************************************************************)
EXTENDS TradingData, Sequences

CONSTANTS
  MaxWorking,     \* bound: orders of one kind at the exchange at once
  MaxBalances     \* bound: balance reports under way at once

ASSUME BrokerAssumption == MaxWorking \in Nat /\ MaxBalances \in Nat

VARIABLES
  price,          \* the market price of each code
  holdings,       \* the shares held, and their average price
  working,        \* how many orders of each kind are at the exchange
  balances        \* balance reports not yet handled, oldest first

brokerVars == <<price, holdings, working, balances>>

Holding == [qty : 0 .. MaxQty, avg : Nat]

BrokerTypeOK ==
  /\ price \in [Code -> Price]
  /\ holdings \in [Code -> Holding]
  /\ working \in [Order -> 0 .. MaxWorking]
  /\ balances \in Seq(Balance)

BrokerInit ==
  /\ price \in [Code -> Price]
  /\ holdings = [c \in Code |-> [qty |-> 0, avg |-> 0]]
  /\ working = [o \in Order |-> 0]
  /\ balances = <<>>

\* Orders of the side at the exchange.
Working(side) == {o \in Order : o.side = side /\ working[o] > 0}

\* SendOrder of each of the orders.
Place(orders) ==
  /\ \A o \in orders : working[o] < MaxWorking
  /\ working' = [o \in Order |-> IF o \in orders THEN working[o] + 1 ELSE working[o]]

\* What is left of order o when q shares of it are executed.
Rest(o, q) == [code |-> o.code, side |-> o.side, qty |-> o.qty - q]

\* What the account holds of the code of o when q shares of it are executed.
Executed(o, q) ==
  LET h == holdings[o.code]
      p == price[o.code]
  IN IF o.side = "SELL" THEN [qty |-> h.qty - q, avg |-> IF h.qty = q THEN 0 ELSE h.avg]
     ELSE [qty |-> h.qty + q, avg |-> (h.avg * h.qty + p * q) \div (h.qty + q)]

\* q shares of order o are executed.
Execute(o, q) ==
  /\ working[o] > 0
  /\ Len(balances) < MaxBalances
  /\ IF o.side = "SELL" THEN q <= holdings[o.code].qty
                        ELSE holdings[o.code].qty + q <= MaxQty
  /\ q < o.qty => working[Rest(o, q)] < MaxWorking
  /\ working' = [r \in Order |-> IF r = o THEN working[r] - 1
                                 ELSE IF q < o.qty /\ r = Rest(o, q) THEN working[r] + 1
                                 ELSE working[r]]
  /\ LET h == Executed(o, q)
     IN /\ holdings' = [holdings EXCEPT ![o.code] = h]
        /\ balances' = Append(balances, [code |-> o.code, qty |-> h.qty, avg |-> h.avg,
                                         cur |-> price[o.code]])
  /\ UNCHANGED price

\* Order o comes to nothing: a buy for lack of funds, a sell of shares that
\* are not there.
Refuse(o) ==
  /\ working[o] > 0
  /\ o.side = "SELL" => o.qty > holdings[o.code].qty
  /\ working' = [working EXCEPT ![o] = @ - 1]
  /\ UNCHANGED <<price, holdings, balances>>

\* The oldest balance report is being handled.
DeliverBalance ==
  /\ balances # <<>>
  /\ balances' = Tail(balances)
  /\ UNCHANGED <<price, holdings, working>>
=============================================================================
