-------------------------- MODULE MCAccountSession --------------------------
(* AccountSession on a small instance: two accounts, the first of the list *)
(* the stock account.                                                      *)
EXTENDS AccountSession

CONSTANTS stock, futures, c1, c2

MCAccounts    == {stock, futures}
MCAccountList == <<stock, futures>>
MCCodes       == {c1, c2}

\* The stock account holds every stock, the other one of them.
MCHoldings == {[a \in MCAccounts |-> [c \in Code |-> IF a = stock \/ c = c1 THEN 1 ELSE 0]]}
=============================================================================
