----------------------------- MODULE OrderModels -----------------------------
(***************************************************************************)
(* The order life cycle of kiwoom_trader/core/models.py: the states an     *)
(* order can be in and the table of legal transitions between them.        *)
(* Everything that moves an order goes through this table                  *)
(* (OrderManager._transition_state), so the modules that model the manager *)
(* and the one that says what it promises share it.                        *)
(***************************************************************************)

OrderState ==
  {"CREATED", "SUBMITTED", "ACCEPTED", "PARTIAL_FILL", "FILLED",
   "CANCELLED", "REJECTED", "MODIFY_PENDING"}

\* "Terminal states -- orders in these states cannot transition further"
TerminalState == {"FILLED", "CANCELLED", "REJECTED"}

\* Mutant: the row of PARTIAL_FILL lacks FILLED.
PartialNeverFilled ==
  [s \in OrderState |->
     {t \in OrderState :
        \/ s = "CREATED"        /\ t \in {"SUBMITTED", "REJECTED"}
        \/ s = "SUBMITTED"      /\ t \in {"ACCEPTED", "REJECTED"}
        \/ s = "ACCEPTED"       /\ t \in {"PARTIAL_FILL", "FILLED", "CANCELLED",
                                          "MODIFY_PENDING"}
        \/ s = "PARTIAL_FILL"   /\ t \in {"CANCELLED", "MODIFY_PENDING", "PARTIAL_FILL"}
        \/ s = "MODIFY_PENDING" /\ t \in {"ACCEPTED", "REJECTED"}}]

\* VALID_TRANSITIONS. The dict has no key for a terminal state and
\* _transition_state reads it with .get(state, set()).
ValidTransitions ==
  [s \in OrderState |->
     {t \in OrderState :
        \/ s = "CREATED"        /\ t \in {"SUBMITTED", "REJECTED"}
        \/ s = "SUBMITTED"      /\ t \in {"ACCEPTED", "REJECTED"}
        \/ s = "ACCEPTED"       /\ t \in {"PARTIAL_FILL", "FILLED", "CANCELLED",
                                          "MODIFY_PENDING"}
        \/ s = "PARTIAL_FILL"   /\ t \in {"FILLED", "CANCELLED", "MODIFY_PENDING",
                                          "PARTIAL_FILL"}
        \/ s = "MODIFY_PENDING" /\ t \in {"ACCEPTED", "REJECTED"}}]
=============================================================================
