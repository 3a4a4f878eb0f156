-------------------------- MODULE ConditionEngine --------------------------
(***************************************************************************)
(* kiwoom_trader/core/condition_engine.py. A context is the dictionary a   *)
(* rule is evaluated in, in two parts: `now` holds the values, `prev` those*)
(* under the names with the suffix "_prev". A name it does not hold makes  *)
(* the condition false. The rules of the program nest at most once.        *)
(***************************************************************************)
EXTENDS Integers

CONSTANTS
  NoRef,                  \* value_ref is not given
  NoValue                 \* a threshold that is not known

\* _resolve_threshold
Threshold(cond, values) ==
  IF cond.ref = NoRef THEN cond.value
  ELSE IF cond.ref \in DOMAIN values THEN values[cond.ref] ELSE NoValue

Crosses(operator, was, is, limitWas, limit) ==
  \/ operator = "cross_above" /\ was <= limitWas /\ is > limit
  \/ operator = "cross_below" /\ was >= limitWas /\ is < limit

Compares(operator, is, limit) ==
  \/ operator = "gt"  /\ is > limit
  \/ operator = "lt"  /\ is < limit
  \/ operator = "gte" /\ is >= limit
  \/ operator = "lte" /\ is <= limit

\* _eval_condition
EvalCondition(cond, context) ==
  LET limit == Threshold(cond, context.now)
  IN /\ limit # NoValue
     /\ cond.indicator \in DOMAIN context.now
     /\ IF cond.operator \in {"cross_above", "cross_below"}
        THEN /\ cond.indicator \in DOMAIN context.prev
             /\ Threshold(cond, context.prev) # NoValue
             /\ Crosses(cond.operator, context.prev[cond.indicator],
                        context.now[cond.indicator], Threshold(cond, context.prev), limit)
        ELSE Compares(cond.operator, context.now[cond.indicator], limit)

Combined(logic, items, Holds(_)) ==
  IF logic = "AND" THEN \A i \in items : Holds(i) ELSE \E i \in items : Holds(i)

\* evaluate
Evaluate(rule, context) ==
  LET Single(cond) == EvalCondition(cond, context)
      Item(item)   == IF "logic" \in DOMAIN item
                      THEN Combined(item.logic, item.conditions, Single)
                      ELSE Single(item)
  IN Combined(rule.logic, rule.conditions, Item)
=============================================================================
