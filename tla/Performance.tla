---------------------------- MODULE Performance ----------------------------
(***************************************************************************)
(* kiwoom_trader/backtest/performance.py on the trades and the equity of a *)
(* finished run. A ratio is the pair of its parts, written <<part, whole>>.*)
(***************************************************************************)
EXTENDS Integers, Sequences, SequencesExt, FiniteSets

\* The trades that are sales, and those of them with a profit and with a loss.
Sells(trades) == {k \in DOMAIN trades : trades[k].side = "SELL"}
Winners(trades) == {k \in Sells(trades) : trades[k].pnl > 0}
Losers(trades) == {k \in Sells(trades) : trades[k].pnl < 0}

ProfitIn(trades, ks) == SumFunctionOnSet([k \in ks |-> trades[k].pnl], ks)

Steeper(r, s) == r[1] * s[2] > s[1] * r[2]

\* calc_max_drawdown (Mutant: the peak stays where it began.)
FallStep(acc, e) ==
  LET peak == IF e > acc.peak THEN e ELSE acc.peak
      dd   == <<peak - e, peak>>
  IN [peak |-> peak, worst |-> IF peak > 0 /\ Steeper(dd, acc.worst) THEN dd ELSE acc.worst]
DrawdownFromStart(curve) ==
  FoldLeft(LAMBDA worst, e : IF Steeper(<<curve[1] - e, curve[1]>>, worst)
                             THEN <<curve[1] - e, curve[1]>> ELSE worst, <<0, 1>>, curve)
MaxDrawdown(curve) ==
  IF Len(curve) < 2 THEN <<0, 1>>
  ELSE FoldLeft(FallStep, [peak |-> curve[1], worst |-> <<0, 1>>], curve).worst

\* calc_max_consecutive_losses: a sale without profit counts as a loss.
LossStep(acc, t) ==
  LET now == IF t.pnl <= 0 THEN acc.now + 1 ELSE 0
  IN IF t.side # "SELL" THEN acc
     ELSE [now |-> now, most |-> IF now > acc.most THEN now ELSE acc.most]
MaxConsecutiveLosses(trades) == FoldLeft(LossStep, [now |-> 0, most |-> 0], trades).most

\* calc_avg_holding_period: first unmatched buy with next sale, of any code.
PairStep(acc, t) ==
  IF t.side = "BUY" THEN [acc EXCEPT !.queue = Append(@, t.time)]
  ELSE IF acc.queue = <<>> THEN acc
  ELSE [queue |-> Tail(acc.queue), sum |-> acc.sum + t.time - Head(acc.queue),
        pairs |-> acc.pairs + 1]
Paired(trades) == FoldLeft(PairStep, [queue |-> <<>>, sum |-> 0, pairs |-> 0], trades)
AvgHolding(trades) == <<Paired(trades).sum, Paired(trades).pairs>>

\* compute_all_metrics. The Sharpe ratio, of square roots, is left out.
Metrics(trades, curve) ==
  LET sells == Sells(trades)
  IN [drawdown |-> MaxDrawdown(curve),
      wins     |-> <<Cardinality(Winners(trades)), Cardinality(sells)>>,
      factor   |-> <<ProfitIn(trades, Winners(trades)), -ProfitIn(trades, Losers(trades))>>,
      average  |-> <<ProfitIn(trades, sells), Cardinality(sells)>>,
      streak   |-> MaxConsecutiveLosses(trades),
      holding  |-> AvgHolding(trades)]
=============================================================================
