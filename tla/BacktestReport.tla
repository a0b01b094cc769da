---------------------------- MODULE BacktestReport ----------------------------
(***************************************************************************)
(* calculate_metrics of src/src/backtest/report.py over the trades and the *)
(* curve of a run of Backtest: the sums a reader of the report compares    *)
(* with the final capital, and the maximum drawdown, in hundredths of a    *)
(* percent.  Ratios, roots and the formatting are left out.                *)
(***************************************************************************)
EXTENDS Backtest, FiniteSetsExt, Loops

\* The sum of a value over the trades.
Total(value) == SumTo([i \in DOMAIN trades |-> value[trades[i]]], Len(trades))

\* Only sales have a pnl.
Gain == [t \in Trade |-> IF t.side = "sell" /\ t.pnl > 0 THEN t.pnl ELSE 0]

Loss == [t \in Trade |-> IF t.side = "sell" /\ t.pnl < 0 THEN -t.pnl ELSE 0]

PaidFee == [t \in Trade |-> t.fee]

SaleFee == [t \in Trade |-> IF t.side = "sell" THEN t.fee ELSE 0]

GrossProfit == Total(Gain)

GrossLoss == Total(Loss)

TotalFee == Total(PaidFee)

FeesOfSales == Total(SaleFee)

\* From one point of the curve to another, as a part of the first.
Fall(v, peak) == ((v - peak) * 10000) \div peak

\* Mutant: the peak stays the first point.
Drawdown_FromStart(curve) ==
  [i \in Nat |-> [dd \in [peak : Nat, worst : Int] |->
    LET fall == IF curve[1] > 0 THEN Fall(curve[i], curve[1]) ELSE 0
    IN [peak |-> curve[1], worst |-> IF fall < dd.worst THEN fall ELSE dd.worst]]]

\* A pass of the loop over the curve, with the peak so far.
Drawdown(curve) ==
  [i \in Nat |-> [dd \in [peak : Nat, worst : Int] |->
    LET peak == IF curve[i] > dd.peak THEN curve[i] ELSE dd.peak
        fall == IF peak > 0 THEN Fall(curve[i], peak) ELSE 0
    IN [peak |-> peak, worst |-> IF fall < dd.worst THEN fall ELSE dd.worst]]]

MaxDrawdown(curve) ==
  IF curve = <<>> THEN 0
  ELSE LoopTo(Drawdown(curve), [peak |-> curve[1], worst |-> 0], Len(curve)).worst

-----------------------------------------------------------------------------
\* The report can be reconciled with the account: what was gained or lost is
\* gross profit less gross loss, less the fees of the purchases, which no pnl
\* contains.
BooksAgree ==
  capital + position.basis - InitialCapital
    = GrossProfit - GrossLoss - (TotalFee - FeesOfSales)

\* The pairs of points of which the first is worth something.
LaterPoints(curve) ==
  {p \in (DOMAIN curve) \X (DOMAIN curve) : p[1] < p[2] /\ curve[p[1]] > 0}

\* The drawdown found in one pass is the deepest fall between any point of the
\* curve and any later one.
DrawdownIsDeepest ==
  MaxDrawdown(equity)
    = Min({0} \union {Fall(equity[p[2]], equity[p[1]]) : p \in LaterPoints(equity)})

\* The drawdown and the final capital of a report tell one story: the curve ends
\* where the account does, but for slippage and fee of a sale after the last
\* candle, which no point of the curve shows.
CurveMeetsCapital ==
  bar > Bars =>
    \/ equity[Len(equity)] = capital
    \/ /\ trades # <<>>
       /\ LET t == trades[Len(trades)]
              proceeds == t.basis + t.pnl + t.fee
              worth == equity[Len(equity)] - (capital - (proceeds - t.fee))
          IN proceeds = Slipped(worth)

=============================================================================
