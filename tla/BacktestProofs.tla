---------------------------- MODULE BacktestProofs ----------------------------
(***************************************************************************)
(* Proofs about Backtest and the report on it, for any number of candles,  *)
(* any prices, sizes and parameters of the strategy.  The inductive        *)
(* invariant adds to the properties what an open position looks like: its  *)
(* floor is the hard stop percentage of its price, and the last close lies *)
(* above that floor.  The report's sums are followed trade by trade, and   *)
(* its drawdown pass by pass over the curve.                               *)
(***************************************************************************)
EXTENDS BacktestReport, LoopTheorems

\* The floor of an open position, and where the last candle left it.
PositionOK ==
  Holding =>
    /\ position.price > 0
    /\ 100 * position.hard = position.price * (100 - HardStopPct)
    /\ position.hard <= Level(close)
    /\ position.bar < bar

IInv ==
  /\ TypeOK
  /\ PositionOK
  /\ LossBounded
  /\ HeldWithinLimit
  /\ OnePointPerBar
  /\ RoundTrips

\* The guarantee of one sale.
Bounded(t) ==
  t.side = "sell" =>
    t.basis + t.pnl + t.fee >= Slipped((t.basis * (100 - HardStopPct)) \div 100)

-----------------------------------------------------------------------------
(* Rounding down.                                                          *)

\* A quotient rounded down is a number, at most the exact quotient.
LEMMA QuotientBounds ==
  ASSUME NEW a \in Nat, NEW d \in Nat \ {0}
  PROVE  /\ a \div d \in Nat
         /\ d * (a \div d) <= a
         /\ a < d * ((a \div d) + 1)
  OBVIOUS

\* What lies below the exact quotient lies below the rounded one.
LEMMA QuotientAbove ==
  ASSUME NEW a \in Nat, NEW d \in Nat \ {0}, NEW k \in Nat, d * k <= a
  PROVE  k <= a \div d
  <1> DEFINE q == a \div d
  <1>1. q \in Nat /\ a < d * (q + 1)
    BY QuotientBounds
  <1> HIDE DEF q
  <1>2. d * k < d * (q + 1)
    BY <1>1
  <1>3. k < q + 1
    BY <1>1, <1>2
  <1> QED
    BY <1>1, <1>3 DEF q

\* A part of an amount, in percent, is between nothing and the amount.
LEMMA PartOfAmount ==
  ASSUME NEW m \in Nat, NEW p \in 0 .. 100
  PROVE  /\ (m * p) \div 100 \in 0 .. m
         /\ p < 100 /\ m > 0 => (m * p) \div 100 < m
  <1>1. m * p \in Nat /\ m * p <= m * 100
    OBVIOUS
  <1>2. p < 100 /\ m > 0 => m * p < m * 100
    OBVIOUS
  <1> QED
    BY <1>1, <1>2

\* Odd and even alternate.
LEMMA Parity ==
  ASSUME NEW n \in Nat
  PROVE  n % 2 = 1 <=> (n + 1) % 2 = 0
  OBVIOUS

\* The fee of an amount.
LEMMA FeeIsPart ==
  ASSUME NEW m \in Nat
  PROVE  Fee(m) \in 0 .. m /\ (m > 0 => Fee(m) < m)
  BY PartOfAmount, BacktestAssumption DEF Fee

\* Slippage keeps the order of amounts.
LEMMA SlippedIsMonotone ==
  ASSUME NEW a \in Nat, NEW b \in Nat, a <= b
  PROVE  Slipped(a) \in Nat /\ Slipped(b) \in Nat /\ Slipped(a) <= Slipped(b)
  <1> DEFINE s == 100 - SlipPct
  <1>1. s \in Nat
    BY BacktestAssumption
  <1>2. Slipped(a) = (a * s) \div 100 /\ Slipped(b) = (b * s) \div 100
    BY DEF Slipped
  <1> HIDE DEF s
  <1>3. a * s \in Nat /\ b * s \in Nat /\ a * s <= b * s
    BY <1>1
  <1> QED
    BY <1>2, <1>3

-----------------------------------------------------------------------------
(* Selling and buying.                                                     *)

\* Selling at a level above the floor empties the position, adds one sale that
\* keeps the bound, and costs no money.
LEMMA SaleIsBounded ==
  ASSUME TypeOK, PositionOK, Holding,
         NEW level \in Nat, level >= position.hard, SellAt(level)
  PROVE  /\ capital' \in Nat
         /\ position' = Flat
         /\ \E t \in Trade : trades' = Append(trades, t) /\ t.side = "sell" /\ Bounded(t)
  <1> DEFINE basis == position.basis
             price == position.price
             floor == (basis * (100 - HardStopPct)) \div 100
             gross == (basis * level) \div price
             proceeds == Slipped(gross)
             fee == Fee(proceeds)
             t == [side |-> "sell", fee |-> fee, basis |-> basis,
                   pnl |-> proceeds - fee - basis]
  <1>1. basis \in Nat /\ price \in Nat \ {0} /\ position.hard \in Nat
    BY DEF TypeOK, PositionOK, Position
  <1>2. 100 - HardStopPct \in Nat /\ basis * (100 - HardStopPct) \in Nat /\ floor \in Nat
    BY <1>1, BacktestAssumption
  <1>3. price * floor <= basis * level
    <2>1. 100 * floor <= basis * (100 - HardStopPct)
      BY <1>2
    <2> HIDE DEF floor
    <2>2. price * (100 * floor) <= price * (basis * (100 - HardStopPct))
      BY <1>1, <1>2, <2>1
    <2>3. price * (basis * (100 - HardStopPct)) = basis * (100 * position.hard)
      <3>1. price * (100 - HardStopPct) = 100 * position.hard
        BY DEF PositionOK
      <3>2. price * (basis * (100 - HardStopPct)) = basis * (price * (100 - HardStopPct))
        BY <1>1, <1>2
      <3> QED
        BY <3>1, <3>2
    <2>4. basis * position.hard <= basis * level
      BY <1>1
    <2> QED
      BY <1>1, <1>2, <2>2, <2>3, <2>4
  <1>4. basis * level \in Nat
    BY <1>1
  <1>5. gross \in Nat
    BY <1>1, <1>4, QuotientBounds
  <1>6. floor <= gross
    BY <1>1, <1>2, <1>3, <1>4, QuotientAbove
  <1> HIDE DEF gross, floor
  <1>7. proceeds \in Nat /\ Slipped(floor) <= proceeds
    BY <1>2, <1>5, <1>6, SlippedIsMonotone
  <1>8. fee \in 0 .. proceeds
    BY <1>7, FeeIsPart
  <1> HIDE DEF proceeds, fee
  <1>9. t \in Trade
    BY <1>1, <1>7, <1>8 DEF Trade
  <1>10. Bounded(t)
    BY <1>1, <1>7, <1>8 DEF Bounded, floor
  <1>11. capital' = capital + proceeds - fee /\ position' = Flat /\ trades' = Append(trades, t)
    BY DEF SellAt, gross, proceeds, fee
  <1>12. capital' \in Nat
    BY <1>7, <1>8, <1>11 DEF TypeOK
  <1> QED
    BY <1>9, <1>10, <1>11, <1>12

\* The money a purchase takes is there.
LEMMA TradeAmountIsThere ==
  ASSUME TypeOK, NEW size \in Sizes
  PROVE  TradeAmount(size) \in 0 .. capital
  <1>1. (capital * 95) \div 100 \in Nat /\ size \in Nat /\ capital \in Nat
    BY PartOfAmount, BacktestAssumption DEF TypeOK
  <1> QED
    BY <1>1 DEF TradeAmount, OrElse

\* A sale, after which the position is empty, keeps the trades in order.
LEMMA SaleEndsTrip ==
  ASSUME TypeOK, RoundTrips, LossBounded, Holding, position' = Flat,
         NEW t \in Trade, trades' = Append(trades, t), t.side = "sell", Bounded(t)
  PROVE  /\ trades' \in Seq(Trade)
         /\ \A i \in 1 .. Len(trades') : trades'[i].side = IF i % 2 = 1 THEN "buy" ELSE "sell"
         /\ Holding' <=> Len(trades') % 2 = 1
         /\ LossBounded'
         /\ ~Holding'
  <1>1. trades \in Seq(Trade) /\ Len(trades') = Len(trades) + 1
    BY DEF TypeOK
  <1>2. ~Holding'
    BY DEF Holding, Flat
  <1>3. Len(trades) % 2 = 1 /\ Len(trades') % 2 = 0
    <2>1. Len(trades) % 2 = 1
      BY DEF RoundTrips
    <2> QED
      BY <1>1, <2>1, Parity
  <1>4. \A i \in 1 .. Len(trades') : trades'[i].side = IF i % 2 = 1 THEN "buy" ELSE "sell"
    BY <1>1, <1>3 DEF RoundTrips
  <1>5. LossBounded'
    BY <1>1 DEF LossBounded, Bounded
  <1> QED
    BY <1>1, <1>2, <1>3, <1>4, <1>5

\* A candle adds one point to the curve.
LEMMA MarkAdds ==
  ASSUME TypeOK, NEW c \in Nat, Mark(c), capital' \in Nat, position'.basis \in Nat,
         position'.basis > 0 => position'.price \in Nat \ {0}
  PROVE  equity' \in Seq(Nat) /\ Len(equity') = Len(equity) + 1
  <1>1. Worth(position', c) \in Nat
    <2>1. CASE position'.basis > 0
      <3>1. position'.basis * Level(c) \in Nat
        BY DEF Level
      <3> QED
        BY <2>1, <3>1, QuotientBounds DEF Worth
    <2> QED
      BY <2>1 DEF Worth
  <1> QED
    BY <1>1 DEF TypeOK, Mark

-----------------------------------------------------------------------------
(* The steps.                                                              *)

LEMMA InitOK == Init => IInv
  BY BacktestAssumption
  DEF Init, IInv, TypeOK, PositionOK, LossBounded, HeldWithinLimit, OnePointPerBar,
      RoundTrips, Holding, Flat, Trade, Position

\* A candle keeps the types when its money, position, trades and curve do.
LEMMA CandleKeepsTypes ==
  ASSUME TypeOK, NEW c \in Closes, Looked(c), capital' \in Nat, position' \in Position,
         trades' \in Seq(Trade), equity' \in Seq(Nat)
  PROVE  TypeOK'
  <1>1. bar' \in 0 .. Bars + 1
    BY BacktestAssumption DEF TypeOK, Looked
  <1>2. close' \in Closes \union {0}
    BY DEF Looked
  <1> QED
    BY <1>1, <1>2 DEF TypeOK

\* A candle that ends with a sale above the floor.
LEMMA SaleStep ==
  ASSUME IInv, Holding, NEW c \in Closes, NEW level \in Nat, level >= position.hard,
         SellAt(level), Mark(c), Looked(c)
  PROVE  IInv'
  <1> USE DEF IInv
  <1>1. /\ capital' \in Nat
        /\ position' = Flat
        /\ \E t \in Trade : trades' = Append(trades, t) /\ t.side = "sell" /\ Bounded(t)
    BY SaleIsBounded
  <1>2. PICK t \in Trade : trades' = Append(trades, t) /\ t.side = "sell" /\ Bounded(t)
    BY <1>1
  <1>3. /\ trades' \in Seq(Trade)
        /\ \A i \in 1 .. Len(trades') : trades'[i].side = IF i % 2 = 1 THEN "buy" ELSE "sell"
        /\ Holding' <=> Len(trades') % 2 = 1
        /\ LossBounded'
        /\ ~Holding'
    BY <1>1, <1>2, SaleEndsTrip
  <1>4. equity' \in Seq(Nat) /\ Len(equity') = Len(equity) + 1
    <2>1. c \in Nat /\ position'.basis = 0
      BY <1>1, BacktestAssumption DEF Flat
    <2> QED
      BY <1>1, <2>1, MarkAdds
  <1>5. bar < Bars /\ bar' = bar + 1 /\ close' = c /\ bar \in Nat /\ Bars \in Nat
    BY BacktestAssumption DEF Looked, TypeOK
  <1>6. TypeOK'
    <2>1. position' \in Position
      BY <1>1 DEF Flat, Position
    <2> QED
      BY <1>1, <1>3, <1>4, <2>1, CandleKeepsTypes
  <1>7. OnePointPerBar'
    BY <1>4, <1>5 DEF OnePointPerBar
  <1> QED
    BY <1>3, <1>5, <1>6, <1>7 DEF PositionOK, HeldWithinLimit, RoundTrips

\* The level of an exit layer is at or above the floor.
LEMMA ExitIsAboveFloor ==
  ASSUME TypeOK, NEW c \in Closes, NEW low \in Lows, low <= c,
         NEW level \in ExitLevel(c, low)
  PROVE  level \in Nat /\ level >= position.hard
  <1>1. /\ c \in Nat /\ low \in Nat
        /\ Level(c) \in Nat /\ Level(low) \in Nat /\ Level(low) <= Level(c)
        /\ position.hard \in Nat /\ position.trail \in Int
    BY BacktestAssumption DEF Level, TypeOK, Position
  <1>2. CASE Level(low) <= position.hard
    BY <1>1, <1>2 DEF ExitLevel
  <1>3. CASE Level(low) > position.hard /\ Level(low) <= position.trail
    BY <1>1, <1>3 DEF ExitLevel
  <1>4. CASE Level(low) > position.hard /\ ~(Level(low) <= position.trail)
    BY <1>1, <1>4 DEF ExitLevel
  <1> QED
    BY <1>1, <1>2, <1>3, <1>4

\* Where no layer is reached, the close lies above the floor and there is time.
LEMMA NoExitLeavesTime ==
  ASSUME TypeOK, NEW c \in Closes, NEW low \in Lows, low <= c, ExitLevel(c, low) = {}
  PROVE  Level(c) \in Nat /\ position.hard <= Level(c) /\ ~TimeIsUp
  <1>1. /\ c \in Nat /\ low \in Nat
        /\ Level(c) \in Nat /\ Level(low) \in Nat /\ Level(low) <= Level(c)
        /\ position.hard \in Nat /\ position.trail \in Int
    BY BacktestAssumption DEF Level, TypeOK, Position
  <1>2. ~(Level(low) <= position.hard)
    BY <1>1 DEF ExitLevel
  <1>3. ~(Level(low) <= position.trail)
    BY <1>1, <1>2 DEF ExitLevel
  <1>4. ~TimeIsUp
    BY <1>1, <1>2, <1>3 DEF ExitLevel
  <1> QED
    BY <1>1, <1>2, <1>4

LEMMA ExitBarKeeps ==
  ASSUME IInv, NEW c \in Closes, NEW low \in Lows, low <= c, ExitBar(c, low)
  PROVE  IInv'
  <1>1. PICK level \in ExitLevel(c, low) : SellAt(level)
    BY DEF ExitBar
  <1>2. level \in Nat /\ level >= position.hard
    BY ExitIsAboveFloor DEF IInv
  <1> QED
    BY <1>1, <1>2, SaleStep DEF ExitBar

LEMMA SignalSellKeeps ==
  ASSUME IInv, NEW c \in Closes, NEW low \in Lows, low <= c, SignalSell(c, low)
  PROVE  IInv'
  <1>1. Level(c) \in Nat /\ Level(c) >= position.hard
    BY NoExitLeavesTime DEF IInv, SignalSell, TypeOK
  <1> QED
    BY <1>1, SaleStep DEF SignalSell

\* A candle without an order changes no more of a position than its trail.
LEMMA IdleKeeps ==
  ASSUME IInv, NEW c \in Closes, NEW low \in Lows, low <= c, NEW atr \in Atrs,
         Idle(c, low, atr)
  PROVE  IInv'
  <1> USE DEF IInv
  <1>1. /\ bar < Bars /\ bar' = bar + 1 /\ close' = c
        /\ bar \in Nat /\ Bars \in Nat /\ c \in Nat
        /\ capital' = capital /\ trades' = trades
    BY BacktestAssumption DEF Idle, Looked, TypeOK
  <1>2. /\ position' \in Position
        /\ position'.basis = position.basis /\ position'.price = position.price
        /\ position'.hard = position.hard /\ position'.bar = position.bar
    <2>1. Level(c) - AtrTrailMult * CurrentAtr(atr) \in Int
      BY <1>1, BacktestAssumption DEF CurrentAtr, OrElse, Level, TypeOK, Position
    <2> QED
      BY <2>1 DEF Idle, Ratcheted, TypeOK, Position
  <1>3. Holding' <=> Holding
    BY <1>2 DEF Holding
  <1>4. Holding => Level(c) \in Nat /\ position.hard <= Level(c) /\ ~TimeIsUp
    BY NoExitLeavesTime DEF Idle
  <1>5. equity' \in Seq(Nat) /\ Len(equity') = Len(equity) + 1
    <2>1. capital' \in Nat /\ position'.basis \in Nat
      BY <1>1, <1>2 DEF TypeOK, Position
    <2>2. position'.basis > 0 => position'.price \in Nat \ {0}
      BY <1>2 DEF PositionOK, Holding, Position
    <2> QED
      BY <1>1, <2>1, <2>2, MarkAdds DEF Idle
  <1>6. TypeOK'
    <2>1. trades' \in Seq(Trade) /\ capital' \in Nat
      BY <1>1 DEF TypeOK
    <2> QED
      BY <1>2, <1>5, <2>1, CandleKeepsTypes DEF Idle
  <1>7. PositionOK'
    BY <1>1, <1>2, <1>3, <1>4 DEF PositionOK, TypeOK, Position
  <1>8. HeldWithinLimit'
    <2>1. position.bar \in Nat /\ MaxHoldDays \in Nat /\ position'.bar = position.bar
      BY <1>2, BacktestAssumption DEF TypeOK, Position
    <2>2. Holding => bar - position.bar < MaxHoldDays
      BY <1>1, <1>4, <2>1 DEF TimeIsUp
    <2> QED
      BY <1>1, <1>3, <2>1, <2>2 DEF HeldWithinLimit
  <1>9. LossBounded' /\ OnePointPerBar' /\ RoundTrips'
    BY <1>1, <1>3, <1>5 DEF LossBounded, OnePointPerBar, RoundTrips
  <1> QED
    BY <1>6, <1>7, <1>8, <1>9

LEMMA TooSmallKeeps ==
  ASSUME IInv, NEW c \in Closes, NEW size \in Sizes, TooSmall(c, size)
  PROVE  IInv'
  <1> USE DEF IInv
  <1>1. /\ bar < Bars /\ bar' = bar + 1 /\ close' = c
        /\ bar \in Nat /\ Bars \in Nat /\ c \in Nat
        /\ capital' = capital /\ trades' = trades /\ position' = position
        /\ ~Holding /\ ~Holding'
    BY BacktestAssumption DEF TooSmall, Looked, TypeOK, Holding
  <1>2. equity' \in Seq(Nat) /\ Len(equity') = Len(equity) + 1
    <2>1. capital' \in Nat /\ position'.basis \in Nat /\ ~(position'.basis > 0)
      BY <1>1 DEF TypeOK, Holding, Position
    <2> QED
      BY <1>1, <2>1, MarkAdds DEF TooSmall
  <1>3. TypeOK'
    BY <1>1, <1>2 DEF TypeOK
  <1>4. LossBounded'
    BY <1>1 DEF LossBounded
  <1>5. OnePointPerBar' /\ RoundTrips'
    BY <1>1, <1>2 DEF OnePointPerBar, RoundTrips
  <1> QED
    BY <1>1, <1>3, <1>4, <1>5 DEF PositionOK, HeldWithinLimit

\* A purchase sets the floor below the close it was made at.
LEMMA BuyKeeps ==
  ASSUME IInv, NEW c \in Closes, NEW size \in Sizes, NEW atr \in Atrs, Buy(c, atr, size)
  PROVE  IInv'
  <1> USE DEF IInv
  <1> DEFINE amount == TradeAmount(size)
             basis == amount - Fee(amount)
             price == 100 * c * (100 + SlipPct)
             hard == (price * (100 - HardStopPct)) \div 100
             trail == price - AtrTrailMult * CurrentAtr(atr)
             t == [side |-> "buy", fee |-> Fee(amount), basis |-> basis, pnl |-> 0]
  <1>1. /\ bar < Bars /\ bar' = bar + 1 /\ close' = c
        /\ bar \in Nat /\ Bars \in Nat /\ c \in Nat \ {0}
        /\ ~Holding
    BY BacktestAssumption DEF Buy, Looked, TypeOK
  <1>2. amount \in 0 .. capital /\ amount >= MinTrade /\ capital \in Nat
    BY TradeAmountIsThere DEF Buy, TypeOK
  <1>3. amount \in Nat /\ amount > 0
    BY <1>2 DEF MinTrade
  <1>4. Fee(amount) \in 0 .. amount /\ Fee(amount) < amount
    BY <1>3, FeeIsPart
  <1>5. /\ capital' = capital - amount
        /\ position' = [basis |-> basis, price |-> price, atr |-> CurrentAtr(atr),
                        trail |-> trail, hard |-> hard, bar |-> bar]
        /\ trades' = Append(trades, t)
    BY DEF Buy
  <1>6. basis \in Nat /\ basis > 0 /\ capital' \in Nat /\ Fee(amount) \in Nat
    BY <1>2, <1>3, <1>4, <1>5
  <1>7. /\ price \in Nat /\ price > 0
        /\ hard \in Nat /\ 100 * hard = price * (100 - HardStopPct) /\ hard <= Level(c)
    <2> DEFINE s == 100 + SlipPct
               h == 100 - HardStopPct
    <2>1. s \in Nat /\ s > 0 /\ h \in Nat /\ s * h <= 10000
      BY BacktestAssumption
    <2>2. price = 100 * (c * s) /\ Level(c) = 10000 * c
      BY <1>1, <2>1 DEF Level
    <2> HIDE DEF s
    <2>3. c * s \in Nat /\ c * s > 0
      BY <1>1, <2>1
    <2>4. price * h = 100 * ((c * s) * h)
      BY <2>1, <2>2, <2>3
    <2>5. (c * s) * h \in Nat /\ (c * s) * h = c * (s * h)
      BY <1>1, <2>1, <2>3
    <2>6. c * (s * h) <= c * 10000
      BY <1>1, <2>1
    <2>7. hard = (c * s) * h
      BY <2>4, <2>5
    <2> QED
      BY <1>1, <2>2, <2>3, <2>4, <2>5, <2>6, <2>7
  <1>8. CurrentAtr(atr) \in Nat /\ trail \in Int
    <2>1. CurrentAtr(atr) \in Nat
      BY BacktestAssumption DEF CurrentAtr, OrElse, TypeOK, Position
    <2> QED
      BY <1>7, <2>1, BacktestAssumption
  <1> HIDE DEF amount, basis, price, hard, trail
  <1>9. /\ position' \in Position
        /\ position'.basis = basis /\ position'.price = price
        /\ position'.hard = hard /\ position'.bar = bar
    BY <1>1, <1>5, <1>6, <1>7, <1>8 DEF Position
  <1>10. t \in Trade /\ t.side = "buy"
    BY <1>6 DEF Trade
  <1>11. equity' \in Seq(Nat) /\ Len(equity') = Len(equity) + 1
    <2>1. Mark(c)
      BY DEF Buy
    <2>2. position'.basis \in Nat /\ position'.price \in Nat \ {0}
      BY <1>6, <1>7, <1>9
    <2> QED
      BY <1>1, <1>6, <2>1, <2>2, MarkAdds
  <1> HIDE DEF t
  <1>12. /\ trades' \in Seq(Trade) /\ Len(trades') = Len(trades) + 1
         /\ trades'[Len(trades) + 1] = t
         /\ \A i \in 1 .. Len(trades) : trades'[i] = trades[i]
         /\ Len(trades) \in Nat
    BY <1>5, <1>10 DEF TypeOK
  <1>13. TypeOK'
    BY <1>6, <1>9, <1>11, <1>12, CandleKeepsTypes DEF Buy
  <1>14. Holding'
    BY <1>6, <1>9 DEF Holding
  <1>15. PositionOK'
    BY <1>1, <1>7, <1>9 DEF PositionOK
  <1>16. LossBounded'
    BY <1>10, <1>12 DEF LossBounded
  <1>17. HeldWithinLimit'
    BY <1>1, <1>9, BacktestAssumption DEF HeldWithinLimit
  <1>18. OnePointPerBar'
    BY <1>1, <1>11 DEF OnePointPerBar
  <1>19. RoundTrips'
    <2>1. Len(trades) % 2 # 1
      BY <1>1 DEF RoundTrips
    <2>2. Len(trades') % 2 = 1
      BY <1>12, <2>1, Parity
    <2>3. ASSUME NEW i \in 1 .. Len(trades')
          PROVE  trades'[i].side = IF i % 2 = 1 THEN "buy" ELSE "sell"
      <3>1. CASE i = Len(trades) + 1
        BY <1>10, <1>12, <2>2, <3>1
      <3>2. CASE i # Len(trades) + 1
        <4>1. i \in 1 .. Len(trades)
          BY <1>12, <3>2
        <4> QED
          BY <1>12, <4>1 DEF RoundTrips
      <3> QED
        BY <3>1, <3>2
    <2>4. ~(bar' > Bars)
      BY <1>1
    <2> QED
      BY <1>14, <2>2, <2>3, <2>4 DEF RoundTrips
  <1> QED
    BY <1>13, <1>15, <1>16, <1>17, <1>18, <1>19

\* What is left after the last candle is sold at its close, above the floor.
LEMMA EndKeeps ==
  ASSUME IInv, End
  PROVE  IInv'
  <1> USE DEF IInv
  <1>1. /\ bar = Bars /\ bar' = Bars + 1 /\ close' = close /\ equity' = equity
        /\ Bars \in Nat /\ bar \in Nat /\ close \in Nat
    BY BacktestAssumption DEF End, TypeOK
  <1>2. CASE Holding
    <2>1. Level(close) \in Nat /\ Level(close) >= position.hard
      BY <1>1, <1>2 DEF PositionOK, Level, TypeOK
    <2>2. /\ capital' \in Nat
          /\ position' = Flat
          /\ \E t \in Trade : trades' = Append(trades, t) /\ t.side = "sell" /\ Bounded(t)
      BY <1>2, <2>1, SaleIsBounded DEF End
    <2>3. /\ trades' \in Seq(Trade)
          /\ \A i \in 1 .. Len(trades') : trades'[i].side = IF i % 2 = 1 THEN "buy" ELSE "sell"
          /\ Holding' <=> Len(trades') % 2 = 1
          /\ LossBounded'
          /\ ~Holding'
      BY <1>2, <2>2, SaleEndsTrip
    <2>4. position' \in Position
      BY <2>2 DEF Flat, Position
    <2>5. TypeOK'
      BY <1>1, <2>2, <2>3, <2>4 DEF TypeOK
    <2> QED
      BY <1>1, <2>3, <2>5 DEF PositionOK, HeldWithinLimit, OnePointPerBar, RoundTrips
  <1>3. CASE ~Holding
    <2>1. capital' = capital /\ position' = position /\ trades' = trades /\ ~Holding'
      BY <1>3 DEF End, Holding
    <2>2. TypeOK'
      BY <1>1, <2>1 DEF TypeOK
    <2>3. LossBounded'
      BY <2>1 DEF LossBounded
    <2>4. RoundTrips' /\ OnePointPerBar'
      BY <1>1, <1>3, <2>1 DEF RoundTrips, OnePointPerBar
    <2> QED
      BY <2>1, <2>2, <2>3, <2>4 DEF PositionOK, HeldWithinLimit
  <1> QED
    BY <1>2, <1>3

LEMMA StutterKeeps ==
  ASSUME IInv, UNCHANGED vars
  PROVE  IInv'
  BY DEF IInv, vars, TypeOK, PositionOK, LossBounded, HeldWithinLimit, OnePointPerBar,
         RoundTrips, Holding

LEMMA Inductive == IInv /\ [Next]_vars => IInv'
  <1> SUFFICES ASSUME IInv, [Next]_vars
               PROVE  IInv'
    OBVIOUS
  <1>1. CASE UNCHANGED vars
    BY <1>1, StutterKeeps
  <1>2. ASSUME NEW c \in Closes, NEW low \in Lows, low <= c,
               ExitBar(c, low) \/ SignalSell(c, low) \/ \E atr \in Atrs : Idle(c, low, atr)
        PROVE  IInv'
    BY <1>2, ExitBarKeeps, SignalSellKeeps, IdleKeeps
  <1>3. ASSUME NEW c \in Closes, NEW size \in Sizes,
               TooSmall(c, size) \/ \E atr \in Atrs : Buy(c, atr, size)
        PROVE  IInv'
    BY <1>3, TooSmallKeeps, BuyKeeps
  <1>4. CASE End
    BY <1>4, EndKeeps
  <1> QED
    BY <1>1, <1>2, <1>3, <1>4 DEF Next

LEMMA InvariantHolds == Spec => []IInv
  BY InitOK, Inductive, PTL DEF Spec

-----------------------------------------------------------------------------
\* The state of a run is always well formed: money is never negative, whatever
\* the signals ask for.
THEOREM TypeCorrect == Spec => []TypeOK
  <1>1. IInv => TypeOK
    BY DEF IInv
  <1> QED
    BY <1>1, InvariantHolds, PTL

\* No sale of any backtest loses more than hard stop, slippage and fees.
THEOREM LossesAreBounded == Spec => []LossBounded
  <1>1. IInv => LossBounded
    BY DEF IInv
  <1> QED
    BY <1>1, InvariantHolds, PTL

\* No backtest carries a position past the bar its time is up.
THEOREM HoldingEndsInTime == Spec => []HeldWithinLimit
  <1>1. IInv => HeldWithinLimit
    BY DEF IInv
  <1> QED
    BY <1>1, InvariantHolds, PTL

\* The equity curve has one point per candle.
THEOREM CurveHasAPointPerBar == Spec => []OnePointPerBar
  <1>1. IInv => OnePointPerBar
    BY DEF IInv
  <1> QED
    BY <1>1, InvariantHolds, PTL

\* Purchases and sales alternate, and no backtest returns holding anything.
THEOREM TripsAreRound == Spec => []RoundTrips
  <1>1. IInv => RoundTrips
    BY DEF IInv
  <1> QED
    BY <1>1, InvariantHolds, PTL

-----------------------------------------------------------------------------
(* The sums of the report.                                                 *)

\* A trade adds its value to a sum over the trades.
LEMMA ValueIsAdded ==
  ASSUME TypeOK, NEW t \in Trade, trades' = Append(trades, t),
         NEW V \in [Trade -> Int]
  PROVE  SumTo([i \in DOMAIN trades' |-> V[trades'[i]]], Len(trades'))
           = SumTo([i \in DOMAIN trades |-> V[trades[i]]], Len(trades)) + V[t]
  <1> DEFINE f == [i \in DOMAIN trades |-> V[trades[i]]]
             g == [i \in DOMAIN trades' |-> V[trades'[i]]]
             n == Len(trades)
  <1>1. /\ n \in Nat /\ Len(trades') = n + 1
        /\ DOMAIN trades = 1 .. n /\ DOMAIN trades' = 1 .. n + 1
        /\ \A i \in 1 .. n : trades[i] \in Trade /\ trades'[i] = trades[i]
        /\ trades'[n + 1] = t
    BY DEF TypeOK
  <1>2. \A i \in 1 .. n : f[i] \in Int /\ f[i] = g[i]
    BY <1>1
  <1>3. g[n + 1] = V[t]
    BY <1>1
  <1> HIDE DEF f, g
  <1>4. SumTo(g, n + 1) = SumTo(f, n) + g[n + 1]
    BY <1>1, <1>2, SumOfAppended
  <1> QED
    BY <1>1, <1>3, <1>4 DEF f, g

\* What a trade counts for is an integer.
LEMMA ValuesAreNumbers ==
  /\ Gain \in [Trade -> Int] /\ Loss \in [Trade -> Int]
  /\ PaidFee \in [Trade -> Int] /\ SaleFee \in [Trade -> Int]
  BY DEF Gain, Loss, PaidFee, SaleFee, Trade

\* A trade adds its gain, its loss and its fee to the sums of the report.
LEMMA TradeIsAdded ==
  ASSUME TypeOK, NEW t \in Trade, trades' = Append(trades, t)
  PROVE  /\ GrossProfit' = GrossProfit + Gain[t]
         /\ GrossLoss' = GrossLoss + Loss[t]
         /\ TotalFee' = TotalFee + PaidFee[t]
         /\ FeesOfSales' = FeesOfSales + SaleFee[t]
  BY ValuesAreNumbers, ValueIsAdded DEF GrossProfit, GrossLoss, TotalFee, FeesOfSales, Total

\* The sum of any of these values is an integer.
LEMMA TotalIsNumber ==
  ASSUME TypeOK, NEW value \in [Trade -> Int]
  PROVE  Total(value) \in Int
  <1>1. /\ DOMAIN trades = 1 .. Len(trades) /\ Len(trades) \in Nat
        /\ \A i \in 1 .. Len(trades) : value[trades[i]] \in Int
    <2>1. trades \in Seq(Trade)
      BY DEF TypeOK
    <2> QED
      BY <2>1
  <1> QED
    BY <1>1, SumOfInts DEF Total

LEMMA SumsAreNumbers ==
  ASSUME TypeOK
  PROVE  GrossProfit \in Int /\ GrossLoss \in Int /\ TotalFee \in Int /\ FeesOfSales \in Int
  BY ValuesAreNumbers, TotalIsNumber DEF GrossProfit, GrossLoss, TotalFee, FeesOfSales

\* A sale moves the account by its pnl.
LEMMA SaleBalances ==
  ASSUME IInv, BooksAgree, Holding, NEW level \in Nat, level >= position.hard,
         SellAt(level)
  PROVE  BooksAgree'
  <1> DEFINE proceeds == Slipped((position.basis * level) \div position.price)
             fee == Fee(proceeds)
             t == [side |-> "sell", fee |-> fee, basis |-> position.basis,
                   pnl |-> proceeds - fee - position.basis]
  <1>1. /\ capital' = capital + proceeds - fee /\ position' = Flat
        /\ trades' = Append(trades, t)
    BY DEF SellAt
  <1>2. PICK s \in Trade : trades' = Append(trades, s)
    BY SaleIsBounded DEF IInv
  <1>3. t = s
    <2>1. Len(trades) \in Nat /\ trades \in Seq(Trade)
      BY DEF IInv, TypeOK
    <2>2. Append(trades, s)[Len(trades) + 1] = s /\ Append(trades, t)[Len(trades) + 1] = t
      BY <2>1
    <2> QED
      BY <1>1, <1>2, <2>2
  <1>4. fee \in Int /\ proceeds - fee - position.basis \in Int /\ position.basis \in Int
        /\ capital \in Int /\ InitialCapital \in Int
    <2>1. t.fee \in Nat /\ t.pnl \in Int /\ t.basis \in Nat
      BY <1>3 DEF Trade
    <2> QED
      BY <2>1, BacktestAssumption DEF IInv, TypeOK
  <1>5. proceeds \in Int
    <2>1. position.basis * level \in Nat /\ position.price \in Nat \ {0}
      BY DEF IInv, TypeOK, PositionOK, Position
    <2>2. (position.basis * level) \div position.price \in Nat
      BY <2>1, QuotientBounds
    <2> QED
      BY <2>2, SlippedIsMonotone
  <1>6. /\ GrossProfit' = GrossProfit + Gain[t] /\ GrossLoss' = GrossLoss + Loss[t]
        /\ TotalFee' = TotalFee + PaidFee[t] /\ FeesOfSales' = FeesOfSales + SaleFee[t]
    BY <1>2, <1>3, TradeIsAdded DEF IInv
  <1>7. /\ GrossProfit \in Int /\ GrossLoss \in Int
        /\ TotalFee \in Int /\ FeesOfSales \in Int
    BY SumsAreNumbers DEF IInv
  <1> HIDE DEF proceeds, fee
  <1>8. Gain[t] - Loss[t] = proceeds - fee - position.basis /\ PaidFee[t] = fee /\ SaleFee[t] = fee
        /\ Gain[t] \in Int /\ Loss[t] \in Int
    BY <1>2, <1>3, <1>4 DEF Gain, Loss, PaidFee, SaleFee
  <1>9. position'.basis = 0
    BY <1>1 DEF Flat
  <1> HIDE DEF t
  <1>10. capital + position.basis - InitialCapital
           = GrossProfit - GrossLoss - (TotalFee - FeesOfSales)
    BY DEF BooksAgree
  <1>11. capital' + position'.basis - InitialCapital
           = (capital + position.basis - InitialCapital) + (Gain[t] - Loss[t])
    BY <1>1, <1>4, <1>5, <1>8, <1>9
  <1>12. GrossProfit' - GrossLoss' - (TotalFee' - FeesOfSales')
           = (GrossProfit - GrossLoss - (TotalFee - FeesOfSales)) + (Gain[t] - Loss[t])
    BY <1>4, <1>6, <1>7, <1>8
  <1> QED
    BY <1>10, <1>11, <1>12 DEF BooksAgree


\* A purchase moves the account by its fee, which no pnl contains.
LEMMA PurchaseBalances ==
  ASSUME IInv, BooksAgree, NEW c \in Closes, NEW atr \in Atrs, NEW size \in Sizes,
         Buy(c, atr, size)
  PROVE  BooksAgree'
  <1> DEFINE amount == TradeAmount(size)
             fee == Fee(amount)
             t == [side |-> "buy", fee |-> fee, basis |-> amount - fee, pnl |-> 0]
  <1>1. /\ capital' = capital - amount /\ position'.basis = amount - fee
        /\ trades' = Append(trades, t) /\ ~Holding
    BY DEF Buy
  <1>2. amount \in Nat /\ fee \in 0 .. amount
    <2>1. amount \in Nat
      BY TradeAmountIsThere DEF IInv, TypeOK
    <2> QED
      BY <2>1, FeeIsPart
  <1>3. position.basis = 0 /\ capital \in Int /\ InitialCapital \in Int
    BY <1>1, BacktestAssumption DEF IInv, TypeOK, Position, Holding
  <1> HIDE DEF amount, fee
  <1>4. t \in Trade
    BY <1>2 DEF Trade
  <1>5. /\ GrossProfit' = GrossProfit + Gain[t] /\ GrossLoss' = GrossLoss + Loss[t]
        /\ TotalFee' = TotalFee + PaidFee[t] /\ FeesOfSales' = FeesOfSales + SaleFee[t]
    BY <1>1, <1>4, TradeIsAdded DEF IInv
  <1>6. Gain[t] = 0 /\ Loss[t] = 0 /\ SaleFee[t] = 0 /\ PaidFee[t] = fee
    BY <1>4 DEF Gain, Loss, PaidFee, SaleFee
  <1>7. /\ GrossProfit \in Int /\ GrossLoss \in Int
        /\ TotalFee \in Int /\ FeesOfSales \in Int
    BY SumsAreNumbers DEF IInv
  <1> HIDE DEF t
  <1>8. capital + position.basis - InitialCapital
          = GrossProfit - GrossLoss - (TotalFee - FeesOfSales)
    BY DEF BooksAgree
  <1>9. capital' + position'.basis - InitialCapital
          = (capital + position.basis - InitialCapital) - fee
    BY <1>1, <1>2, <1>3
  <1>10. GrossProfit' - GrossLoss' - (TotalFee' - FeesOfSales')
           = (GrossProfit - GrossLoss - (TotalFee - FeesOfSales)) - fee
    BY <1>2, <1>5, <1>6, <1>7
  <1> QED
    BY <1>8, <1>9, <1>10 DEF BooksAgree

\* Nothing else moves the account.
LEMMA RestBalances ==
  ASSUME BooksAgree, capital' = capital, trades' = trades,
         position'.basis = position.basis
  PROVE  BooksAgree'
  BY DEF BooksAgree, GrossProfit, GrossLoss, TotalFee, FeesOfSales, Total

LEMMA BooksInit == Init => BooksAgree
  <1> SUFFICES ASSUME Init PROVE BooksAgree
    OBVIOUS
  <1>1. capital = InitialCapital /\ position.basis = 0 /\ Len(trades) = 0
    BY DEF Init, Flat
  <1>2. GrossProfit = 0 /\ GrossLoss = 0 /\ TotalFee = 0 /\ FeesOfSales = 0
    BY <1>1, SumOfNone DEF GrossProfit, GrossLoss, TotalFee, FeesOfSales, Total
  <1> QED
    BY <1>1, <1>2, BacktestAssumption DEF BooksAgree

LEMMA BooksInductive == IInv /\ BooksAgree /\ [Next]_vars => BooksAgree'
  <1> SUFFICES ASSUME IInv, BooksAgree, [Next]_vars
               PROVE  BooksAgree'
    OBVIOUS
  <1>1. CASE UNCHANGED vars
    BY <1>1, RestBalances DEF vars
  <1>2. ASSUME NEW c \in Closes, NEW low \in Lows, low <= c, ExitBar(c, low)
        PROVE  BooksAgree'
    <2>1. PICK level \in ExitLevel(c, low) : SellAt(level)
      BY <1>2 DEF ExitBar
    <2>2. level \in Nat /\ level >= position.hard
      BY <1>2, ExitIsAboveFloor DEF IInv
    <2> QED
      BY <1>2, <2>1, <2>2, SaleBalances DEF ExitBar
  <1>3. ASSUME NEW c \in Closes, NEW low \in Lows, low <= c, SignalSell(c, low)
        PROVE  BooksAgree'
    <2>1. Level(c) \in Nat /\ Level(c) >= position.hard
      BY <1>3, NoExitLeavesTime DEF IInv, SignalSell, TypeOK
    <2> QED
      BY <1>3, <2>1, SaleBalances DEF SignalSell
  <1>4. ASSUME NEW c \in Closes, NEW low \in Lows, NEW atr \in Atrs, Idle(c, low, atr)
        PROVE  BooksAgree'
    <2>1. position'.basis = position.basis
      BY <1>4 DEF IInv, TypeOK, Position, Idle, Ratcheted
    <2> QED
      BY <1>4, <2>1, RestBalances DEF Idle
  <1>5. ASSUME NEW c \in Closes, NEW size \in Sizes, TooSmall(c, size)
        PROVE  BooksAgree'
    BY <1>5, RestBalances DEF TooSmall
  <1>6. CASE End
    <2>1. CASE Holding
      <3>1. close \in Nat
        BY BacktestAssumption DEF IInv, TypeOK
      <3>2. Level(close) \in Nat /\ Level(close) >= position.hard
        BY <2>1, <3>1 DEF IInv, PositionOK, Level, TypeOK
      <3> QED
        BY <1>6, <2>1, <3>2, SaleBalances DEF End
    <2>2. CASE ~Holding
      BY <1>6, <2>2, RestBalances DEF End
    <2> QED
      BY <2>1, <2>2
  <1> QED
    BY <1>1, <1>2, <1>3, <1>4, <1>5, <1>6, PurchaseBalances DEF Next

\* The report and the account agree at every moment of every backtest: what was
\* gained is gross profit less gross loss, less the fees of the purchases.
THEOREM ReportBalances == Spec => []BooksAgree
  BY BooksInit, BooksInductive, InvariantHolds, PTL DEF Spec

-----------------------------------------------------------------------------
(* The curve and the final capital.                                        *)

\* Until the run returns, the curve ends at what the account is worth.
CurveOK ==
  /\ bar \in 1 .. Bars => equity[Len(equity)] = capital + Worth(position, close)
  /\ CurveMeetsCapital

\* Every candle marks the account after its order.
LEMMA CandleMarks ==
  ASSUME TypeOK, NEW c \in Closes, Mark(c), Looked(c)
  PROVE  CurveOK'
  <1>1. equity \in Seq(Nat) /\ equity' = Append(equity, capital' + Worth(position', c))
    BY DEF TypeOK, Mark
  <1>2. equity'[Len(equity')] = capital' + Worth(position', c)
    BY <1>1
  <1>3. close' = c /\ ~(bar' > Bars)
    BY BacktestAssumption DEF Looked, TypeOK
  <1> QED
    BY <1>2, <1>3 DEF CurveOK, CurveMeetsCapital, Worth

\* The sale after the last candle costs slippage and fee of what the curve shows.
LEMMA EndMeetsCurve ==
  ASSUME IInv, CurveOK, End
  PROVE  CurveOK'
  <1>1. /\ bar = Bars /\ bar' = Bars + 1 /\ Bars \in Nat \ {0} /\ equity' = equity
        /\ capital \in Nat
    BY BacktestAssumption DEF End, IInv, TypeOK
  <1>2. equity[Len(equity)] = capital + Worth(position, close)
    BY <1>1 DEF CurveOK
  <1>3. CurveMeetsCapital'
    <2>1. CASE ~Holding
      <3>1. Worth(position, close) = 0 /\ capital' = capital
        BY <1>1, <2>1 DEF End, Holding, Worth
      <3> QED
        BY <1>1, <1>2, <3>1 DEF CurveMeetsCapital
    <2>2. CASE Holding
      <3> DEFINE worth == Worth(position, close)
                 proceeds == Slipped(worth)
                 fee == Fee(proceeds)
                 t == [side |-> "sell", fee |-> fee, basis |-> position.basis,
                       pnl |-> proceeds - fee - position.basis]
      <3>1. /\ capital' = capital + proceeds - fee
            /\ trades' = Append(trades, t)
        BY <1>1, <2>2 DEF End, SellAt, Worth, Holding
      <3>2. worth \in Nat /\ position.basis \in Nat
        <4>1. close \in Nat /\ position.basis \in Nat /\ position.price \in Nat \ {0}
          BY <2>2, BacktestAssumption DEF IInv, TypeOK, PositionOK, Position
        <4>2. position.basis * Level(close) \in Nat
          BY <4>1 DEF Level
        <4> QED
          BY <2>2, <4>1, <4>2, QuotientBounds DEF Worth, Holding
      <3> HIDE DEF worth
      <3>3. proceeds \in Nat
        BY <3>2, SlippedIsMonotone
      <3>4. fee \in Nat
        BY <3>3, FeeIsPart
      <3>5. trades' # <<>> /\ trades'[Len(trades')] = t
        BY <3>1 DEF IInv, TypeOK
      <3> HIDE DEF proceeds, fee
      <3>6. t.basis + t.pnl + t.fee = proceeds /\ t.fee = fee
        BY <3>2, <3>3, <3>4
      <3> HIDE DEF t
      <3>7. equity'[Len(equity')] - (capital' - (proceeds - fee)) = worth
        BY <1>1, <1>2, <3>1, <3>2, <3>3, <3>4 DEF worth
      <3> QED
        BY <3>5, <3>6, <3>7 DEF CurveMeetsCapital, proceeds
    <2> QED
      BY <2>1, <2>2
  <1>4. ~(bar' \in 1 .. Bars)
    BY <1>1
  <1> QED
    BY <1>3, <1>4 DEF CurveOK

LEMMA CurveInductive == IInv /\ CurveOK /\ [Next]_vars => CurveOK'
  <1> SUFFICES ASSUME IInv, CurveOK, [Next]_vars
               PROVE  CurveOK'
    OBVIOUS
  <1>1. CASE UNCHANGED vars
    BY <1>1 DEF vars, CurveOK, CurveMeetsCapital
  <1>2. CASE End
    BY <1>2, EndMeetsCurve
  <1>3. ASSUME ~End, ~UNCHANGED vars
        PROVE  \E c \in Closes : Mark(c) /\ Looked(c)
    BY <1>3 DEF Next, ExitBar, SignalSell, Idle, TooSmall, Buy
  <1> QED
    BY <1>1, <1>2, <1>3, CandleMarks DEF IInv

\* Every report's curve ends where its final capital is, but for the cost of
\* the sale after the last candle.
THEOREM CurveEndsAtCapital == Spec => []CurveMeetsCapital
  <1>1. Init => CurveOK
    BY BacktestAssumption DEF Init, CurveOK, CurveMeetsCapital
  <1>2. CurveOK => CurveMeetsCapital
    BY DEF CurveOK
  <1> QED
    BY <1>1, <1>2, CurveInductive, InvariantHolds, PTL DEF Spec


-----------------------------------------------------------------------------
(* The drawdown: one pass with the peak so far finds the deepest of all     *)
(* falls, for every curve.                                                  *)

\* From a higher peak the same point is a deeper fall.
LEMMA HigherPeakFallsDeeper ==
  ASSUME NEW v \in Nat, NEW a \in Nat \ {0}, NEW b \in Nat, a <= b
  PROVE  Fall(v, b) \in Int /\ Fall(v, b) <= Fall(v, a)
  <1> DEFINE q == Fall(v, a)
             r == Fall(v, b)
  <1>1. b \in Nat \ {0} /\ (v - a) * 10000 \in Int /\ (v - b) * 10000 \in Int
    OBVIOUS
  <1>2. q \in Int /\ (v - a) * 10000 < (q + 1) * a
    <2>1. q = ((v - a) * 10000) \div a
      BY DEF Fall
    <2> HIDE DEF q
    <2> DEFINE m == (v - a) * 10000
    <2>2. m \in Int /\ q = m \div a
      BY <1>1, <2>1
    <2> HIDE DEF m
    <2>3. q \in Int /\ m < (q + 1) * a
      BY <2>2
    <2> QED
      BY <2>3 DEF m
  <1>3. r \in Int /\ r * b <= (v - b) * 10000
    <2>1. r = ((v - b) * 10000) \div b
      BY DEF Fall
    <2> HIDE DEF r
    <2> DEFINE m == (v - b) * 10000
    <2>2. m \in Int /\ r = m \div b
      BY <1>1, <2>1
    <2> HIDE DEF m
    <2>3. r \in Int /\ r * b <= m
      BY <1>1, <2>2
    <2> QED
      BY <2>3 DEF m
  <1> HIDE DEF q, r
  <1>4. r <= q
    <2> SUFFICES ASSUME r >= q + 1 PROVE FALSE
      BY <1>2, <1>3
    <2> DEFINE x == q + 10001
               y == r + 10000
    <2>1. x \in Int /\ y \in Int /\ y >= x
      BY <1>2, <1>3
    <2>2. 10000 * v < x * a
      <3>1. x * a = (q + 1) * a + 10000 * a
        BY <1>2
      <3>2. (v - a) * 10000 = 10000 * v - 10000 * a
        OBVIOUS
      <3>3. (q + 1) * a \in Int
        BY <1>2
      <3> HIDE DEF x
      <3> QED
        BY <1>2, <2>1, <3>1, <3>2, <3>3
    <2>3. y * b <= 10000 * v
      <3>1. y * b = r * b + 10000 * b
        BY <1>3
      <3>2. (v - b) * 10000 = 10000 * v - 10000 * b
        OBVIOUS
      <3>3. r * b \in Int
        BY <1>3
      <3> HIDE DEF y
      <3> QED
        BY <1>3, <2>1, <3>1, <3>2, <3>3
    <2> HIDE DEF x, y
    <2>4. x > 0
      BY <2>1, <2>2
    <2>5. x * a <= y * a
      BY <2>1
    <2>6. y * a <= y * b
      BY <2>1, <2>4
    <2>7. x * a \in Int /\ y * a \in Int /\ y * b \in Int
      BY <2>1
    <2> QED
      BY <2>2, <2>3, <2>5, <2>6, <2>7
  <1> QED
    BY <1>3, <1>4 DEF q, r

\* Where there is no fall, none is counted.
LEMMA RiseIsNoFall ==
  ASSUME NEW v \in Nat, NEW a \in Nat \ {0}
  PROVE  /\ Fall(v, a) \in Int
         /\ v >= a => Fall(v, a) >= 0
         /\ v = a => Fall(v, a) = 0
  <1>1. CASE v >= a
    <2> DEFINE m == (v - a) * 10000
    <2>1. m \in Nat /\ Fall(v, a) = m \div a /\ (v = a => m = 0)
      BY <1>1 DEF Fall
    <2> HIDE DEF m
    <2>2. m \div a \in Nat
      BY <2>1, QuotientBounds
    <2>3. v = a => m \div a = 0
      BY <2>1
    <2> QED
      BY <2>1, <2>2, <2>3
  <1>2. CASE v < a
    <2> DEFINE m == (v - a) * 10000
    <2>1. m \in Int /\ Fall(v, a) = m \div a
      BY DEF Fall
    <2> HIDE DEF m
    <2> QED
      BY <1>2, <2>1
  <1> QED
    BY <1>1, <1>2

\* What the loop knows after k points: the largest of them, and the deepest of
\* the falls between two of them.
FallsTo(curve, k) ==
  {Fall(curve[p[2]], curve[p[1]]) : p \in {q \in LaterPoints(curve) : q[2] <= k}}

PassOK(curve, k, dd) ==
  /\ dd \in [peak : Nat, worst : Int]
  /\ \E i \in DOMAIN curve : dd.peak = curve[i] /\ (i <= k \/ (i = 1 /\ k = 0))
  /\ \A i \in DOMAIN curve : i <= k => curve[i] <= dd.peak
  /\ dd.worst <= 0
  /\ dd.worst \in {0} \union FallsTo(curve, k)
  /\ \A f \in FallsTo(curve, k) : dd.worst <= f


\* Every fall to one of the first k points is known by its two points.
LEMMA FallsAreKnown ==
  ASSUME NEW curve \in Seq(Nat), NEW k \in Nat, NEW f
  PROVE  f \in FallsTo(curve, k) <=>
           \E i, j \in DOMAIN curve :
             i < j /\ j <= k /\ curve[i] > 0 /\ f = Fall(curve[j], curve[i])
  <1>1. ASSUME f \in FallsTo(curve, k)
        PROVE  \E i, j \in DOMAIN curve :
                 i < j /\ j <= k /\ curve[i] > 0 /\ f = Fall(curve[j], curve[i])
    <2>1. PICK p \in LaterPoints(curve) : p[2] <= k /\ f = Fall(curve[p[2]], curve[p[1]])
      BY <1>1 DEF FallsTo
    <2>2. p[1] \in DOMAIN curve /\ p[2] \in DOMAIN curve /\ p[1] < p[2] /\ curve[p[1]] > 0
      BY DEF LaterPoints
    <2> QED
      BY <2>1, <2>2
  <1>2. ASSUME NEW i \in DOMAIN curve, NEW j \in DOMAIN curve,
               i < j, j <= k, curve[i] > 0, f = Fall(curve[j], curve[i])
        PROVE  f \in FallsTo(curve, k)
    <2>1. <<i, j>> \in LaterPoints(curve) /\ <<i, j>>[1] = i /\ <<i, j>>[2] = j
      BY <1>2 DEF LaterPoints
    <2> QED
      BY <1>2, <2>1 DEF FallsTo
  <1> QED
    BY <1>1, <1>2

\* A pass looks at one more point.
LEMMA PassKeeps ==
  ASSUME NEW curve \in Seq(Nat), NEW k \in Nat, k + 1 <= Len(curve),
         NEW dd, PassOK(curve, k, dd)
  PROVE  PassOK(curve, k + 1, Drawdown(curve)[k + 1][dd])
  <1> DEFINE v == curve[k + 1]
             peak == IF v > dd.peak THEN v ELSE dd.peak
             fall == IF peak > 0 THEN Fall(v, peak) ELSE 0
             worst == IF fall < dd.worst THEN fall ELSE dd.worst
             new == [peak |-> peak, worst |-> worst]
  <1>1. /\ DOMAIN curve = 1 .. Len(curve) /\ Len(curve) \in Nat
        /\ k + 1 \in DOMAIN curve /\ v \in Nat
        /\ \A i \in DOMAIN curve : curve[i] \in Nat
    OBVIOUS
  <1>2. /\ dd \in [peak : Nat, worst : Int] /\ dd.peak \in Nat /\ dd.worst \in Int
        /\ dd.worst <= 0
    BY DEF PassOK
  <1>3. Drawdown(curve)[k + 1][dd] = new
    BY <1>2 DEF Drawdown
  <1>4. PICK top \in DOMAIN curve :
          dd.peak = curve[top] /\ (top <= k \/ (top = 1 /\ k = 0))
    BY DEF PassOK
  <1> HIDE DEF v
  <1>5. peak \in Nat /\ v <= peak /\ dd.peak <= peak /\ (peak = v \/ peak = dd.peak)
    BY <1>1, <1>2
  <1> HIDE DEF peak
  <1>6. fall \in Int /\ fall <= 0 /\ (v = peak => fall = 0)
    <2>1. CASE peak = 0
      BY <2>1
    <2>2. CASE peak > 0
      <3>1. Fall(v, peak) \in Int /\ (v = peak => Fall(v, peak) = 0)
        <4>1. v \in Nat /\ peak \in Nat \ {0}
          BY <1>1, <1>5, <2>2
        <4> QED
          BY <4>1, RiseIsNoFall
      <3>3. Fall(v, peak) <= 0
        <4>1. CASE v = 0
          <5> DEFINE m == (0 - peak) * 10000
          <5>1. m \in Int /\ m < 0 /\ Fall(v, peak) = m \div peak
            BY <1>5, <2>2, <4>1 DEF Fall
          <5> HIDE DEF m
          <5> QED
            BY <1>5, <2>2, <5>1
        <4>2. CASE v > 0
          <5>1. Fall(v, peak) <= Fall(v, v)
            BY <1>1, <1>5, <4>2, HigherPeakFallsDeeper
          <5>2. Fall(v, v) = 0
            BY <1>1, <4>2, RiseIsNoFall
          <5> QED
            BY <5>1, <5>2
        <4> QED
          BY <1>1, <4>1, <4>2
      <3> QED
        BY <2>2, <3>1, <3>3
    <2> QED
      BY <1>5, <2>1, <2>2
  <1>7. worst \in Int /\ worst <= 0 /\ worst <= fall /\ worst <= dd.worst
    BY <1>2, <1>6
  <1>8. new \in [peak : Nat, worst : Int]
    BY <1>5, <1>7
  <1>9. \E i \in DOMAIN curve : peak = curve[i] /\ i <= k + 1
    BY <1>1, <1>4, <1>5 DEF v
  <1>10. \A i \in DOMAIN curve : i <= k + 1 => curve[i] <= peak
    <2> SUFFICES ASSUME NEW i \in DOMAIN curve, i <= k + 1
                 PROVE  curve[i] <= peak
      OBVIOUS
    <2>1. CASE i = k + 1
      BY <1>5, <2>1 DEF v
    <2>2. CASE i <= k
      <3>1. curve[i] <= dd.peak
        BY <2>2 DEF PassOK
      <3> QED
        BY <1>1, <1>2, <1>5, <3>1
    <2> QED
      BY <1>1, <2>1, <2>2
  \* The deepest fall is one between two of the points looked at.
  <1>11. worst \in {0} \union FallsTo(curve, k + 1)
    <2>1. \A f \in FallsTo(curve, k) : f \in FallsTo(curve, k + 1)
      <3> SUFFICES ASSUME NEW f \in FallsTo(curve, k)
                   PROVE  f \in FallsTo(curve, k + 1)
        OBVIOUS
      <3>1. PICK i, j \in DOMAIN curve :
              i < j /\ j <= k /\ curve[i] > 0 /\ f = Fall(curve[j], curve[i])
        BY FallsAreKnown
      <3>2. j <= k + 1 /\ k + 1 \in Nat
        BY <1>1, <3>1
      <3> QED
        BY <3>1, <3>2, FallsAreKnown
    <2>2. CASE worst = dd.worst
      BY <2>1, <2>2 DEF PassOK
    <2>3. CASE worst = fall /\ fall < dd.worst
      <3>1. fall # 0
        BY <1>2, <1>6, <2>3
      <3>2. peak > 0 /\ fall = Fall(v, peak) /\ v # peak
        BY <1>5, <1>6, <3>1
      <3>3. peak = dd.peak
        BY <1>5, <3>2
      <3>4. top # k + 1
        BY <1>4, <3>2, <3>3 DEF v
      <3>5. top < k + 1
        BY <1>1, <1>4, <3>4
      <3>6. k + 1 \in Nat /\ k + 1 <= k + 1
        OBVIOUS
      <3>7. \E i, j \in DOMAIN curve :
              i < j /\ j <= k + 1 /\ curve[i] > 0 /\ fall = Fall(curve[j], curve[i])
        BY <1>1, <1>4, <3>2, <3>3, <3>5, <3>6 DEF v
      <3>8. fall \in FallsTo(curve, k + 1)
        BY <3>6, <3>7, FallsAreKnown
      <3> QED
        BY <2>3, <3>8
    <2> QED
      BY <2>2, <2>3
  \* And none is deeper.
  <1>12. \A f \in FallsTo(curve, k + 1) : worst <= f
    <2> SUFFICES ASSUME NEW f \in FallsTo(curve, k + 1)
                 PROVE  worst <= f
      OBVIOUS
    <2>0. k + 1 \in Nat
      OBVIOUS
    <2>1. PICK i, j \in DOMAIN curve :
            i < j /\ j <= k + 1 /\ curve[i] > 0 /\ f = Fall(curve[j], curve[i])
      BY <2>0, FallsAreKnown
    <2>2. f \in Int
      BY <1>1, <2>1, RiseIsNoFall
    <2>3. CASE j <= k
      <3>1. f \in FallsTo(curve, k)
        BY <2>1, <2>3, FallsAreKnown
      <3>2. dd.worst <= f
        BY <3>1 DEF PassOK
      <3> QED
        BY <1>2, <1>7, <2>2, <3>2
    <2>4. CASE j = k + 1
      <3>1. curve[i] \in Nat \ {0} /\ curve[i] <= peak /\ f = Fall(v, curve[i])
        BY <1>1, <1>10, <2>1, <2>4 DEF v
      <3>2. peak > 0 /\ fall = Fall(v, peak)
        BY <1>5, <3>1
      <3>3. Fall(v, peak) <= Fall(v, curve[i])
        BY <1>1, <1>5, <3>1, HigherPeakFallsDeeper
      <3> QED
        BY <1>6, <1>7, <2>2, <3>1, <3>2, <3>3
    <2> QED
      BY <1>1, <2>1, <2>3, <2>4
  <1> HIDE DEF worst
  <1>13. new.peak = peak /\ new.worst = worst
    OBVIOUS
  <1> HIDE DEF new
  <1> QED
    BY <1>3, <1>7, <1>8, <1>9, <1>10, <1>11, <1>12, <1>13 DEF PassOK

\* The maximum drawdown of any curve is its deepest fall.
LEMMA DeepestOfCurve ==
  ASSUME NEW curve \in Seq(Nat)
  PROVE  MaxDrawdown(curve)
           = Min({0} \union {Fall(curve[p[2]], curve[p[1]]) : p \in LaterPoints(curve)})
  <1> DEFINE falls == {Fall(curve[p[2]], curve[p[1]]) : p \in LaterPoints(curve)}
             n == Len(curve)
             after(k) == LoopTo(Drawdown(curve), [peak |-> curve[1], worst |-> 0], k)
  <1>1. n \in Nat /\ DOMAIN curve = 1 .. n
    OBVIOUS
  <1>2. falls = FallsTo(curve, n)
    <2>1. \A p \in LaterPoints(curve) : p[2] <= n
      BY <1>1 DEF LaterPoints
    <2> QED
      BY <2>1 DEF FallsTo
  <1> HIDE DEF falls
  <1>3. CASE n = 0
    <2>1. curve = <<>> /\ MaxDrawdown(curve) = 0
      BY <1>3 DEF MaxDrawdown
    <2>2. falls = {}
      <3>1. LaterPoints(curve) = {}
        BY <1>1, <1>3 DEF LaterPoints
      <3> QED
        BY <3>1 DEF falls
    <2>3. {0} \union falls = {0}
      BY <2>2
    <2>4. Min({0}) = 0
      BY DEF Min
    <2> QED
      BY <2>1, <2>3, <2>4 DEF falls
  <1>4. CASE n > 0
    <2> DEFINE S == {k \in Nat : k <= n => PassOK(curve, k, after(k))}
    <2>1. 0 \in S
      <3>1. after(0) = [peak |-> curve[1], worst |-> 0]
        BY LoopStarts
      <3>2. 1 \in DOMAIN curve /\ curve[1] \in Nat
        BY <1>1, <1>4
      <3>3. \A i \in DOMAIN curve : ~(i <= 0)
        BY <1>1
      <3>4. FallsTo(curve, 0) = {}
        <4>1. \A f : f \notin FallsTo(curve, 0)
          BY <3>3, FallsAreKnown
        <4> QED
          BY <4>1
      <3>5. PassOK(curve, 0, [peak |-> curve[1], worst |-> 0])
        BY <3>2, <3>3, <3>4 DEF PassOK
      <3> QED
        BY <3>1, <3>5
    <2>2. ASSUME NEW k \in Nat, k \in S
          PROVE  k + 1 \in S
      <3> SUFFICES ASSUME k + 1 <= n PROVE PassOK(curve, k + 1, after(k + 1))
        OBVIOUS
      <3>1. PassOK(curve, k, after(k))
        BY <1>1, <2>2
      <3>2. after(k + 1) = Drawdown(curve)[k + 1][after(k)]
        BY LoopGoesOn
      <3> HIDE DEF after
      <3> QED
        BY <3>1, <3>2, PassKeeps
    <2> HIDE DEF S
    <2>3. n \in S
      BY <1>1, <2>1, <2>2, NatSetInduction
    <2>4. PassOK(curve, n, after(n))
      BY <2>3 DEF S
    <2>5. MaxDrawdown(curve) = after(n).worst
      BY <1>4 DEF MaxDrawdown
    <2> HIDE DEF after
    <2> DEFINE w == after(n).worst
    <2>6. w \in {0} \union falls /\ \A f \in {0} \union falls : w <= f
      BY <1>2, <2>4 DEF PassOK
    <2>7. w \in Int
      BY <2>4 DEF PassOK
    <2>8. \A f \in falls : f \in Int
      <3> SUFFICES ASSUME NEW f \in falls PROVE f \in Int
        OBVIOUS
      <3>1. PICK i, j \in DOMAIN curve :
              i < j /\ j <= n /\ curve[i] > 0 /\ f = Fall(curve[j], curve[i])
        BY <1>1, <1>2, FallsAreKnown
      <3>2. curve[i] \in Nat \ {0} /\ curve[j] \in Nat
        BY <3>1
      <3> QED
        BY <3>1, <3>2, RiseIsNoFall
    <2> HIDE DEF w
    <2>9. Min({0} \union falls) = w
      <3> DEFINE F == {0} \union falls
      <3>1. F \subseteq Int
        BY <2>8
      <3>2. w \in F /\ \A f \in F : w <= f
        BY <2>6
      <3> HIDE DEF F
      <3>3. Min(F) \in F /\ \A f \in F : Min(F) <= f
        BY <3>2 DEF Min
      <3>4. Min(F) <= w /\ w <= Min(F) /\ Min(F) \in Int /\ w \in Int
        BY <3>1, <3>2, <3>3
      <3>5. Min(F) = w
        BY <3>4
      <3> QED
        BY <3>5 DEF F
    <2> QED
      BY <2>5, <2>9 DEF falls, w
  <1> QED
    BY <1>1, <1>3, <1>4

\* The drawdown of every report is the deepest fall of its curve.
THEOREM DrawdownIsRight == Spec => []DrawdownIsDeepest
  <1>1. IInv => DrawdownIsDeepest
    BY DeepestOfCurve DEF IInv, TypeOK, DrawdownIsDeepest
  <1> QED
    BY <1>1, InvariantHolds, PTL

=============================================================================
