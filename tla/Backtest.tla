------------------------------- MODULE Backtest -------------------------------
(***************************************************************************)
(* BacktestEngine.run of src/src/backtest/engine.py: the walk over the     *)
(* candles, the three exit layers, the purchases and sales and the money   *)
(* they move.  Candles, indicators and the strategy's signals are inputs.  *)
(* Closes and lows are in price units; stop levels, ATR and the price of a *)
(* purchase in ten-thousandths of them, which keeps slippage and hard stop *)
(* exact.  Amounts of money are rounded down.                              *)
(***************************************************************************)
EXTENDS Integers, Sequences

CONSTANTS
  Bars,            \* candles after the warm-up
  Closes, Lows,    \* prices a candle may show
  Atrs,            \* values of atr_14; 0: not available
  Sizes,           \* values of suggested_size; 0: none given
  InitialCapital,
  HardStopPct, AtrTrailMult, MaxHoldDays,  \* of the strategy
  FeePct,          \* fee of an order, in percent
  SlipPct          \* slippage of a fill, in percent

ASSUME BacktestAssumption ==
  /\ Bars \in Nat \ {0} /\ MaxHoldDays \in Nat \ {0} /\ InitialCapital \in Nat
  /\ Closes \subseteq Nat \ {0} /\ Lows \subseteq Nat
  /\ Atrs \subseteq Nat /\ Sizes \subseteq Nat
  /\ HardStopPct \in 0 .. 100 /\ FeePct \in 0 .. 99 /\ SlipPct \in 0 .. 99
  /\ AtrTrailMult \in Nat
  \* The floor of a purchase lies below the close it was made at.
  /\ (100 + SlipPct) * (100 - HardStopPct) <= 10000

MinTrade == 5   \* 5,000 KRW

VARIABLES
  bar,       \* the candle looked at next; Bars + 1 when the run returned
  close,     \* close of the candle before it
  capital,   \* KRW
  position,  \* position_*: basis is position_qty * position_buy_price
  trades,    \* the BacktestTrades
  equity     \* equity_curve: what the account is worth at each close

vars == <<bar, close, capital, position, trades, equity>>

Flat == [basis |-> 0, price |-> 0, atr |-> 0, trail |-> 0, hard |-> 0, bar |-> 0]

Holding == position.basis > 0

Init ==
  /\ bar = 0
  /\ close = 0
  /\ capital = InitialCapital
  /\ position = Flat
  /\ trades = <<>>
  /\ equity = <<>>

Level(p) == 10000 * p

Slipped(amount) == (amount * (100 - SlipPct)) \div 100

Fee(amount) == (amount * FeePct) \div 100

OrElse(x, y) == IF x # 0 THEN x ELSE y

\* A position at the close of a candle, without the costs of selling it.
Worth(p, c) == IF p.basis > 0 THEN (p.basis * Level(c)) \div p.price ELSE 0

\* The point a candle adds to the curve, after its sale or purchase.
Mark(c) == equity' = Append(equity, capital' + Worth(position', c))

-----------------------------------------------------------------------------
(* Selling.                                                                *)

\* Mutant: the fee is taken from the profit, not from the money.
SellAt_FeeKept(level) ==
  LET proceeds == Slipped((position.basis * level) \div position.price)
      fee == Fee(proceeds)
  IN /\ capital' = capital + proceeds
     /\ trades' = Append(trades, [side |-> "sell", fee |-> fee, basis |-> position.basis,
                                  pnl |-> proceeds - fee - position.basis])
     /\ position' = Flat

\* The whole position goes at a level, less slippage and fee.
SellAt(level) ==
  LET proceeds == Slipped((position.basis * level) \div position.price)
      fee == Fee(proceeds)
  IN /\ capital' = capital + proceeds - fee
     /\ trades' = Append(trades, [side |-> "sell", fee |-> fee, basis |-> position.basis,
                                  pnl |-> proceeds - fee - position.basis])
     /\ position' = Flat

\* Mutant: the days are counted from the bar after the purchase.
TimeIsUp_OffByOne == bar - position.bar > MaxHoldDays

TimeIsUp == bar - position.bar >= MaxHoldDays

\* Mutant: a position past its time is sold at the close before its floor is
\* looked at.
ExitLevel_TimeFirst(c, low) ==
  CASE TimeIsUp -> {Level(c)}
    [] ~TimeIsUp /\ Level(low) <= position.hard -> {position.hard}
    [] ~TimeIsUp /\ Level(low) > position.hard /\ Level(low) <= position.trail
         -> {position.trail}
    [] OTHER -> {}

\* The level of the first exit layer the candle reaches, if there is one.
ExitLevel(c, low) ==
  CASE Level(low) <= position.hard -> {position.hard}
    [] Level(low) > position.hard /\ Level(low) <= position.trail -> {position.trail}
    [] OTHER -> IF TimeIsUp THEN {Level(c)} ELSE {}

CurrentAtr(atr) == OrElse(atr, position.atr)

\* Only a bar without an exit moves the trail, and only upwards.
Ratcheted(c, atr) ==
  LET trail == Level(c) - AtrTrailMult * CurrentAtr(atr)
  IN IF CurrentAtr(atr) > 0 /\ trail > position.trail
     THEN [position EXCEPT !.trail = trail] ELSE position

-----------------------------------------------------------------------------
(* A candle.                                                               *)

Looked(c) ==
  /\ bar < Bars
  /\ bar' = bar + 1
  /\ close' = c

\* An exit layer: the strategy is not asked.
ExitBar(c, low) ==
  /\ Holding
  /\ \E level \in ExitLevel(c, low) : SellAt(level)
  /\ Mark(c)
  /\ Looked(c)

\* The strategy says SELL.
SignalSell(c, low) ==
  /\ Holding
  /\ ExitLevel(c, low) = {}
  /\ SellAt(Level(c))
  /\ Mark(c)
  /\ Looked(c)

\* HOLD, a BUY on top of a position or a SELL of nothing.
Idle(c, low, atr) ==
  /\ (Holding => ExitLevel(c, low) = {})
  /\ position' = IF Holding THEN Ratcheted(c, atr) ELSE position
  /\ UNCHANGED <<capital, trades>>
  /\ Mark(c)
  /\ Looked(c)

\* Mutant: more may be spent than there is.
TradeAmount_Uncapped(size) == OrElse(size, (capital * 95) \div 100)

TradeAmount(size) ==
  LET wanted == OrElse(size, (capital * 95) \div 100)
  IN IF wanted < capital THEN wanted ELSE capital

\* Mutant: a bar whose purchase is refused leaves no point on the curve.
TooSmall_Unmarked(c, size) ==
  /\ ~Holding
  /\ TradeAmount(size) < MinTrade
  /\ Looked(c)
  /\ UNCHANGED <<capital, position, trades, equity>>

TooSmall(c, size) ==
  /\ ~Holding
  /\ TradeAmount(size) < MinTrade
  /\ UNCHANGED <<capital, position, trades>>
  /\ Mark(c)
  /\ Looked(c)

\* Mutant: a BUY on top of a position is executed and replaces it.
Buy_OnTop(c, atr, size) ==
  LET amount == TradeAmount(size)
      price == 100 * c * (100 + SlipPct)
  IN /\ amount >= MinTrade
     /\ capital' = capital - amount
     /\ position' = [basis |-> amount - Fee(amount), price |-> price, atr |-> CurrentAtr(atr),
                     trail |-> price - AtrTrailMult * CurrentAtr(atr),
                     hard |-> (price * (100 - HardStopPct)) \div 100, bar |-> bar]
     /\ trades' = Append(trades, [side |-> "buy", fee |-> Fee(amount),
                                  basis |-> amount - Fee(amount), pnl |-> 0])
     /\ Mark(c)
     /\ Looked(c)

Buy(c, atr, size) ==
  LET amount == TradeAmount(size)
      price == 100 * c * (100 + SlipPct)
  IN /\ ~Holding
     /\ amount >= MinTrade
     /\ capital' = capital - amount
     /\ position' = [basis |-> amount - Fee(amount), price |-> price, atr |-> CurrentAtr(atr),
                     trail |-> price - AtrTrailMult * CurrentAtr(atr),
                     hard |-> (price * (100 - HardStopPct)) \div 100, bar |-> bar]
     /\ trades' = Append(trades, [side |-> "buy", fee |-> Fee(amount),
                                  basis |-> amount - Fee(amount), pnl |-> 0])
     /\ Mark(c)
     /\ Looked(c)

\* Mutant: a position still open after the last candle is given up unsold.
End_Unsold ==
  /\ bar = Bars
  /\ bar' = Bars + 1
  /\ position' = Flat
  /\ UNCHANGED <<capital, trades, close, equity>>

\* After the last candle an open position is sold at its close.
End ==
  /\ bar = Bars
  /\ bar' = Bars + 1
  /\ IF Holding THEN SellAt(Level(close)) ELSE UNCHANGED <<capital, position, trades>>
  /\ UNCHANGED <<close, equity>>

Next ==
  \/ \E c \in Closes, low \in Lows :
       /\ low <= c
       /\ \/ ExitBar(c, low)
          \/ SignalSell(c, low)
          \/ \E atr \in Atrs : Idle(c, low, atr)
  \/ \E c \in Closes, size \in Sizes :
       \/ TooSmall(c, size)
       \/ \E atr \in Atrs : Buy(c, atr, size)
  \/ End

Spec == Init /\ [][Next]_vars

-----------------------------------------------------------------------------
Trade == [side : {"buy", "sell"}, fee : Nat, basis : Nat, pnl : Int]

Position == [basis : Nat, price : Nat, atr : Nat, trail : Int, hard : Nat, bar : Nat]

TypeOK ==
  /\ bar \in 0 .. Bars + 1
  /\ close \in Closes \union {0}
  /\ capital \in Nat
  /\ position \in Position
  /\ trades \in Seq(Trade)
  /\ equity \in Seq(Nat)

\* Whatever the candles, and whichever layer, signal or end closes it, a sale
\* brings at least what the hard stop would, after slippage.
LossBounded ==
  \A i \in 1 .. Len(trades) :
    LET t == trades[i]
    IN t.side = "sell" =>
         t.basis + t.pnl + t.fee >= Slipped((t.basis * (100 - HardStopPct)) \div 100)

\* No position is carried past a bar on which its time is up.
HeldWithinLimit == Holding => bar - 1 - position.bar < MaxHoldDays

\* The equity curve has one point per candle, whichever way a candle ends.
OnePointPerBar == bar <= Bars => Len(equity) = bar

\* There is one position at a time: purchases and sales alternate, and when the
\* run has returned every purchase has its sale.
RoundTrips ==
  /\ \A i \in 1 .. Len(trades) : trades[i].side = IF i % 2 = 1 THEN "buy" ELSE "sell"
  /\ Holding <=> Len(trades) % 2 = 1
  /\ bar > Bars => ~Holding

=============================================================================
