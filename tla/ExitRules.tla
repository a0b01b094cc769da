------------------------------ MODULE ExitRules ------------------------------
(***************************************************************************)
(* The stop arithmetic of src/src/core/trading_engine.py: how the record   *)
(* the engine keeps of an open position (_PositionInfo) is created,        *)
(* tightened on every evaluation and turned into a reason to sell, and     *)
(* how it is rebuilt when it is missing.                                   *)
(*                                                                         *)
(* Units.  A price is a whole number of KRW units; a stop level and an     *)
(* ATR are in hundredths of that unit, so that every percentage the code   *)
(* applies (0.95, 0.97, 0.03, 1 - hard_stop_pct ...) stays exact and a     *)
(* price p is at or below a stop x when 100 * p <= x.  Time is in whole    *)
(* hours of Korean time since some midnight.                               *)
(***************************************************************************)
EXTENDS Integers

CONSTANTS
  NStrategy,    \* the engine's strategies are 1 .. NStrategy, in its order
  HardStopPct,  \* hard_stop_pct of each strategy, in percent
  TrailPct,     \* trailing_stop_pct of each strategy, in percent; 0: ATR trail
  AtrMult,      \* atr_trail_mult of each strategy
  MaxHoldDays,  \* max_hold_days of each strategy
  MaxHoldHours, \* max_hold_hours of each strategy; negative: not configured
  ReadsAtr14    \* does the strategy ask for atr_14 (and not for atr_24)

Strategy == 1 .. NStrategy

ASSUME ExitRulesAssumption ==
  /\ NStrategy \in Nat \ {0}
  /\ HardStopPct \in [Strategy -> 0 .. 100]
  /\ TrailPct \in [Strategy -> 0 .. 100]
  /\ AtrMult \in [Strategy -> Nat]
  /\ MaxHoldDays \in [Strategy -> Int]
  /\ MaxHoldHours \in [Strategy -> Int]
  /\ ReadsAtr14 \in [Strategy -> BOOLEAN]

\* _PositionInfo.  An ATR trail may lie below zero, so trail is an integer.
Position ==
  [entry : Nat, atr : Nat, trail : Int, hard : Nat,
   session : Int, high : Nat, time : Int]

\* The Upbit session a moment belongs to: days roll over at 09:00 KST.
SessionDate(t) == IF t % 24 < 9 THEN (t \div 24) - 1 ELSE t \div 24

\* indicators.get("atr_14"), 0 when the strategy did not ask for it.
Atr14(s, a) == IF ReadsAtr14[s] THEN a ELSE 0

\* Python's "x or y" on numbers.
OrElse(x, y) == IF x # 0 THEN x ELSE y

\* Both stops lie at or below the peak: a new high triggers neither.
BelowPeak(r) ==
  /\ r.trail <= 100 * r.high
  /\ r.hard <= 100 * r.entry
  /\ r.entry <= r.high

-----------------------------------------------------------------------------
(* Where a stop lies under a peak price.                                   *)

TrailUnder(s, peak, atr) ==
  IF TrailPct[s] > 0 THEN peak * (100 - TrailPct[s])
                     ELSE 100 * peak - AtrMult[s] * atr

\* The record written when a buy fills at a price.
NewPosition(s, price, a, t) ==
  [entry   |-> price,
   atr     |-> a,
   trail   |-> TrailUnder(s, price, a),
   hard    |-> price * (100 - HardStopPct[s]),
   session |-> SessionDate(t),
   high    |-> price,
   time    |-> t]

\* The conservative record made up for a holding nothing is known about.
FallbackPosition(s, p, a, t) ==
  [entry   |-> p,
   atr     |-> OrElse(Atr14(s, a), 3 * p),
   trail   |-> 97 * p,
   hard    |-> 95 * p,
   session |-> SessionDate(t) - 1,
   high    |-> p,
   time    |-> t - 25]

\* The record rebuilt from the market's most recent buy in the trades table.
DbPosition(s, buy, a) ==
  LET atr == OrElse(Atr14(s, a), 3 * buy.price) IN
  [entry   |-> buy.price,
   atr     |-> atr,
   trail   |-> 100 * buy.price - 2 * atr,
   hard    |-> 95 * buy.price,
   session |-> SessionDate(buy.time),
   high    |-> buy.price,
   time    |-> buy.time]

-----------------------------------------------------------------------------
(* One evaluation of a record against the current price.                   *)

PeakWith(pos, p) == IF p > pos.high THEN p ELSE pos.high

\* A percentage trail follows the peak on every tick, an ATR trail only once
\* the session of the buy is over.
TrailMoves(s, pos, t) ==
  \/ TrailPct[s] > 0
  \/ SessionDate(t) > pos.session

\* Mutant: the trail is recomputed without the comparison with the old one.
Refreshed_Loosens(s, pos, p, a, t) ==
  LET peak == PeakWith(pos, p) IN
  [pos EXCEPT !.high  = peak,
              !.trail = IF TrailMoves(s, pos, t)
                        THEN TrailUnder(s, peak, OrElse(Atr14(s, a), pos.atr))
                        ELSE @]

Refreshed(s, pos, p, a, t) ==
  LET peak  == PeakWith(pos, p)
      trail == TrailUnder(s, peak, OrElse(Atr14(s, a), pos.atr))
  IN [pos EXCEPT
        !.high  = peak,
        !.trail = IF TrailMoves(s, pos, t) /\ trail > pos.trail
                  THEN trail ELSE pos.trail]

\* A strategy with an hours limit is never held to its days limit.
Overstayed(s, pos, t) ==
  IF MaxHoldHours[s] >= 0
  THEN t - pos.time >= MaxHoldHours[s]
  ELSE SessionDate(t) - pos.session >= MaxHoldDays[s]

ExitReason(s, pos, p, t) ==
  CASE 100 * p <= pos.hard -> "HARD_STOP"
    [] 100 * p > pos.hard /\ 100 * p <= pos.trail ->
         IF TrailPct[s] > 0 THEN "PCT_TRAIL" ELSE "ATR_TRAIL"
    [] OTHER -> IF Overstayed(s, pos, t) THEN "TIME_EXIT" ELSE "NONE"

\* The exits that override a risk-engine rejection.
Protective(why) == why \in {"HARD_STOP", "ATR_TRAIL"}

=============================================================================
