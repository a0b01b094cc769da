------------------------------- MODULE RiskGate -------------------------------
(***************************************************************************)
(* The money of a tick: how the strategies size a purchase, what the risk  *)
(* rules of src/src/risk say of it, and what the executor then spends.     *)
(* The portfolio is read once when a tick starts; the visits to the        *)
(* markets follow one another with that reading while cash and holdings    *)
(* change.  A holding is its cost, which is the value both executors       *)
(* report; prices appear as the gain or loss a sale realises.  Money is in *)
(* units of 500 KRW, so fees and slippage (0.1 % together) are below the   *)
(* unit and left out.                                                      *)
(***************************************************************************)
EXTENDS Integers, FiniteSetsExt, Loops

CONSTANTS
  NVisits,         \* visits of a tick: markets of the one enabled strategy
  Modes,           \* executors a run may start with: "paper", "live"
  StartCash,       \* set of initial KRW balances
  Outside,         \* set of values of holdings the bot does not manage
  BaseCapital,     \* base_capital of the strategies
  RiskPcts,        \* risk-based sizes in percent of the capital (ATR decides)
  Gains,           \* what a sale returns, in percent of the cost
  MaxTicks,        \* bound on the ticks of a behaviour
  MaxSingleAssetPct, MaxTotalInvestmentPct, MaxConcurrentPositions,
  MaxDailyLossPct, MaxDrawdownPct, MaxConsecutiveLosses  \* risk.yaml

ASSUME RiskGateAssumption ==
  /\ NVisits \in Nat \ {0}
  /\ Modes \subseteq {"paper", "live"}
  /\ StartCash \subseteq Nat
  /\ Outside \subseteq Nat
  /\ BaseCapital \in Nat /\ MaxTicks \in Nat
  /\ RiskPcts \subseteq Nat /\ Gains \subseteq Nat
  /\ \A pct \in {MaxSingleAssetPct, MaxTotalInvestmentPct, MaxDailyLossPct,
                 MaxDrawdownPct} : pct \in 1 .. 100
  /\ MaxConcurrentPositions \in Nat /\ MaxConsecutiveLosses \in Nat

Market == 1 .. NVisits

MinOrder == 10     \* 5,000 KRW

VARIABLES
  mode,       \* the executor in use
  outside,    \* value of the coins held outside the bot's markets
  cash,       \* KRW balance of the account
  cost,       \* cost of what is held, by market
  ticks,      \* the number of ticks started
  at,         \* the market visited next; 0 between two ticks
  portfolio,  \* the PortfolioState of the tick
  spent,      \* history: KRW of the buy requests of this tick
  largest,    \* history: the largest of them
  peak        \* history: the largest total balance read by a tick so far

vars == <<mode, outside, cash, cost, ticks, at, portfolio, spent, largest, peak>>

Invested(c) == SumTo(c, NVisits)

NotHeld == [m \in Market |-> 0]

Init ==
  /\ mode \in Modes
  /\ outside \in Outside
  /\ (mode = "paper" => outside = 0)
  /\ cash \in StartCash
  /\ cost = NotHeld
  /\ ticks = 0
  /\ at = 0
  /\ portfolio = [total |-> 0, available |-> 0, positions |-> NotHeld, pnl |-> 0,
                  peak |-> 0, losses |-> 0]
  /\ spent = 0
  /\ largest = 0
  /\ peak = 0

-----------------------------------------------------------------------------
(* The size of a purchase.                                                 *)

\* Mutant: the capital is the whole portfolio, not what is free.
EffectiveCapital_Total(p) == IF p.total > 0 THEN p.total ELSE BaseCapital

\* The balance of the tick, or base_capital when there is none.
EffectiveCapital(p) == IF p.available > 0 THEN p.available ELSE BaseCapital

Smaller(a, b) == IF a < b THEN a ELSE b

\* round(position_krw, -3): Python rounds a half to the even thousand.
RoundToThousand(numerator, denominator) ==
  LET half == numerator \div (2 * denominator)
      rest == numerator - half * 2 * denominator
  IN 2 * CASE rest < denominator -> half
           [] rest > denominator -> half + 1
           [] OTHER -> half + (half % 2)

\* Mutant: the size that the risk budget allows is not capped.
SuggestedSize_Uncapped(pct, p) == RoundToThousand(EffectiveCapital(p) * pct, 100)

SuggestedSize(pct, p) ==
  RoundToThousand(EffectiveCapital(p) * Smaller(pct, 20), 100)

-----------------------------------------------------------------------------
(* The rules, each answering a decision for a purchase of the given size.  *)

\* Mutant: the filter on managed_markets is inverted.
ManagedInvestment_Others(p) == p.total - p.available - Invested(p.positions)

\* Costs are summed over managed_markets: what is outside does not count.
ManagedInvestment(p) == Invested(p.positions)

\* Mutant: nothing is kept back for the balance actually available.
MaxAllowed_NoReserve(p) ==
  Smaller(MaxSingleAssetPct * p.total,
          MaxTotalInvestmentPct * p.total - 100 * ManagedInvestment(p))

\* Everything in percent of a unit: max_allowed is the least of three limits.
MaxAllowed(p) ==
  Min({MaxSingleAssetPct * p.total,
       MaxTotalInvestmentPct * p.total - 100 * ManagedInvestment(p),
       (999 * p.available) \div 10})

MaxPositionSizeRule(size, p) ==
  IF \/ Cardinality({m \in Market : p.positions[m] > 0}) >= MaxConcurrentPositions
     \/ p.total > 0 /\ 100 * ManagedInvestment(p) >= MaxTotalInvestmentPct * p.total
  THEN "reject"
  ELSE IF 100 * size <= MaxAllowed(p) THEN "approve"
  ELSE IF MaxAllowed(p) <= 0 THEN "reject" ELSE "modify"

DailyLossLimitRule(p) ==
  IF p.total > 0 /\ -100 * p.pnl >= MaxDailyLossPct * p.total
  THEN "reject" ELSE "approve"

MDDCircuitBreakerRule(p) ==
  IF p.peak > 0 /\ 100 * (p.peak - p.total) >= MaxDrawdownPct * p.peak
  THEN "reject" ELSE "approve"

ConsecutiveLossGuardRule(p) ==
  IF p.losses >= MaxConsecutiveLosses THEN "reject" ELSE "approve"

\* RiskEngine.check: the first REJECT decides, a MODIFY changes a copy of the
\* signal and the answer is APPROVE.
Approved(size, p) ==
  "reject" \notin {MaxPositionSizeRule(size, p), DailyLossLimitRule(p),
                   MDDCircuitBreakerRule(p), ConsecutiveLossGuardRule(p)}

-----------------------------------------------------------------------------
(* The tick.                                                               *)

StartTick(read) ==
  /\ at = 0
  /\ ticks < MaxTicks
  /\ ticks' = ticks + 1
  /\ portfolio' = read
  /\ peak' = Max({peak, read.total})
  /\ spent' = 0
  /\ largest' = 0
  /\ at' = 1
  /\ UNCHANGED <<mode, outside, cash, cost>>

\* The account is read; peak_balance is the total just computed and the other
\* statistics keep their defaults.
PortfolioRead ==
  LET total == cash + Invested(cost) + outside
  IN StartTick([total |-> total, available |-> cash, positions |-> cost, pnl |-> 0,
                peak |-> total, losses |-> 0])

\* The exchange does not answer: an empty portfolio.
PortfolioFails ==
  /\ mode = "live"
  /\ StartTick([total |-> 0, available |-> 0, positions |-> NotHeld, pnl |-> 0,
                peak |-> 0, losses |-> 0])

\* Mutant: the loop over the markets does not end.
Return_Overrun == at' = at + 1

Return == at' = IF at < NVisits THEN at + 1 ELSE 0

\* An exit layer or nothing to do: HOLD, or a purchase the rules reject.
NoOrder ==
  /\ at \in Market
  /\ Return
  /\ UNCHANGED <<mode, outside, cash, cost, ticks, portfolio, spent, largest, peak>>

\* An exit layer fires on a market the portfolio shows as held; sells pass the
\* rules, and what is held is sold at a gain or a loss.
ExitLayer(gain) ==
  /\ at \in Market
  /\ portfolio.positions[at] > 0
  /\ cash' = cash + (cost[at] * gain) \div 100
  /\ cost' = [cost EXCEPT ![at] = 0]
  /\ Return
  /\ UNCHANGED <<mode, outside, ticks, portfolio, spent, largest, peak>>

\* What the executor is asked to spend.  The paper executor takes a size of
\* zero for a missing one and spends 95 % of its balance.
Requested(size) ==
  IF mode = "live" THEN size
  ELSE Smaller(IF size = 0 THEN (95 * cash) \div 100 ELSE size, cash)

\* The order goes out with signal.suggested_size: what a MODIFY allowed is
\* gone with the copy of the signal.  Upbit refuses what the cash cannot pay.
Buy(pct) ==
  LET size == SuggestedSize(pct, portfolio)
      krw == Requested(size)
  IN /\ at \in Market
     /\ Approved(size, portfolio)
     /\ krw >= MinOrder
     /\ IF krw <= cash
        THEN /\ cash' = cash - krw
             /\ cost' = [cost EXCEPT ![at] = @ + krw]
        ELSE UNCHANGED <<cash, cost>>
     /\ spent' = spent + (IF size = 0 THEN krw ELSE size)
     /\ largest' = Max({largest, krw})
     /\ Return
     /\ UNCHANGED <<mode, outside, ticks, portfolio, peak>>

Next ==
  \/ PortfolioRead
  \/ PortfolioFails
  \/ NoOrder
  \/ \E gain \in Gains : ExitLayer(gain)
  \/ \E pct \in RiskPcts : Buy(pct)

Spec == Init /\ [][Next]_vars

-----------------------------------------------------------------------------
Reading ==
  [total : Nat, available : Nat, positions : [Market -> Nat], pnl : {0},
   peak : Nat, losses : {0}]

TypeOK ==
  /\ mode \in Modes
  /\ outside \in Outside
  /\ cash \in Nat
  /\ cost \in [Market -> Nat]
  /\ ticks \in 0 .. MaxTicks
  /\ at \in 0 .. NVisits
  /\ portfolio \in Reading
  /\ spent \in Nat
  /\ largest \in Nat
  /\ peak \in Nat

\* On paper, a size that rounds to zero is taken for a missing one, and 95 % of the
\* balance is spent.
ZeroSized == mode = "paper" /\ \E pct \in RiskPcts : SuggestedSize(pct, portfolio) = 0

\* The purchases of one tick are all sized and checked against the portfolio
\* read at its start; together they never ask for more than was available then,
\* so none of them is cut short or refused for lack of cash.  It holds while at
\* most 4 markets are visited: every visit may ask for 20 % and its rounding; and
\* but for sizes of zero.
TickNeverOvercommits == ZeroSized \/ spent <= portfolio.available

\* base_capital stands in for an unknown balance when a size is computed; no
\* purchase is requested on it, whether the read failed or the balance is zero.
NoOrderOnEmptyBalance == at # 0 /\ portfolio.available = 0 => spent = 0

\* The limit of 70 % is overshot: a MODIFY is not applied and the visits of a
\* tick do not see each other.  Still each visit adds at most a fifth of what is
\* not invested, so after three of them at most 88 % is (and their rounding),
\* again but for sizes of zero.
OvershootBounded ==
  spent > 0 /\ ~ZeroSized =>
    500 * Invested(cost)
      <= (5 * MaxTotalInvestmentPct + (100 - MaxTotalInvestmentPct) * NVisits)
           * portfolio.total
         + 500 * NVisits

\* "At a drawdown of 16.7 % ... the circuit breaker trips! All trading stops"
\* (GUIDE.md:528): no purchase when the balance read is too far below the peak.
BreakerHalts ==
  [][spent' > spent => 100 * (peak - portfolio.total) < MaxDrawdownPct * peak]_vars

\* "Cap: never more than 20% of effective capital per trade"
\* (trend_filtered_breakout.py:182): no request of a tick asks for more, give or
\* take the rounding of half a thousand, but for sizes of zero.
CapUnlessZero == 5 * largest > EffectiveCapital(portfolio) + 5 => ZeroSized

=============================================================================
