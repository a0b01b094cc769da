---------------------------- MODULE RiskGateProofs ----------------------------
(***************************************************************************)
(* Proofs about RiskGate for any balances, risk percentages and limits:    *)
(* the 20 % cap of a purchase and its one exception, what a tick can spend *)
(* of the balance it has read, how far the limit on the whole investment   *)
(* is overshot, that no purchase is sized from an unknown balance, and     *)
(* that no rule but the size of the position ever rejects.                 *)
(*                                                                         *)
(* What a tick spends is not inductive by itself: what a visit adds is     *)
(* bounded by the reading, so the invariant counts the visits made and     *)
(* relates the sums over the markets to the reading of the tick.           *)
(***************************************************************************)
EXTENDS RiskGate, LoopTheorems

\* The visits made since the reading.
Visits == IF at = 0 THEN NVisits ELSE at - 1

\* The parts of the balance read are no more than its total.
ReadingAddsUp == portfolio.total >= portfolio.available + Invested(portfolio.positions)

\* Every visit requests a fifth of the capital at most, and its rounding.
SpentPerVisit == ~ZeroSized => 5 * spent <= Visits * (EffectiveCapital(portfolio) + 5)

\* What is held was there when the balance was read or was bought since.
HeldOrBought ==
  portfolio.available > 0 => Invested(cost) <= Invested(portfolio.positions) + spent

\* A purchase was sized from a balance that bears the least order, and passed
\* the limit on the whole investment.
SpentOnBalance ==
  spent > 0 /\ ~ZeroSized =>
    /\ portfolio.available >= 45
    /\ 100 * Invested(portfolio.positions) <= MaxTotalInvestmentPct * portfolio.total

IInv ==
  /\ TypeOK
  /\ CapUnlessZero
  /\ ReadingAddsUp
  /\ SpentPerVisit
  /\ HeldOrBought
  /\ SpentOnBalance

-----------------------------------------------------------------------------
\* Rounding to the even thousand moves an amount by at most half a thousand,
\* which is one unit.
LEMMA RoundingIsHalf ==
  ASSUME NEW n \in Nat, NEW d \in Nat \ {0}
  PROVE  RoundToThousand(n, d) \in Nat /\ d * RoundToThousand(n, d) <= n + d
  <1> DEFINE half == n \div (2 * d)
             rest == n - half * 2 * d
  <1>1. half \in Nat /\ (2 * d) * half <= n /\ n < (2 * d) * (half + 1)
    <2>1. 2 * d \in Nat \ {0}
      OBVIOUS
    <2> QED
      BY <2>1
  <1>2. RoundToThousand(n, d) = 2 * CASE rest < d -> half
                                      [] rest > d -> half + 1
                                      [] OTHER -> half + (half % 2)
    BY DEF RoundToThousand
  <1> HIDE DEF half
  <1>3. d * half \in Nat /\ rest = n - 2 * (d * half) /\ rest \in Nat
    BY <1>1
  <1> HIDE DEF rest
  <1>4. CASE rest < d
    <2>1. RoundToThousand(n, d) = 2 * half
      BY <1>2, <1>3, <1>4
    <2> QED
      BY <1>1, <1>3, <2>1
  <1>5. CASE rest >= d
    <2>1. PICK k \in {half, half + 1} : RoundToThousand(n, d) = 2 * k
      <3>1. half % 2 \in {0, 1}
        BY <1>1
      <3> QED
        BY <1>1, <1>2, <1>3, <1>5, <3>1
    <2>2. d * k <= d * half + d
      BY <1>1, <1>3, <2>1
    <2>3. k \in Nat /\ d * k \in Nat /\ d * (2 * k) = 2 * (d * k)
      BY <1>1, <2>1
    <2>4. 2 * (d * k) <= n + d
      BY <1>3, <1>5, <2>2, <2>3
    <2> QED
      BY <2>1, <2>3, <2>4
  <1> QED
    BY <1>3, <1>4, <1>5

\* The fields of the reading are numbers.
LEMMA ReadingFields ==
  ASSUME NEW p \in Reading
  PROVE  /\ p.total \in Nat /\ p.available \in Nat /\ p.positions \in [Market -> Nat]
         /\ p.pnl = 0 /\ p.peak \in Nat /\ p.losses = 0
  BY DEF Reading

LEMMA CapitalIsNumber ==
  ASSUME TypeOK
  PROVE  EffectiveCapital(portfolio) \in Nat
  <1>1. portfolio.available \in Nat
    BY ReadingFields DEF TypeOK
  <1> QED
    BY <1>1, RiskGateAssumption DEF EffectiveCapital

\* What is invested is a number.
LEMMA InvestedIsNumber ==
  ASSUME NEW c \in [Market -> Nat]
  PROVE  Invested(c) \in Nat
  <1>1. NVisits \in Nat /\ \A i \in 1 .. NVisits : c[i] \in Nat
    BY RiskGateAssumption DEF Market
  <1> QED
    BY <1>1, SumOfNats DEF Invested

\* One market's cost that changes makes the whole difference.
LEMMA InvestedChanges ==
  ASSUME NEW c \in [Market -> Nat], NEW m \in Market, NEW v \in Nat
  PROVE  Invested([c EXCEPT ![m] = v]) = Invested(c) + v - c[m]
  <1> DEFINE d == [c EXCEPT ![m] = v]
  <1>1. NVisits \in Nat /\ m \in 1 .. NVisits /\ d[m] = v
    BY RiskGateAssumption DEF Market
  <1>2. \A i \in 1 .. NVisits : c[i] \in Int /\ d[i] \in Int
    BY DEF Market
  <1>3. \A i \in 1 .. NVisits : m # i => d[i] = c[i]
    BY DEF Market
  <1> HIDE DEF d
  <1>4. SumTo(d, NVisits) = SumTo(c, NVisits) + d[m] - c[m]
    BY <1>1, <1>2, <1>3, SumOfChanged
  <1> QED
    BY <1>1, <1>4 DEF Invested, d

\* The size a strategy suggests is a fifth of its capital at most.
LEMMA SizeIsCapped ==
  ASSUME TypeOK, NEW pct \in RiskPcts
  PROVE  /\ SuggestedSize(pct, portfolio) \in Nat
         /\ 5 * SuggestedSize(pct, portfolio) <= EffectiveCapital(portfolio) + 5
  <1> DEFINE capital == EffectiveCapital(portfolio)
             share == Smaller(pct, 20)
             size == RoundToThousand(capital * share, 100)
  <1>1. capital \in Nat
    BY CapitalIsNumber
  <1>2. share \in Nat /\ share <= 20
    BY RiskGateAssumption DEF Smaller
  <1>3. SuggestedSize(pct, portfolio) = size
    BY DEF SuggestedSize
  <1> HIDE DEF capital, share
  <1>4. capital * share \in Nat /\ capital * share <= 20 * capital
    BY <1>1, <1>2
  <1>5. size \in Nat /\ 100 * size <= capital * share + 100
    BY <1>4, RoundingIsHalf
  <1> QED
    BY <1>1, <1>3, <1>4, <1>5 DEF capital

\* The larger of two amounts is one of them.
LEMMA LargerIsOne ==
  ASSUME NEW a \in Nat, NEW b \in Nat
  PROVE  Max({a, b}) \in {a, b}
  <1>1. \E x \in {a, b} : \A y \in {a, b} : x >= y
    OBVIOUS
  <1> QED
    BY <1>1 DEF Max

LEMMA NothingInvested == NotHeld \in [Market -> Nat] /\ Invested(NotHeld) = 0
  <1>1. NVisits \in Nat /\ \A i \in 1 .. NVisits : NotHeld[i] = 0
    BY RiskGateAssumption DEF NotHeld, Market
  <1>2. SumTo(NotHeld, NVisits) = 0
    BY <1>1, SumOfZeros
  <1> QED
    BY <1>2 DEF Invested, NotHeld

\* The visits are counted from 0 to NVisits.
LEMMA VisitsCount ==
  ASSUME TypeOK
  PROVE  Visits \in 0 .. NVisits
  BY RiskGateAssumption DEF TypeOK, Visits

LEMMA VisitIsCounted ==
  ASSUME TypeOK, at \in Market, Return
  PROVE  Visits' = Visits + 1 /\ at' \in 0 .. NVisits
  BY RiskGateAssumption DEF TypeOK, Visits, Return, Market

-----------------------------------------------------------------------------
(* The invariant holds at the start.                                       *)

\* Without a request of this tick, nothing is spent and nothing is large.
LEMMA NothingSpent ==
  ASSUME TypeOK, spent = 0, largest = 0
  PROVE  CapUnlessZero /\ SpentPerVisit /\ SpentOnBalance
  <1>1. EffectiveCapital(portfolio) \in Nat /\ Visits \in Nat
    BY CapitalIsNumber, VisitsCount, RiskGateAssumption
  <1>2. Visits * (EffectiveCapital(portfolio) + 5) \in Nat
    BY <1>1
  <1> QED
    BY <1>1, <1>2 DEF CapUnlessZero, SpentPerVisit, SpentOnBalance

LEMMA InitOK == Init => IInv
  <1> SUFFICES ASSUME Init PROVE IInv
    OBVIOUS
  <1>1. portfolio \in Reading
    BY NothingInvested DEF Init, Reading
  <1>2. TypeOK
    BY <1>1, NothingInvested, RiskGateAssumption DEF Init, TypeOK
  <1>3. ReadingAddsUp /\ HeldOrBought
    BY NothingInvested DEF Init, ReadingAddsUp, HeldOrBought
  <1>4. spent = 0 /\ largest = 0
    BY DEF Init
  <1> QED
    BY <1>2, <1>3, <1>4, NothingSpent DEF IInv

-----------------------------------------------------------------------------
(* Every action keeps it.                                                  *)

\* A reading that adds up starts a tick without requests; when the reading
\* shows a balance, it shows all that is held.
LEMMA StartKeeps ==
  ASSUME IInv, NEW read \in Reading, StartTick(read),
         read.total >= read.available + Invested(read.positions),
         read.available > 0 => read.positions = cost
  PROVE  IInv'
  <1>1. /\ portfolio' = read /\ spent' = 0 /\ largest' = 0
        /\ cost' = cost /\ mode' = mode /\ outside' = outside /\ cash' = cash
    BY DEF StartTick
  <1>2. at' \in 0 .. NVisits /\ ticks' \in 0 .. MaxTicks
    BY RiskGateAssumption DEF IInv, TypeOK, StartTick
  <1>3. peak' \in Nat
    <2>1. peak \in Nat /\ read.total \in Nat
      BY ReadingFields DEF IInv, TypeOK
    <2>2. Max({peak, read.total}) \in {peak, read.total}
      BY <2>1, LargerIsOne
    <2>3. peak' = Max({peak, read.total})
      BY DEF StartTick
    <2> QED
      BY <2>1, <2>2, <2>3
  <1>4. TypeOK'
    BY <1>1, <1>2, <1>3 DEF IInv, TypeOK
  <1>5. (CapUnlessZero /\ SpentPerVisit /\ SpentOnBalance)'
    <2>1. EffectiveCapital(portfolio)' \in Nat
      BY <1>1, ReadingFields, RiskGateAssumption DEF EffectiveCapital
    <2>2. Visits' = 0
      BY DEF StartTick, Visits
    <2>3. Visits' * (EffectiveCapital(portfolio)' + 5) = 0
      BY <2>1, <2>2
    <2> QED
      BY <1>1, <2>1, <2>3 DEF CapUnlessZero, SpentPerVisit, SpentOnBalance
  <1>6. ReadingAddsUp'
    BY <1>1 DEF ReadingAddsUp, Invested
  <1>7. HeldOrBought'
    <2>1. Invested(cost) \in Nat
      BY InvestedIsNumber DEF IInv, TypeOK
    <2> QED
      BY <1>1, <2>1 DEF HeldOrBought, Invested
  <1> QED
    BY <1>4, <1>5, <1>6, <1>7 DEF IInv

LEMMA ReadingKeeps ==
  ASSUME IInv, PortfolioRead
  PROVE  IInv'
  <1> DEFINE total == cash + Invested(cost) + outside
             read == [total |-> total, available |-> cash, positions |-> cost,
                      pnl |-> 0, peak |-> total, losses |-> 0]
  <1>1. /\ cash \in Nat /\ cost \in [Market -> Nat] /\ outside \in Nat
        /\ Invested(cost) \in Nat
    BY InvestedIsNumber, RiskGateAssumption DEF IInv, TypeOK
  <1>2. total \in Nat /\ total >= cash + Invested(cost)
    BY <1>1
  <1>3. StartTick(read)
    BY DEF PortfolioRead
  <1> HIDE DEF total
  <1>4. read \in Reading
    BY <1>1, <1>2 DEF Reading
  <1> QED
    BY <1>2, <1>3, <1>4, StartKeeps

LEMMA FailureKeeps ==
  ASSUME IInv, PortfolioFails
  PROVE  IInv'
  <1> DEFINE read == [total |-> 0, available |-> 0, positions |-> NotHeld, pnl |-> 0,
                      peak |-> 0, losses |-> 0]
  <1>1. StartTick(read)
    BY DEF PortfolioFails
  <1>2. read \in Reading
    BY NothingInvested DEF Reading
  <1>3. read.total >= read.available + Invested(read.positions)
    BY NothingInvested
  <1> QED
    BY <1>1, <1>2, <1>3, StartKeeps


\* A visit that requests nothing leaves the cash and the holdings of others.
LEMMA QuietVisitKeeps ==
  ASSUME IInv, at \in Market, Return, cash' \in Nat, cost' \in [Market -> Nat],
         Invested(cost)' <= Invested(cost),
         UNCHANGED <<mode, outside, ticks, portfolio, spent, largest, peak>>
  PROVE  IInv'
  <1>1. Visits' = Visits + 1 /\ at' \in 0 .. NVisits /\ Visits \in Nat
    BY VisitIsCounted, VisitsCount, RiskGateAssumption DEF IInv
  <1>2. TypeOK'
    BY <1>1 DEF IInv, TypeOK
  <1>3. /\ EffectiveCapital(portfolio)' = EffectiveCapital(portfolio)
        /\ EffectiveCapital(portfolio) \in Nat
        /\ ZeroSized' = ZeroSized
    BY CapitalIsNumber DEF IInv, EffectiveCapital, ZeroSized, SuggestedSize
  <1>4. CapUnlessZero'
    BY <1>3 DEF IInv, CapUnlessZero
  <1>5. ReadingAddsUp'
    BY DEF IInv, ReadingAddsUp, Invested
  <1>6. SpentPerVisit'
    <2> DEFINE E == EffectiveCapital(portfolio)
    <2>1. spent \in Nat /\ E \in Nat
      BY <1>3 DEF IInv, TypeOK
    <2>2. ~ZeroSized => 5 * spent <= Visits * (E + 5)
      BY DEF IInv, SpentPerVisit
    <2> HIDE DEF E
    <2>3. (Visits + 1) * (E + 5) = Visits * (E + 5) + (E + 5) /\ Visits * (E + 5) \in Nat
      BY <1>1, <2>1
    <2>4. ~ZeroSized => 5 * spent <= (Visits + 1) * (E + 5)
      BY <2>1, <2>2, <2>3
    <2> QED
      BY <1>1, <1>3, <2>4 DEF SpentPerVisit, E
  <1>7. HeldOrBought'
    <2>1. Invested(portfolio.positions)' = Invested(portfolio.positions)
      BY DEF Invested
    <2>2. Invested(portfolio.positions) \in Nat /\ Invested(cost) \in Nat
          /\ Invested(cost)' \in Nat /\ spent \in Nat
      <3>1. portfolio.positions \in [Market -> Nat] /\ cost \in [Market -> Nat]
        BY ReadingFields DEF IInv, TypeOK
      <3>2. \A c \in [Market -> Nat] : Invested(c) \in Nat
        BY InvestedIsNumber
      <3> QED
        BY <3>1, <3>2 DEF IInv, TypeOK, Invested
    <2> QED
      BY <2>1, <2>2 DEF IInv, HeldOrBought
  <1>8. SpentOnBalance'
    BY <1>3 DEF IInv, SpentOnBalance, Invested
  <1> QED
    BY <1>2, <1>4, <1>5, <1>6, <1>7, <1>8 DEF IInv

LEMMA NoOrderKeeps ==
  ASSUME IInv, NoOrder
  PROVE  IInv'
  <1>1. cash' \in Nat /\ cost' \in [Market -> Nat]
    BY DEF IInv, TypeOK, NoOrder
  <1>2. Invested(cost)' <= Invested(cost)
    <2>1. Invested(cost) \in Nat
      BY InvestedIsNumber DEF IInv, TypeOK
    <2> QED
      BY <2>1 DEF NoOrder, Invested
  <1> QED
    BY <1>1, <1>2, QuietVisitKeeps DEF NoOrder

\* A sale takes a market out of the sum.
LEMMA ExitKeeps ==
  ASSUME IInv, NEW gain \in Gains, ExitLayer(gain)
  PROVE  IInv'
  <1>1. /\ at \in Market /\ cost' = [cost EXCEPT ![at] = 0]
        /\ cash' = cash + (cost[at] * gain) \div 100
    BY DEF ExitLayer
  <1>2. gain \in Nat /\ cost \in [Market -> Nat] /\ cost[at] \in Nat /\ cash \in Nat
    BY <1>1, RiskGateAssumption DEF IInv, TypeOK
  <1>3. cost[at] * gain \in Nat
    BY <1>2
  <1>4. (cost[at] * gain) \div 100 \in Nat
    BY <1>3
  <1>5. cash' \in Nat /\ cost' \in [Market -> Nat]
    BY <1>1, <1>2, <1>4
  <1>6. Invested(cost)' <= Invested(cost)
    <2>1. Invested([cost EXCEPT ![at] = 0]) = Invested(cost) + 0 - cost[at]
      BY <1>1, <1>2, InvestedChanges
    <2>2. Invested(cost) \in Nat
      BY <1>2, InvestedIsNumber
    <2>3. Invested(cost)' = Invested([cost EXCEPT ![at] = 0])
      BY <1>1 DEF Invested
    <2> QED
      BY <1>2, <2>1, <2>2, <2>3
  <1> QED
    BY <1>1, <1>5, <1>6, QuietVisitKeeps DEF ExitLayer

-----------------------------------------------------------------------------
(* A purchase.                                                             *)

\* What is requested is the size, cut to the cash on paper; only a size of zero
\* makes it larger.
LEMMA RequestIsSized ==
  ASSUME TypeOK, NEW size \in Nat
  PROVE  /\ Requested(size) \in Nat
         /\ Requested(size) <= size \/ (mode = "paper" /\ size = 0)
         /\ Requested(size) <= cash \/ mode = "live"
  <1>1. (95 * cash) \div 100 \in Nat /\ cash \in Nat
    BY DEF TypeOK
  <1>2. mode \in {"paper", "live"}
    BY RiskGateAssumption DEF TypeOK
  <1> QED
    BY <1>1, <1>2 DEF Requested, Smaller

\* Without a balance the rules allow no purchase of any size.
LEMMA NothingWithoutBalance ==
  ASSUME NEW p \in Reading, NEW size \in Nat, size > 0, Approved(size, p)
  PROVE  p.available > 0
  <1> SUFFICES ASSUME p.available = 0 PROVE FALSE
    BY ReadingFields
  <1> DEFINE a == MaxSingleAssetPct * p.total
             b == MaxTotalInvestmentPct * p.total - 100 * ManagedInvestment(p)
             c == (999 * p.available) \div 10
  <1>1. a \in Int /\ b \in Int /\ c = 0
    <2>1. p.total \in Nat /\ p.positions \in [Market -> Nat]
      BY ReadingFields
    <2>2. ManagedInvestment(p) \in Nat
      BY <2>1, InvestedIsNumber DEF ManagedInvestment
    <2>3. MaxSingleAssetPct \in Nat /\ MaxTotalInvestmentPct \in Nat
      BY RiskGateAssumption
    <2> QED
      BY <2>1, <2>2, <2>3
  <1>2. MaxAllowed(p) = Min({a, b, c})
    BY DEF MaxAllowed
  <1> HIDE DEF a, b, c
  <1>3. Min({a, b, c}) <= 0
    <2>1. \E x \in {a, b, c} : \A y \in {a, b, c} : x <= y
      BY <1>1
    <2>2. Min({a, b, c}) \in {a, b, c} /\ \A y \in {a, b, c} : Min({a, b, c}) <= y
      BY <2>1 DEF Min
    <2> QED
      BY <1>1, <2>2
  <1>4. Min({a, b, c}) \in Int
    <2>1. \E x \in {a, b, c} : \A y \in {a, b, c} : x <= y
      BY <1>1
    <2> QED
      BY <1>1, <2>1 DEF Min
  <1>5. ~(100 * size <= MaxAllowed(p)) /\ MaxAllowed(p) <= 0
    BY <1>2, <1>3, <1>4
  <1>6. MaxPositionSizeRule(size, p) = "reject"
    BY <1>5 DEF MaxPositionSizeRule
  <1> QED
    BY <1>6 DEF Approved


\* Nor is any allowed once the limit on the whole investment is reached.
LEMMA BelowTheLimit ==
  ASSUME NEW p \in Reading, NEW size \in Nat, Approved(size, p), p.total > 0
  PROVE  100 * Invested(p.positions) <= MaxTotalInvestmentPct * p.total
  <1>1. MaxPositionSizeRule(size, p) # "reject"
    BY DEF Approved
  <1>2. p.total \in Nat /\ Invested(p.positions) \in Nat /\ MaxTotalInvestmentPct \in Nat
    BY ReadingFields, InvestedIsNumber, RiskGateAssumption
  <1>3. MaxTotalInvestmentPct * p.total \in Nat
    BY <1>2
  <1> SUFFICES ASSUME ~(100 * Invested(p.positions) <= MaxTotalInvestmentPct * p.total)
               PROVE  FALSE
    OBVIOUS
  <1>4. p.total > 0 /\ 100 * ManagedInvestment(p) >= MaxTotalInvestmentPct * p.total
    BY <1>2, <1>3 DEF ManagedInvestment
  <1> QED
    BY <1>1, <1>4 DEF MaxPositionSizeRule

\* A purchase that is not of size zero has passed the rules on a balance that
\* bears it, and adds its size to what is spent and no more to what is held.
LEMMA BuyKeeps ==
  ASSUME IInv, NEW pct \in RiskPcts, Buy(pct)
  PROVE  IInv'
  <1> DEFINE size == SuggestedSize(pct, portfolio)
             krw == Requested(size)
             E == EffectiveCapital(portfolio)
             P == portfolio.positions
  <1>a. size \in Nat /\ 5 * size <= E + 5 /\ E \in Nat
    BY SizeIsCapped, CapitalIsNumber DEF IInv
  <1>b. /\ mode' = mode /\ portfolio' = portfolio /\ outside' = outside
        /\ ticks' = ticks /\ peak' = peak
        /\ largest' = Max({largest, krw})
        /\ \/ cash' = cash /\ cost' = cost
           \/ krw <= cash /\ cash' = cash - krw /\ cost' = [cost EXCEPT ![at] = @ + krw]
        /\ spent' = spent + (IF size = 0 THEN krw ELSE size)
        /\ at \in Market /\ Return /\ Approved(size, portfolio) /\ krw >= 10
    BY DEF Buy, MinOrder
  <1>c. size = 0 => ZeroSized \/ mode = "live"
    BY RiskGateAssumption DEF IInv, TypeOK, ZeroSized
  <1>d. /\ portfolio \in Reading /\ P \in [Market -> Nat] /\ Invested(P) \in Nat
        /\ portfolio.available \in Nat /\ portfolio.total \in Nat
        /\ cash \in Nat /\ spent \in Nat /\ largest \in Nat
        /\ cost \in [Market -> Nat] /\ cost[at] \in Nat /\ Invested(cost) \in Nat
    BY <1>b, ReadingFields, InvestedIsNumber DEF IInv, TypeOK
  <1> HIDE DEF size
  <1>e. /\ krw \in Nat
        /\ krw <= size \/ (mode = "paper" /\ size = 0)
    BY <1>a, RequestIsSized DEF IInv
  <1> HIDE DEF krw
  <1>f. /\ E' = E /\ ZeroSized' = ZeroSized /\ Invested(P)' = Invested(P)
        /\ Visits' = Visits + 1 /\ at' \in 0 .. NVisits /\ Visits \in Nat
    <2>1. E' = E /\ ZeroSized' = ZeroSized /\ Invested(P)' = Invested(P)
      BY <1>b DEF EffectiveCapital, ZeroSized, SuggestedSize, Invested
    <2> QED
      BY <1>b, <2>1, VisitIsCounted, VisitsCount, RiskGateAssumption DEF IInv
  \* But for the purchase of size zero, the capital is the balance available.
  <1>g. ~ZeroSized => size > 0 /\ krw <= size /\ portfolio.available >= 45
                        /\ 100 * Invested(P) <= MaxTotalInvestmentPct * portfolio.total
    <2> SUFFICES ASSUME ~ZeroSized
                 PROVE  size > 0 /\ krw <= size /\ portfolio.available >= 45
                        /\ 100 * Invested(P) <= MaxTotalInvestmentPct * portfolio.total
      OBVIOUS
    <2>1. size > 0 /\ krw <= size
      BY <1>a, <1>b, <1>c, <1>e
    <2>2. portfolio.available > 0
      BY <1>a, <1>b, <1>d, <2>1, NothingWithoutBalance
    <2>3. E = portfolio.available
      BY <2>2 DEF EffectiveCapital
    <2>4. portfolio.available >= 45
      BY <1>a, <1>b, <1>d, <1>e, <2>1, <2>3
    <2>5. portfolio.total > 0
      BY <1>d, <2>2 DEF IInv, ReadingAddsUp
    <2>6. 100 * Invested(P) <= MaxTotalInvestmentPct * portfolio.total
      BY <1>a, <1>b, <1>d, <2>5, BelowTheLimit
    <2> QED
      BY <2>1, <2>4, <2>6
  <1>1. TypeOK'
    <2>1. cash' \in Nat /\ cost' \in [Market -> Nat] /\ spent' \in Nat
      BY <1>a, <1>b, <1>d, <1>e
    <2>2. largest' \in Nat
      BY <1>b, <1>d, <1>e, LargerIsOne
    <2> QED
      BY <1>b, <1>f, <2>1, <2>2 DEF IInv, TypeOK
  <1>2. CapUnlessZero'
    <2>0. largest' \in {largest, krw}
      BY <1>b, <1>d, <1>e, LargerIsOne
    <2>1. CASE largest' = largest
      BY <1>f, <2>1 DEF IInv, CapUnlessZero
    <2>2. CASE largest' = krw /\ krw <= size
      <3>1. ~(5 * largest' > E' + 5)
        BY <1>a, <1>e, <1>f, <2>2
      <3> QED
        BY <3>1 DEF CapUnlessZero
    <2>3. CASE mode = "paper" /\ size = 0
      BY <1>c, <1>f, <2>3 DEF CapUnlessZero
    <2> QED
      BY <1>e, <2>0, <2>1, <2>2, <2>3
  <1>3. ReadingAddsUp'
    BY <1>b, <1>f DEF IInv, ReadingAddsUp
  <1>4. SpentPerVisit'
    <2>1. ~ZeroSized => 5 * spent <= Visits * (E + 5)
      BY DEF IInv, SpentPerVisit
    <2>2. (Visits + 1) * (E + 5) = Visits * (E + 5) + (E + 5) /\ Visits * (E + 5) \in Nat
      BY <1>a, <1>f
    <2>3. ~ZeroSized => 5 * spent' <= 5 * spent + (E + 5)
      BY <1>a, <1>b, <1>d, <1>g
    <2> HIDE DEF E
    <2>4. ~ZeroSized => 5 * spent' <= (Visits + 1) * (E + 5)
      <3>1. ~ZeroSized => spent' \in Nat
        BY <1>a, <1>b, <1>d, <1>e
      <3> QED
        BY <1>a, <1>d, <3>1, <2>1, <2>2, <2>3
    <2> QED
      BY <1>f, <2>4 DEF SpentPerVisit, E
  <1>5. HeldOrBought'
    <2>1. Invested(cost)' <= Invested(cost) + krw
      <3>1. CASE cost' = cost
        BY <1>d, <1>e, <3>1 DEF Invested
      <3>2. CASE cost' = [cost EXCEPT ![at] = @ + krw]
        <4>1. cost[at] + krw \in Nat
          BY <1>d, <1>e
        <4>2. cost' = [cost EXCEPT ![at] = cost[at] + krw]
          BY <3>2
        <4>3. Invested([cost EXCEPT ![at] = cost[at] + krw])
                = Invested(cost) + (cost[at] + krw) - cost[at]
          BY <1>b, <1>d, <4>1, InvestedChanges
        <4>4. Invested(cost)' = Invested([cost EXCEPT ![at] = cost[at] + krw])
          BY <4>2 DEF Invested
        <4> QED
          BY <1>d, <1>e, <4>3, <4>4
      <3> QED
        BY <1>b, <3>1, <3>2
    <2>2. spent + krw <= spent'
      BY <1>a, <1>b, <1>d, <1>e
    <2>3. Invested(cost)' \in Int /\ spent' \in Nat
      <3>1. \A c \in [Market -> Nat] : Invested(c) \in Nat
        BY InvestedIsNumber
      <3> QED
        BY <1>1, <3>1 DEF TypeOK, Invested
    <2>4. portfolio.available > 0 => Invested(cost) <= Invested(P) + spent
      BY DEF IInv, HeldOrBought
    <2> QED
      BY <1>b, <1>d, <1>e, <1>f, <2>1, <2>2, <2>3, <2>4 DEF HeldOrBought
  <1>6. SpentOnBalance'
    BY <1>b, <1>f, <1>g DEF SpentOnBalance
  <1> QED
    BY <1>1, <1>2, <1>3, <1>4, <1>5, <1>6 DEF IInv

LEMMA Inductive == IInv /\ [Next]_vars => IInv'
  <1> SUFFICES ASSUME IInv, [Next]_vars PROVE IInv'
    OBVIOUS
  <1>1. CASE UNCHANGED vars
    <2>1. /\ UNCHANGED <<mode, outside, cash, cost, ticks, at, portfolio>>
          /\ UNCHANGED <<spent, largest, peak>>
      BY <1>1 DEF vars
    <2>2. TypeOK'
      BY <2>1 DEF IInv, TypeOK
    <2>3. (CapUnlessZero /\ SpentPerVisit /\ SpentOnBalance)'
      BY <2>1 DEF IInv, CapUnlessZero, SpentPerVisit, SpentOnBalance, Visits, ZeroSized,
                  EffectiveCapital, SuggestedSize, Invested
    <2>4. (ReadingAddsUp /\ HeldOrBought)'
      BY <2>1 DEF IInv, ReadingAddsUp, HeldOrBought, Invested
    <2> QED
      BY <2>2, <2>3, <2>4 DEF IInv
  <1> QED
    BY <1>1, ReadingKeeps, FailureKeeps, NoOrderKeeps, ExitKeeps, BuyKeeps DEF Next

LEMMA Invariance == Spec => []IInv
  BY InitOK, Inductive, PTL DEF Spec

-----------------------------------------------------------------------------
\* Money is never negative and the reading is one an account can give: a tick
\* spends no more than there is.
THEOREM TypeCorrect == Spec => []TypeOK
  <1>1. IInv => TypeOK
    BY DEF IInv
  <1> QED
    BY <1>1, Invariance, PTL

\* No purchase of any tick asks for more than a fifth of the capital it was
\* sized from, but for the paper purchase whose size rounds to zero.
THEOREM CapHolds == Spec => []CapUnlessZero
  <1>1. IInv => CapUnlessZero
    BY DEF IInv
  <1> QED
    BY <1>1, Invariance, PTL

\* With at most 4 visits, the purchases of a tick never ask for more than was
\* available when it started: a fifth each and the rounding of half a thousand,
\* which the fifth that is left pays.
THEOREM SpendingIsCovered ==
  ASSUME NVisits <= 4
  PROVE  Spec => []TickNeverOvercommits
  <1>1. IInv => TickNeverOvercommits
    <2> SUFFICES ASSUME IInv, ~ZeroSized, spent > 0 PROVE spent <= portfolio.available
      BY ReadingFields DEF IInv, TypeOK, TickNeverOvercommits
    <2>1. portfolio.available \in Nat /\ spent \in Nat /\ portfolio.available >= 45
      BY ReadingFields DEF IInv, TypeOK, SpentOnBalance
    <2>2. EffectiveCapital(portfolio) = portfolio.available
      BY <2>1 DEF EffectiveCapital
    <2>3. 5 * spent <= Visits * (portfolio.available + 5)
      BY <2>2 DEF IInv, SpentPerVisit
    <2>4. Visits \in 0 .. 4
      BY VisitsCount, RiskGateAssumption DEF IInv
    <2>5. Visits * (portfolio.available + 5) <= 4 * (portfolio.available + 5)
      BY <2>1, <2>4
    <2> QED
      BY <2>1, <2>3, <2>4, <2>5
  <1> QED
    BY <1>1, Invariance, PTL

\* With at most 5 visits, the limit on the whole investment is overshot by a
\* fifth of the rest for each visit, and no further.
THEOREM OvershootIsBounded ==
  ASSUME NVisits <= 5
  PROVE  Spec => []OvershootBounded
  <1>1. IInv => OvershootBounded
    <2> SUFFICES ASSUME IInv, ~ZeroSized, spent > 0
                 PROVE  500 * Invested(cost)
                          <= (5 * MaxTotalInvestmentPct
                                + (100 - MaxTotalInvestmentPct) * NVisits) * portfolio.total
                             + 500 * NVisits
      BY DEF OvershootBounded
    <2> DEFINE A == portfolio.available
               T == portfolio.total
               I == Invested(portfolio.positions)
               H == Invested(cost)
               L == MaxTotalInvestmentPct
               V == Visits
    <2>1. A \in Nat /\ T \in Nat /\ I \in Nat /\ H \in Nat /\ spent \in Nat
      <3>1. portfolio.positions \in [Market -> Nat] /\ cost \in [Market -> Nat]
        BY ReadingFields DEF IInv, TypeOK
      <3> QED
        BY <3>1, ReadingFields, InvestedIsNumber DEF IInv, TypeOK
    <2>2. L \in 1 .. 100 /\ NVisits \in 1 .. 5
      BY RiskGateAssumption
    <2>3. V \in 0 .. NVisits
      BY VisitsCount DEF IInv
    <2>4. A >= 45 /\ 100 * I <= L * T
      BY DEF IInv, SpentOnBalance
    <2>5. EffectiveCapital(portfolio) = A
      BY <2>1, <2>4 DEF EffectiveCapital
    <2>6. 5 * spent <= V * (A + 5)
      BY <2>5 DEF IInv, SpentPerVisit
    <2>7. H <= I + spent
      BY <2>1, <2>4 DEF IInv, HeldOrBought
    <2>8. T >= A + I
      BY DEF IInv, ReadingAddsUp
    <2> HIDE DEF A, T, I, H, L, V
    <2>9. V * (A + 5) <= NVisits * (A + 5)
      BY <2>1, <2>2, <2>3
    <2>10. L * T \in Nat
      BY <2>1, <2>2
    <2>11. (5 * L + (100 - L) * NVisits) * T
             = 5 * (L * T) + NVisits * (100 * T) - NVisits * (L * T)
      BY <2>1, <2>2, <2>10
    <2> DEFINE LT == L * T
    <2>12. 500 * H <= 5 * LT + NVisits * (100 * T) - NVisits * LT + 500 * NVisits
      <3>1. LT \in Nat /\ 100 * I <= LT
        BY <2>4, <2>10
      <3> HIDE DEF LT
      <3>2. NVisits = 1 \/ NVisits = 2 \/ NVisits = 3 \/ NVisits = 4 \/ NVisits = 5
        BY <2>2
      <3>3. 5 * spent <= NVisits * (A + 5)
        <4>1. V * (A + 5) \in Nat /\ NVisits * (A + 5) \in Nat
          BY <2>1, <2>2, <2>3
        <4> QED
          BY <2>1, <2>6, <2>9, <4>1
      <3>4. CASE NVisits = 1
        BY <2>1, <2>7, <2>8, <3>1, <3>3, <3>4
      <3>5. CASE NVisits = 2
        BY <2>1, <2>7, <2>8, <3>1, <3>3, <3>5
      <3>6. CASE NVisits = 3
        BY <2>1, <2>7, <2>8, <3>1, <3>3, <3>6
      <3>7. CASE NVisits = 4
        BY <2>1, <2>7, <2>8, <3>1, <3>3, <3>7
      <3>8. CASE NVisits = 5
        BY <2>1, <2>7, <2>8, <3>1, <3>3, <3>8
      <3> QED
        BY <3>2, <3>4, <3>5, <3>6, <3>7, <3>8
    <2> QED
      BY <2>11, <2>12 DEF T, H, L
  <1> QED
    BY <1>1, Invariance, PTL

-----------------------------------------------------------------------------
(* Purchases on an unknown balance.                                        *)

\* base_capital is large enough for every risk-based size to be one.
BaseCapitalCounts ==
  \A pct \in RiskPcts : RoundToThousand(BaseCapital * Smaller(pct, 20), 100) > 0

\* Without a balance there is no purchase, at any time of the tick.
NothingOnEmptyBalance == portfolio.available = 0 => spent = 0

\* base_capital stands in for a balance that could not be read or is empty, and
\* a size is computed from it; the rules then reject the purchase.
THEOREM UnknownBalanceBuysNothing ==
  ASSUME BaseCapitalCounts
  PROVE  Spec => []NoOrderOnEmptyBalance
  <1>1. Init => NothingOnEmptyBalance
    BY DEF Init, NothingOnEmptyBalance
  <1>2. IInv /\ NothingOnEmptyBalance /\ [Next]_vars => NothingOnEmptyBalance'
    <2> SUFFICES ASSUME IInv, NothingOnEmptyBalance, [Next]_vars
                 PROVE  NothingOnEmptyBalance'
      OBVIOUS
    <2>1. CASE PortfolioRead \/ PortfolioFails
      BY <2>1 DEF PortfolioRead, PortfolioFails, StartTick, NothingOnEmptyBalance
    <2>2. CASE NoOrder \/ (\E gain \in Gains : ExitLayer(gain)) \/ UNCHANGED vars
      BY <2>2 DEF NoOrder, ExitLayer, vars, NothingOnEmptyBalance
    <2>3. ASSUME NEW pct \in RiskPcts, Buy(pct)
          PROVE  NothingOnEmptyBalance'
      <3> DEFINE size == SuggestedSize(pct, portfolio)
      <3>1. portfolio' = portfolio /\ Approved(size, portfolio) /\ portfolio \in Reading
        BY <2>3 DEF Buy, IInv, TypeOK
      <3>2. size \in Nat
        BY SizeIsCapped DEF IInv
      <3>3. portfolio.available # 0
        <4> SUFFICES ASSUME portfolio.available = 0 PROVE FALSE
          OBVIOUS
        <4>1. EffectiveCapital(portfolio) = BaseCapital
          BY DEF EffectiveCapital
        <4>2. size > 0
          BY <4>1 DEF SuggestedSize, BaseCapitalCounts
        <4> HIDE DEF size
        <4>3. portfolio.available > 0
          BY <3>1, <3>2, <4>2, NothingWithoutBalance
        <4> QED
          BY <4>3
      <3> QED
        BY <3>1, <3>3 DEF NothingOnEmptyBalance
    <2> QED
      BY <2>1, <2>2, <2>3 DEF Next
  <1>3. NothingOnEmptyBalance => NoOrderOnEmptyBalance
    BY DEF NothingOnEmptyBalance, NoOrderOnEmptyBalance
  <1> QED
    BY <1>1, <1>2, <1>3, Invariance, PTL DEF Spec


-----------------------------------------------------------------------------
(* The other rules.                                                        *)

\* Three of the four rules approve whatever is read.
OnlyTheSizeIsJudged ==
  /\ DailyLossLimitRule(portfolio) = "approve"
  /\ MDDCircuitBreakerRule(portfolio) = "approve"
  /\ ConsecutiveLossGuardRule(portfolio) = "approve"

\* _build_portfolio_state fills the peak with the total just computed and leaves
\* daily_pnl and consecutive_losses at their defaults: the circuit breaker, the
\* daily limit and the guard against losses reject nothing, whatever was lost.
THEOREM OtherRulesNeverReject ==
  ASSUME MaxConsecutiveLosses > 0
  PROVE  Spec => []OnlyTheSizeIsJudged
  <1> DEFINE PeakIsTotal == portfolio.peak = portfolio.total
  <1>1. Init => PeakIsTotal
    BY DEF Init
  <1>2. PeakIsTotal /\ [Next]_vars => PeakIsTotal'
    <2> SUFFICES ASSUME PeakIsTotal, [Next]_vars PROVE PeakIsTotal'
      OBVIOUS
    <2>1. CASE PortfolioRead \/ PortfolioFails
      BY <2>1 DEF PortfolioRead, PortfolioFails, StartTick
    <2>2. CASE portfolio' = portfolio
      BY <2>2
    <2> QED
      BY <2>1, <2>2 DEF Next, NoOrder, ExitLayer, Buy, vars
  <1>3. TypeOK /\ PeakIsTotal => OnlyTheSizeIsJudged
    <2> SUFFICES ASSUME TypeOK, PeakIsTotal PROVE OnlyTheSizeIsJudged
      OBVIOUS
    <2>1. /\ portfolio.pnl = 0 /\ portfolio.losses = 0
          /\ portfolio.total \in Nat /\ portfolio.peak = portfolio.total
      BY ReadingFields DEF TypeOK
    <2>2. /\ MaxDailyLossPct \in Nat \ {0} /\ MaxDrawdownPct \in Nat \ {0}
          /\ MaxConsecutiveLosses \in Nat \ {0}
      BY RiskGateAssumption
    <2>3. portfolio.total > 0 =>
            MaxDailyLossPct * portfolio.total > 0 /\ MaxDrawdownPct * portfolio.total > 0
      BY <2>1, <2>2
    <2>4. portfolio.total > 0 =>
            ~(-100 * portfolio.pnl >= MaxDailyLossPct * portfolio.total)
      <3> DEFINE limit == MaxDailyLossPct * portfolio.total
                 pnl == portfolio.pnl
      <3>1. limit \in Nat /\ pnl \in Int /\ pnl = 0
        BY <2>1, <2>2
      <3>2. portfolio.total > 0 => limit > 0
        BY <2>3
      <3> HIDE DEF limit, pnl
      <3>3. limit > 0 => ~(-100 * pnl >= limit)
        BY <3>1
      <3> QED
        BY <3>2, <3>3 DEF limit, pnl
    <2>5. 100 * (portfolio.peak - portfolio.total) = 0
      <3>1. portfolio.peak - portfolio.total = 0
        BY <2>1
      <3> QED
        BY <3>1
    <2>6. DailyLossLimitRule(portfolio) = "approve"
      BY <2>1, <2>2, <2>3, <2>4 DEF DailyLossLimitRule
    <2>7. MDDCircuitBreakerRule(portfolio) = "approve"
      BY <2>1, <2>2, <2>3, <2>5 DEF MDDCircuitBreakerRule
    <2>8. ConsecutiveLossGuardRule(portfolio) = "approve"
      BY <2>1, <2>2 DEF ConsecutiveLossGuardRule
    <2> QED
      BY <2>6, <2>7, <2>8 DEF OnlyTheSizeIsJudged
  <1> QED
    BY <1>1, <1>2, <1>3, TypeCorrect, PTL DEF Spec

=============================================================================
