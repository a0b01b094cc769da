------------------------- MODULE TradingEngineProofs -------------------------
(***************************************************************************)
(* Proofs about TradingEngine, for every number of markets and every value *)
(* of the other constants.  What is said of records, stops and the file    *)
(* holds of any strategies; that sales are covered, that a cleared record  *)
(* leaves nothing behind and that records match what is held is true, and  *)
(* proved, of one strategy whose mode nobody switches.                     *)
(***************************************************************************)
EXTENDS TradingEngine, TLAPS

-----------------------------------------------------------------------------
(* Records.                                                                *)

\* Taking a percentage off a price leaves a level between 0 and the price.
LEMMA PercentOff ==
  ASSUME NEW p \in Nat, NEW pct \in 0 .. 100
  PROVE  /\ p * (100 - pct) \in Nat
         /\ p * (100 - pct) <= 100 * p
<1>1. p * pct \in Nat /\ p * (100 - pct) = 100 * p - p * pct
  BY Z3
<1>2. 100 - pct \in Nat
  OBVIOUS
<1>3. p * (100 - pct) \in Nat
  BY <1>2, Z3
<1>. QED  BY <1>1, <1>3

\* A session is a whole day.
LEMMA SessionDateType ==
  ASSUME NEW t \in Int
  PROVE  SessionDate(t) \in Int
BY DEF SessionDate

\* A trail lies at or below the peak it is computed from.
LEMMA TrailUnderType ==
  ASSUME NEW s \in Strategy, NEW peak \in Nat, NEW atr \in Nat
  PROVE  /\ TrailUnder(s, peak, atr) \in Int
         /\ TrailUnder(s, peak, atr) <= 100 * peak
<1>1. TrailPct[s] \in 0 .. 100 /\ AtrMult[s] \in Nat
  BY ExitRulesAssumption
<1>2. AtrMult[s] * atr \in Nat
  BY <1>1, Z3
<1>3. /\ peak * (100 - TrailPct[s]) \in Nat
      /\ peak * (100 - TrailPct[s]) <= 100 * peak
  BY <1>1, PercentOff
<1>. QED  BY <1>2, <1>3 DEF TrailUnder

\* The ATR a record is made with is a natural number.
LEMMA AtrType ==
  ASSUME NEW s \in Strategy, NEW a \in Nat, NEW b \in Nat
  PROVE  OrElse(Atr14(s, a), b) \in Nat
BY DEF OrElse, Atr14

\* The record of a purchase is below its peak, which is its entry.
LEMMA NewPositionSound ==
  ASSUME NEW s \in Strategy, NEW fill \in Nat, NEW a \in Nat, NEW t \in Int
  PROVE  /\ NewPosition(s, fill, a, t) \in Position
         /\ BelowPeak(NewPosition(s, fill, a, t))
         /\ NewPosition(s, fill, a, t).high = NewPosition(s, fill, a, t).entry
<1>1. /\ fill * (100 - HardStopPct[s]) \in Nat
      /\ fill * (100 - HardStopPct[s]) <= 100 * fill
  BY PercentOff, ExitRulesAssumption
<1>2. /\ TrailUnder(s, fill, a) \in Int
      /\ TrailUnder(s, fill, a) <= 100 * fill
  BY TrailUnderType
<1>3. SessionDate(t) \in Int
  BY SessionDateType
<1>. QED  BY <1>1, <1>2, <1>3 DEF NewPosition, Position, BelowPeak

\* So is the record made up for an orphan ...
LEMMA FallbackPositionSound ==
  ASSUME NEW s \in Strategy, NEW p \in Nat, NEW a \in Nat, NEW t \in Int
  PROVE  /\ FallbackPosition(s, p, a, t) \in Position
         /\ BelowPeak(FallbackPosition(s, p, a, t))
<1>1. OrElse(Atr14(s, a), 3 * p) \in Nat
  BY AtrType
<1>2. SessionDate(t) \in Int
  BY SessionDateType
<1>. QED  BY <1>1, <1>2 DEF FallbackPosition, Position, BelowPeak

\* ... and the one rebuilt from a recorded trade.
LEMMA DbPositionSound ==
  ASSUME NEW s \in Strategy, NEW buy \in Trade, NEW a \in Nat
  PROVE  /\ DbPosition(s, buy, a) \in Position
         /\ BelowPeak(DbPosition(s, buy, a))
<1>1. buy.price \in Nat /\ buy.time \in Int
  BY DEF Trade
<1>2. 3 * buy.price \in Nat
  BY <1>1
<1>3. OrElse(Atr14(s, a), 3 * buy.price) \in Nat
  BY <1>2, AtrType
<1>4. SessionDate(buy.time) \in Int
  BY <1>1, SessionDateType
<1>. QED  BY <1>1, <1>3, <1>4 DEF DbPosition, Position, BelowPeak

\* A sound record that differs from an older one at most by a higher peak and a
\* higher trail.
Tightens(new, pos) ==
  /\ new \in Position
  /\ BelowPeak(new)
  /\ new.high >= pos.high
  /\ new.trail >= pos.trail
  /\ new = [pos EXCEPT !.high = new.high, !.trail = new.trail]

\* An evaluation moves the peak and the trail of a record only upwards, keeps it
\* below its peak, and changes nothing else.
LEMMA RefreshedTightens ==
  ASSUME NEW s \in Strategy, NEW pos \in Position, BelowPeak(pos),
         NEW p \in Nat, NEW a \in Nat, NEW t \in Int
  PROVE  Tightens(Refreshed(s, pos, p, a, t), pos)
<1> DEFINE peak == PeakWith(pos, p)
           trail == TrailUnder(s, peak, OrElse(Atr14(s, a), pos.atr))
           new == Refreshed(s, pos, p, a, t)
<1>1. peak \in Nat /\ peak >= pos.high
  BY DEF PeakWith, Position
<1>2. OrElse(Atr14(s, a), pos.atr) \in Nat
  BY AtrType DEF Position
<1>3. trail \in Int /\ trail <= 100 * peak
  BY <1>1, <1>2, TrailUnderType
<1>4. new = [pos EXCEPT !.high = peak,
                        !.trail = IF TrailMoves(s, pos, t) /\ trail > pos.trail
                                  THEN trail ELSE pos.trail]
  BY DEF Refreshed
<1> HIDE DEF peak, trail, new
<1>5. /\ new.high = peak
      /\ new.trail = pos.trail \/ (new.trail = trail /\ trail > pos.trail)
      /\ new.entry = pos.entry /\ new.hard = pos.hard
      /\ new \in Position
  BY <1>1, <1>3, <1>4 DEF Position
<1>6. BelowPeak(new) /\ new.high >= pos.high /\ new.trail >= pos.trail
  BY <1>1, <1>3, <1>5 DEF BelowPeak, Position
<1>7. new = [pos EXCEPT !.high = new.high, !.trail = new.trail]
  BY <1>4, <1>5 DEF Position
<1>. QED  BY <1>5, <1>6, <1>7 DEF new, Tightens

-----------------------------------------------------------------------------
(* Types.                                                                  *)

\* The awaits at which neither the process is down nor a record is missing.
Controls == {"idle", "balance", "accounts", "fetch", "buying", "ordering",
             "record", "clear"}

\* The task is in one of them, and its locals have their types.
TaskOK == pc \in Controls /\ at \in Evaluation /\ portfolio \in Portfolio /\ order \in Order

\* Going on to the next market, the next strategy or the end of the tick.
LEMMA GoOnType ==
  ASSUME TypeOK,
         NEW s \in Int, NEW m \in Market, NEW pf \in Portfolio,
         s \in Strategy \/ m = NMarket,
         GoOn(s, m, pf)
  PROVE  pc' \in {"fetch", "idle"} /\ at' \in Evaluation /\ portfolio' \in Portfolio
<1>1. /\ NMarket \in Nat \ {0} /\ 1 \in Market /\ 1 \in Strategy
      /\ NoPortfolio \in Portfolio /\ Nowhere \in Evaluation
  BY TradingEngineAssumption, ExitRulesAssumption
  DEF Market, Strategy, NoPortfolio, Portfolio, NoLots, Lots, Account, Nowhere, Evaluation
<1>2. ASSUME m < NMarket, Visit(s, m + 1, pf)
      PROVE  pc' \in {"fetch", "idle"} /\ at' \in Evaluation /\ portfolio' \in Portfolio
  <2>1. s \in Strategy /\ m + 1 \in Market
    BY <1>1, <1>2 DEF Market
  <2>. QED  BY <1>2, <2>1 DEF Visit, Evaluation
<1>3. ASSUME NEW t \in enabled, Visit(t, 1, pf)
      PROVE  pc' \in {"fetch", "idle"} /\ at' \in Evaluation /\ portfolio' \in Portfolio
  <2>1. t \in Strategy
    BY DEF TypeOK
  <2>. QED  BY <1>1, <1>3, <2>1 DEF Visit, Evaluation
<1>. QED  BY <1>1, <1>2, <1>3 DEF GoOn

\* Going on leads to the next market, or ends the tick and forgets its reading.
LEMMA GoOnControls ==
  ASSUME NEW s, NEW m, NEW pf, GoOn(s, m, pf)
  PROVE  pc' \in {"fetch", "idle"} /\ portfolio' \in {pf, NoPortfolio}
BY DEF GoOn, Visit

\* The evaluation in progress returns.
LEMMA ReturnType ==
  ASSUME TypeOK, Return
  PROVE  TaskOK'
<1>1. /\ at.s \in Strategy /\ at.s \in Int /\ at.m \in Market /\ portfolio \in Portfolio
      /\ NoOrder \in Order
  BY DEF TypeOK, Evaluation, Strategy, NoOrder, Order, Account
<1>2. pc' \in {"fetch", "idle"} /\ at' \in Evaluation /\ portfolio' \in Portfolio
  BY <1>1, GoOnType DEF Return
<1>. QED  BY <1>1, <1>2 DEF Return, TaskOK, Controls

\* A tick begins with the portfolio it was given.
LEMMA FirstVisitType ==
  ASSUME TypeOK, NEW acct \in Account, NEW lots \in Lots, FirstVisit(acct, lots)
  PROVE  pc' \in {"fetch", "idle"} /\ at' \in Evaluation /\ portfolio' \in Portfolio
<1>1. /\ NMarket \in Market /\ 0 \in Int
      /\ [acct |-> acct, qty |-> lots] \in Portfolio
  BY TradingEngineAssumption DEF Market, Portfolio
<1>. QED  BY <1>1, GoOnType DEF FirstVisit

\* Selling touches only the task and the holdings.
LEMMA ExecuteSellType ==
  ASSUME TypeOK, NEW e \in Evaluation, NEW why, ExecuteSell(e, why)
  PROVE  TaskOK' /\ holding' \in [Account -> Lots]
<1>1. /\ e.s \in Strategy /\ e.s \in Int /\ e.m \in Market
      /\ portfolio \in Portfolio /\ portfolio.qty[e.m] \in Nat
      /\ order \in Order /\ holding \in [Account -> Lots]
  BY DEF TypeOK, Evaluation, Strategy, Portfolio, Lots
<1>2. ASSUME GoOn(e.s, e.m, portfolio), UNCHANGED <<order, holding>>
      PROVE  TaskOK' /\ holding' \in [Account -> Lots]
  <2>1. pc' \in {"fetch", "idle"} /\ at' \in Evaluation /\ portfolio' \in Portfolio
    BY <1>1, <1>2, GoOnType
  <2>. QED  BY <1>1, <1>2, <2>1 DEF TaskOK, Controls
<1>3. ASSUME Send(e, "sell", portfolio.qty[e.m])
      PROVE  TaskOK' /\ holding' \in [Account -> Lots]
  BY <1>1, <1>3 DEF Send, TaskOK, Controls, Order, Account
<1>4. ASSUME PaperSell(e, portfolio.qty[e.m])
      PROVE  TaskOK' /\ holding' \in [Account -> Lots]
  <2>1. CASE holding["paper"][e.m] = 0
    BY <1>2, <1>4, <2>1 DEF PaperSell
  <2>2. CASE holding["paper"][e.m] # 0
    <3>1. holding' \in [Account -> Lots]
      BY <1>1, <1>4, <2>2 DEF PaperSell, Lots, Account
    <3>2. order' \in Order /\ pc' = "clear" /\ at' = e /\ portfolio' = portfolio
      BY <1>1, <1>4, <2>2 DEF PaperSell, Order, Account
    <3>. QED  BY <1>1, <3>1, <3>2 DEF TaskOK, Controls
  <2>. QED  BY <2>1, <2>2
<1>. QED  BY <1>2, <1>3, <1>4 DEF ExecuteSell

\* Asking the strategy touches only the task.
LEMMA SignalType ==
  ASSUME TypeOK, NEW e \in Evaluation, Signal(e)
  PROVE  TaskOK' /\ holding' \in [Account -> Lots]
<1>1. /\ e.s \in Strategy /\ e.s \in Int /\ e.m \in Market
      /\ portfolio \in Portfolio /\ order \in Order
      /\ holding \in [Account -> Lots]
  BY DEF TypeOK, Evaluation, Strategy
<1>2. CASE GoOn(e.s, e.m, portfolio)
  <2>1. pc' \in {"fetch", "idle"} /\ at' \in Evaluation /\ portfolio' \in Portfolio
    BY <1>1, <1>2, GoOnType
  <2>. QED  BY <1>1, <2>1 DEF Signal, TaskOK, Controls
<1>3. CASE pc' = "buying" /\ at' = e /\ UNCHANGED portfolio
  BY <1>1, <1>3 DEF Signal, TaskOK, Controls
<1>. QED  BY <1>2, <1>3 DEF Signal

\* What a step that may write the records leaves in the file.
Written == Saves(positions') \/ UNCHANGED <<positions, snapshot>>

\* The sell check writes one record, in memory and, if that succeeds, in the file.
LEMMA SellCheckType ==
  ASSUME TypeOK, NEW e \in Evaluation, NEW pos \in Position, BelowPeak(pos),
         SellCheck(e, pos)
  PROVE  /\ TaskOK'
         /\ holding' \in [Account -> Lots]
         /\ positions' = [positions EXCEPT ![e.m] = Refreshed(e.s, pos, e.p, e.a, now)]
         /\ positions' \in Records
         /\ Written
<1> DEFINE new == Refreshed(e.s, pos, e.p, e.a, now)
<1>1. /\ e.s \in Strategy /\ e.m \in Market /\ e.p \in Nat /\ e.a \in Nat
      /\ now \in Int /\ positions \in Records
  BY DEF TypeOK, Evaluation
<1>2. new \in Position
  BY <1>1, RefreshedTightens DEF Tightens
<1> HIDE DEF new
<1>3. positions' = [positions EXCEPT ![e.m] = new]
  BY DEF SellCheck, new
<1>4. positions' \in Records
  BY <1>1, <1>2, <1>3 DEF Records
<1>5. Written
  BY DEF SellCheck, Written
<1>6. TaskOK' /\ holding' \in [Account -> Lots]
  BY ExecuteSellType, SignalType DEF SellCheck
<1>. QED  BY <1>3, <1>4, <1>5, <1>6 DEF new

\* A filled buy writes a fresh record.
LEMMA BoughtType ==
  ASSUME TypeOK, NEW fill \in Nat, Bought(fill)
  PROVE  /\ TaskOK'
         /\ positions' = [positions EXCEPT ![at.m] = NewPosition(at.s, fill, at.a, now)]
         /\ positions' \in Records
         /\ Written
<1> DEFINE new == NewPosition(at.s, fill, at.a, now)
<1>1. /\ at \in Evaluation /\ at.s \in Strategy /\ at.m \in Market /\ at.a \in Nat
      /\ now \in Int /\ positions \in Records /\ portfolio \in Portfolio
  BY DEF TypeOK, Evaluation
<1>2. new \in Position
  BY <1>1, NewPositionSound
<1> HIDE DEF new
<1>3. positions' = [positions EXCEPT ![at.m] = new] /\ Written
  BY DEF Bought, Written, new
<1>4. positions' \in Records
  BY <1>1, <1>2, <1>3 DEF Records
<1>5. at' \in Evaluation
  BY <1>1 DEF Bought, Evaluation
<1>6. NoOrder \in Order
  BY DEF NoOrder, Order, Account
<1>7. TaskOK'
  BY <1>1, <1>5, <1>6 DEF Bought, TaskOK, Controls
<1>. QED  BY <1>3, <1>4, <1>7 DEF new

\* What the exchange does leaves natural numbers of lots.
LEMMA ExchangeFillsType ==
  ASSUME TypeOK, ExchangeFills
  PROVE  holding' \in [Account -> Lots]
<1>1. /\ at.m \in Market /\ order.qty \in Nat
      /\ holding \in [Account -> Lots] /\ holding["live"][at.m] \in Nat
  BY DEF TypeOK, Evaluation, Order, Account, Lots
<1>2. /\ order.side = "buy" => holding["live"][at.m] + order.qty \in Nat
      /\ order.side # "buy" => holding["live"][at.m] - order.qty \in Nat
  BY <1>1 DEF ExchangeFills, Fillable
<1>. QED  BY <1>1, <1>2 DEF ExchangeFills, Account, Lots

\* A retry counts the attempt or gives the order up.
LEMMA RetryType ==
  ASSUME TypeOK, pc = "ordering", Retry
  PROVE  TaskOK'
<1>1. pc \in Controls /\ at \in Evaluation /\ portfolio \in Portfolio /\ order \in Order
  BY DEF TypeOK, Controls
<1>2. [order EXCEPT !.tries = @ + 1] \in Order
  BY <1>1 DEF Order
<1>. QED  BY <1>1, <1>2, ReturnType DEF Retry, TaskOK

-----------------------------------------------------------------------------
(* The inductive invariant, and what a step does to the book of records.   *)

\* While a record is being recovered there is none.
RecoverOK == pc = "recover" => positions[at.m] = None

\* No write of the snapshot file fails.
SavesSucceed == "save" \notin Faults

IInv == TypeOK /\ (SavesSucceed => SnapshotCurrent) /\ StopsBelowPeak /\ RecoverOK

\* The record of m is created, tightened, or replaced by that of a purchase.
Puts(m) ==
  /\ Up /\ Up'
  /\ positions'[m] \in Position
  /\ BelowPeak(positions'[m])
  /\ positions' = [positions EXCEPT ![m] = positions'[m]]
  /\ Written
  /\ \/ positions[m] = None
     \/ positions'[m].high = positions'[m].entry
     \/ Tightens(positions'[m], positions[m])

\* The record of m is dropped.
Drops(m) ==
  /\ Up /\ Up'
  /\ positions' = [positions EXCEPT ![m] = None]
  /\ Saves(positions')

Keeps == UNCHANGED book /\ (Up <=> Up')

Dies == Up /\ ~Up' /\ positions' = NoPositions /\ snapshot' \in {snapshot, Lost}

Boots == ~Up /\ Up' /\ positions' = Restored /\ UNCHANGED snapshot

BookStep ==
  Keeps \/ Dies \/ Boots \/ \E m \in Market : Puts(m) \/ Drops(m)

\* A step as the proof wants it.
Regular == TypeOK' /\ RecoverOK' /\ BookStep

\* A step of the working task that leaves the book alone is regular.
LEMMA KeepingStep ==
  ASSUME IInv, Up, TaskOK', UNCHANGED <<book, config, world>>,
         holding' \in [Account -> Lots],
         trades' \in [Market -> Trade \union {None}]
  PROVE  Regular
BY DEF IInv, Regular, TypeOK, RecoverOK, BookStep, Keeps, Up, TaskOK, Controls,
       book, config, world

\* So is one that writes the record of one market.
LEMMA PuttingStep ==
  ASSUME IInv, Up, TaskOK', NEW m \in Market, Puts(m), UNCHANGED <<config, world>>,
         positions' \in Records,
         holding' \in [Account -> Lots],
         trades' \in [Market -> Trade \union {None}]
  PROVE  Regular
<1>1. snapshot' \in Records \union {Lost}
  BY DEF IInv, TypeOK, Puts, Written, Saves
<1>. QED  BY <1>1 DEF IInv, Regular, TypeOK, RecoverOK, BookStep, Up, TaskOK, Controls,
       config, world

\* A sell check on a sound record, old or just recovered, is regular.
LEMMA SellCheckStep ==
  ASSUME IInv, Up, NEW e \in Evaluation, NEW pos \in Position, BelowPeak(pos),
         positions[e.m] \in {None, pos}, SellCheck(e, pos),
         UNCHANGED <<config, trades, world>>
  PROVE  Regular
<1> DEFINE new == Refreshed(e.s, pos, e.p, e.a, now)
<1>1. /\ TypeOK /\ now \in Int /\ positions \in Records
      /\ e.s \in Strategy /\ e.m \in Market /\ e.p \in Nat /\ e.a \in Nat
      /\ trades' \in [Market -> Trade \union {None}]
  BY DEF IInv, TypeOK, Evaluation
<1>2. Tightens(new, pos)
  BY <1>1, RefreshedTightens
<1>3. /\ TaskOK' /\ holding' \in [Account -> Lots]
      /\ positions' = [positions EXCEPT ![e.m] = new] /\ positions' \in Records
      /\ Written
  BY <1>1, SellCheckType
<1> HIDE DEF new
<1>4. positions'[e.m] = new /\ Up'
  BY <1>1, <1>3 DEF Records, TaskOK, Controls, Up
<1>5. Puts(e.m)
  BY <1>2, <1>3, <1>4 DEF Puts, Tightens
<1>. QED  BY <1>1, <1>3, <1>5, PuttingStep

\* A filled buy is regular.
LEMMA BoughtStep ==
  ASSUME IInv, Up, NEW fill \in Nat, Bought(fill),
         UNCHANGED <<config, trades, world>>, holding' \in [Account -> Lots]
  PROVE  Regular
<1> DEFINE new == NewPosition(at.s, fill, at.a, now)
<1>1. /\ TypeOK /\ now \in Int /\ positions \in Records
      /\ at.s \in Strategy /\ at.m \in Market /\ at.a \in Nat
      /\ trades' \in [Market -> Trade \union {None}]
  BY DEF IInv, TypeOK, Evaluation
<1>2. new \in Position /\ BelowPeak(new) /\ new.high = new.entry
  BY <1>1, NewPositionSound
<1>3. /\ TaskOK' /\ positions' \in Records /\ Written
      /\ positions' = [positions EXCEPT ![at.m] = new]
  BY <1>1, BoughtType
<1> HIDE DEF new
<1>4. positions'[at.m] = new /\ Up'
  BY <1>1, <1>3 DEF Records, TaskOK, Controls, Up
<1>5. Puts(at.m)
  BY <1>2, <1>3, <1>4 DEF Puts
<1>. QED  BY <1>1, <1>3, <1>5, PuttingStep

-----------------------------------------------------------------------------
(* Every action is regular.                                                *)

\* Starting a tick and reading the portfolio.
LEMMA PortfolioSteps ==
  ASSUME IInv, StartTick \/ BalanceRead \/ AccountsRead \/ PortfolioFails
  PROVE  Regular
<1>1. /\ TypeOK /\ Up
      /\ trades' \in [Market -> Trade \union {None}]
      /\ holding' \in [Account -> Lots]
      /\ UNCHANGED <<order, book, config, world>>
  BY DEF IInv, TypeOK, Up, StartTick, BalanceRead, AccountsRead, PortfolioFails
<1>2. /\ at \in Evaluation /\ portfolio \in Portfolio /\ order \in Order
      /\ holding["paper"] \in Lots /\ holding["live"] \in Lots
      /\ NoLots \in Lots /\ "paper" \in Account /\ "live" \in Account
  BY <1>1 DEF TypeOK, Account, Lots, NoLots
<1>3. ASSUME NEW acct \in Account, NEW lots \in Lots, FirstVisit(acct, lots)
      PROVE  TaskOK'
  BY <1>1, <1>2, <1>3, FirstVisitType DEF TaskOK, Controls
<1>4. TaskOK'
  <2>1. CASE StartTick
    BY <1>1, <1>2, <1>3, <2>1 DEF StartTick, TaskOK, Controls
  <2>2. CASE BalanceRead
    BY <1>1, <1>2, <1>3, <2>2 DEF BalanceRead, TaskOK, Controls
  <2>3. CASE AccountsRead
    BY <1>2, <1>3, <2>3 DEF AccountsRead
  <2>4. CASE PortfolioFails
    BY <1>2, <1>3, <2>4 DEF PortfolioFails
  <2>. QED  BY <2>1, <2>2, <2>3, <2>4
<1>. QED  BY <1>1, <1>4, KeepingStep

\* An evaluation returns without touching the book.
LEMMA ReturningSteps ==
  ASSUME IInv, FetchFails \/ BuyRefused \/ TradeRecorded \/ RecordingFails
  PROVE  Regular
<1>1. /\ TypeOK /\ Up /\ Return
      /\ holding' \in [Account -> Lots]
      /\ UNCHANGED <<book, config, world>>
  BY DEF IInv, TypeOK, Up, FetchFails, BuyRefused, TradeRecorded, RecordingFails
<1>2. trades' \in [Market -> Trade \union {None}]
  <2>1. /\ trades \in [Market -> Trade \union {None}]
        /\ [price |-> at.p, time |-> now] \in Trade
    BY <1>1 DEF TypeOK, Evaluation, Trade
  <2>. QED  BY <2>1 DEF FetchFails, BuyRefused, TradeRecorded, RecordingFails
<1>. QED  BY <1>1, <1>2, ReturnType, KeepingStep

\* The candles arrive: sell check, recovery or signal.
LEMMA FetchedStep ==
  ASSUME IInv, Fetched
  PROVE  Regular
<1>1. PICK a \in Atrs :
        LET e == [at EXCEPT !.p = price[at.m], !.a = a] IN
        \/ /\ Held(e.m) /\ positions[e.m] # None
           /\ SellCheck(e, positions[e.m])
        \/ /\ Held(e.m) /\ positions[e.m] = None
           /\ pc' = "recover" /\ at' = e
           /\ UNCHANGED <<portfolio, order, book, holding>>
        \/ /\ ~Held(e.m)
           /\ Signal(e)
           /\ UNCHANGED book
  BY DEF Fetched
<1> DEFINE e == [at EXCEPT !.p = price[at.m], !.a = a]
<1>2. /\ TypeOK /\ Up
      /\ UNCHANGED <<config, trades, world>>
      /\ positions \in Records
      /\ trades' \in [Market -> Trade \union {None}]
  BY DEF IInv, TypeOK, Up, Fetched
<1>3. a \in Nat /\ price[at.m] \in Nat /\ at \in Evaluation
  BY <1>2, TradingEngineAssumption DEF TypeOK, Evaluation
<1>4. e \in Evaluation /\ e.m \in Market
  BY <1>3 DEF Evaluation
<1> HIDE DEF e
<1>5. CASE Held(e.m) /\ positions[e.m] # None /\ SellCheck(e, positions[e.m])
  <2>1. positions[e.m] \in Position /\ BelowPeak(positions[e.m])
    BY <1>2, <1>4, <1>5 DEF IInv, StopsBelowPeak, Records
  <2>. QED  BY <1>2, <1>4, <1>5, <2>1, SellCheckStep
<1>6. CASE /\ positions[e.m] = None
           /\ pc' = "recover" /\ at' = e
           /\ UNCHANGED <<portfolio, order, book, holding>>
  <2>1. TypeOK'
    BY <1>2, <1>4, <1>6 DEF TypeOK, book, config, world
  <2>2. RecoverOK'
    BY <1>6 DEF RecoverOK, book
  <2>3. BookStep
    BY <1>2, <1>6 DEF BookStep, Keeps, Up
  <2>. QED  BY <2>1, <2>2, <2>3 DEF Regular
<1>7. CASE Signal(e) /\ UNCHANGED book
  BY <1>2, <1>4, <1>7, SignalType, KeepingStep
<1>. QED  BY <1>1, <1>5, <1>6, <1>7 DEF e

\* The recovery of an orphan, and the sell check of its record.
LEMMA RecoverySteps ==
  ASSUME IInv, RecoveredFromDb \/ FellBack
  PROVE  Regular
<1>1. /\ TypeOK /\ Up /\ positions[at.m] = None
      /\ at \in Evaluation /\ at.s \in Strategy /\ at.m \in Market
      /\ at.p \in Nat /\ at.a \in Nat /\ now \in Int
      /\ UNCHANGED <<config, trades, world>>
  BY DEF IInv, TypeOK, RecoverOK, Evaluation, Up, RecoveredFromDb, FellBack
<1>2. CASE RecoveredFromDb
  <2>1. trades[at.m] \in Trade
    BY <1>1, <1>2 DEF TypeOK, RecoveredFromDb
  <2> DEFINE pos == DbPosition(at.s, trades[at.m], at.a)
  <2>2. pos \in Position /\ BelowPeak(pos)
    BY <1>1, <2>1, DbPositionSound
  <2>3. SellCheck(at, pos)
    BY <1>2 DEF RecoveredFromDb
  <2> HIDE DEF pos
  <2>. QED  BY <1>1, <2>2, <2>3, SellCheckStep
<1>3. CASE FellBack
  <2> DEFINE pos == FallbackPosition(at.s, at.p, at.a, now)
  <2>1. pos \in Position /\ BelowPeak(pos)
    BY <1>1, FallbackPositionSound
  <2>2. SellCheck(at, pos)
    BY <1>3 DEF FellBack
  <2> HIDE DEF pos
  <2>. QED  BY <1>1, <2>1, <2>2, SellCheckStep
<1>. QED  BY <1>2, <1>3

\* Sending and executing orders.
LEMMA OrderSteps ==
  ASSUME IInv, BuySent \/ PaperBuy \/ OrderFilled \/ RequestLost \/ ReplyLost
  PROVE  Regular
<1>1. /\ TypeOK /\ Up
      /\ at \in Evaluation /\ at.m \in Market /\ at.p \in Nat
      /\ portfolio \in Portfolio /\ order \in Order
      /\ holding \in [Account -> Lots]
      /\ UNCHANGED <<config, trades, world>>
      /\ trades' \in [Market -> Trade \union {None}]
  BY DEF IInv, TypeOK, Evaluation, Up, BuySent, PaperBuy, OrderFilled, RequestLost, ReplyLost
<1>2. CASE BuySent
  <2>1. TaskOK' /\ holding' \in [Account -> Lots] /\ UNCHANGED book
    BY <1>1, <1>2 DEF BuySent, Send, TaskOK, Controls, Order, Account
  <2>. QED  BY <1>1, <2>1, KeepingStep
<1>3. CASE PaperBuy
  <2>1. at.p + Slip \in Nat
    BY <1>1, TradingEngineAssumption
  <2>2. holding' \in [Account -> Lots]
    BY <1>1, <1>3 DEF PaperBuy, Account, Lots
  <2>3. Bought(at.p + Slip)
    BY <1>3 DEF PaperBuy
  <2>. QED  BY <1>1, <2>1, <2>2, <2>3, BoughtStep
<1>4. CASE OrderFilled
  <2>1. holding' \in [Account -> Lots]
    BY <1>1, <1>4, ExchangeFillsType DEF OrderFilled
  <2>2. CASE \E fill \in {price[at.m]} \union OddFills : Bought(fill)
    <3>1. PICK fill \in {price[at.m]} \union OddFills : Bought(fill)
      BY <2>2
    <3>2. fill \in Nat
      BY <1>1, TradingEngineAssumption DEF TypeOK
    <3>. QED  BY <1>1, <2>1, <3>1, <3>2, BoughtStep
  <2>3. CASE pc' = "clear" /\ UNCHANGED <<at, portfolio, order, book>>
    <3>1. TaskOK'
      BY <1>1, <2>3 DEF TaskOK, Controls
    <3>. QED  BY <1>1, <2>1, <2>3, <3>1, KeepingStep
  <2>. QED  BY <1>4, <2>2, <2>3 DEF OrderFilled
<1>5. CASE RequestLost
  <2>1. TaskOK'
    BY <1>1, <1>5, RetryType DEF RequestLost
  <2>. QED  BY <1>1, <1>5, <2>1, KeepingStep DEF RequestLost
<1>6. CASE ReplyLost
  <2>1. TaskOK' /\ holding' \in [Account -> Lots]
    BY <1>1, <1>6, RetryType, ExchangeFillsType DEF ReplyLost
  <2>. QED  BY <1>1, <1>6, <2>1, KeepingStep DEF ReplyLost
<1>. QED  BY <1>2, <1>3, <1>4, <1>5, <1>6

\* The record of a sold holding goes.
LEMMA ClearedStep ==
  ASSUME IInv, Cleared
  PROVE  Regular
<1>1. /\ TypeOK /\ Up /\ at.m \in Market /\ positions \in Records
      /\ UNCHANGED <<config, trades, holding, world>>
  BY DEF IInv, TypeOK, Evaluation, Up, Cleared
<1>2. TaskOK'
  BY <1>1, ReturnType DEF Cleared
<1>3. Drops(at.m)
  BY <1>1, <1>2 DEF Cleared, Drops, Up, TaskOK, Controls
<1>4. positions' \in Records
  BY <1>1, <1>3 DEF Drops, Records
<1>5. TypeOK' /\ RecoverOK'
  BY <1>1, <1>2, <1>3, <1>4 DEF TypeOK, RecoverOK, TaskOK, Controls, Drops, Saves, config, world
<1>. QED  BY <1>1, <1>3, <1>5 DEF Regular, BookStep

\* The process dies or is started again.
LEMMA ProcessSteps ==
  ASSUME IInv, Crash \/ Restart
  PROVE  Regular
<1>1. /\ TypeOK
      /\ NoPortfolio \in Portfolio /\ Nowhere \in Evaluation /\ NoOrder \in Order
      /\ NoPositions \in Records /\ NoLots \in Lots
  BY TradingEngineAssumption, ExitRulesAssumption
  DEF IInv, NoPortfolio, Portfolio, NoLots, Lots, Account, Nowhere, Evaluation,
      NoOrder, Order, NoPositions, Records, Market, Strategy
<1>2. CASE Crash
  <2>1. /\ snapshot' \in Records \union {Lost}
        /\ holding' \in [Account -> Lots]
    BY <1>1, <1>2 DEF Crash, TypeOK, Account
  <2>2. TypeOK' /\ RecoverOK'
    BY <1>1, <1>2, <2>1 DEF Crash, TypeOK, RecoverOK, config, world
  <2>3. Dies
    BY <1>2 DEF Crash, Dies, Up
  <2>. QED  BY <2>2, <2>3 DEF Regular, BookStep
<1>3. CASE Restart
  <2>1. Restored \in Records
    BY <1>1 DEF Restored, TypeOK
  <2>2. mode' \in Account /\ enabled' \subseteq Strategy /\ paused' \in BOOLEAN
    BY <1>3, TradingEngineAssumption DEF Restart
  <2>3. positions' = Restored
    BY <1>3 DEF Restart, Restored
  <2>4. TypeOK' /\ RecoverOK'
    BY <1>1, <1>3, <2>1, <2>2, <2>3 DEF Restart, TypeOK, RecoverOK, world
  <2>5. Boots
    BY <1>3, <2>3 DEF Restart, Boots, Up
  <2>. QED  BY <2>4, <2>5 DEF Regular, BookStep
<1>. QED  BY <1>2, <1>3

\* Commands, the clock and the prices leave the task and the book alone.
LEMMA OutsideSteps ==
  ASSUME IInv, CommandStep \/ TimePasses \/ PriceMoves
  PROVE  Regular
<1>1. /\ TypeOK /\ RecoverOK
      /\ UNCHANGED <<task, book, trades, holding>>
  BY DEF IInv, CommandStep, Pause, Resume, SwitchMode, Enable, Disable, SwitchStrategy,
         Serve, TimePasses, PriceMoves
<1>2. mode' \in Account /\ paused' \in BOOLEAN /\ enabled' \subseteq Strategy
  BY <1>1 DEF TypeOK, Account, CommandStep, Pause, Resume, SwitchMode, Enable, Disable,
              SwitchStrategy, Serve, TimePasses, PriceMoves, config
<1>3. price' \in [Market -> Nat]
  BY <1>1, TradingEngineAssumption
  DEF TypeOK, CommandStep, Pause, Resume, SwitchMode, Enable, Disable,
      SwitchStrategy, Serve, TimePasses, PriceMoves, world
<1>4. now' \in Int
  BY <1>1, TradingEngineAssumption
  DEF TypeOK, CommandStep, Pause, Resume, SwitchMode, Enable, Disable,
      SwitchStrategy, Serve, TimePasses, PriceMoves, world
<1>5. TypeOK' /\ RecoverOK'
  BY <1>1, <1>2, <1>3, <1>4 DEF TypeOK, RecoverOK, task, book
<1>6. BookStep
  BY <1>1 DEF BookStep, Keeps, Up, task
<1>. QED  BY <1>5, <1>6 DEF Regular

\* Whatever the engine does next is regular.
LEMMA EveryStep ==
  ASSUME IInv, [Next]_vars
  PROVE  Regular
<1>1. CASE EngineStep
  BY <1>1, PortfolioSteps, ReturningSteps, FetchedStep, RecoverySteps, OrderSteps,
     ClearedStep DEF EngineStep
<1>2. CASE Crash \/ Restart
  BY <1>2, ProcessSteps
<1>3. CASE CommandStep \/ TimePasses \/ PriceMoves
  BY <1>3, OutsideSteps
<1>4. CASE UNCHANGED vars
  BY <1>4 DEF IInv, Regular, TypeOK, RecoverOK, BookStep, Keeps, Up,
              vars, task, book, config, world
<1>. QED  BY <1>1, <1>2, <1>3, <1>4 DEF Next

-----------------------------------------------------------------------------
(* The invariants.                                                         *)

\* With readable records a file that holds them restores them.
LEMMA RestoredType ==
  ASSUME TypeOK
  PROVE  /\ Restored \in Records
         /\ snapshot \in Records => Restored = snapshot
         /\ NoPositions \in Records
BY TradingEngineAssumption DEF TypeOK, Restored, NoPositions, Records

\* The invariant holds at the start.
LEMMA InitInvariant ==
  ASSUME Init
  PROVE  IInv
<1>1. /\ NMarket \in Nat \ {0} /\ NStrategy \in Nat \ {0}
      /\ 1 \in Market /\ 1 \in Strategy
      /\ NoPositions \in Records
  BY TradingEngineAssumption, ExitRulesAssumption DEF Market, Strategy, NoPositions, Records
<1>2. /\ NoPortfolio \in Portfolio /\ Nowhere \in Evaluation /\ NoOrder \in Order
      /\ NoLots \in Lots
  BY <1>1 DEF NoPortfolio, Portfolio, NoLots, Lots, Account, Nowhere, Evaluation,
              NoOrder, Order
<1>3. /\ mode \in Account /\ paused \in BOOLEAN /\ enabled \subseteq Strategy
      /\ now \in Int
  BY TradingEngineAssumption DEF Init
<1>4. price \in [Market -> Nat]
  BY TradingEngineAssumption DEF Init
<1>5. trades \in [Market -> Trade \union {None}] /\ holding \in [Account -> Lots]
  BY <1>2 DEF Init, NoPositions
<1>6. TypeOK
  BY <1>1, <1>2, <1>3, <1>4, <1>5 DEF Init, TypeOK
<1>7. SnapshotCurrent /\ RecoverOK
  BY DEF Init, SnapshotCurrent, RecoverOK, Up
<1>8. StopsBelowPeak
  BY <1>1, <1>6, RestoredType DEF Init, StopsBelowPeak, NoPositions
<1>. QED  BY <1>6, <1>7, <1>8 DEF IInv

\* The file is current after a step of the book.
LEMMA BookStepCurrent ==
  ASSUME IInv, TypeOK', BookStep, SavesSucceed
  PROVE  SnapshotCurrent'
<1>1. TypeOK /\ SnapshotCurrent /\ Lost \notin Records
  BY TradingEngineAssumption DEF IInv
<1>2. CASE Keeps
  BY <1>1, <1>2 DEF Keeps, SnapshotCurrent, Restored, book
<1>3. CASE Dies
  BY <1>3 DEF Dies, SnapshotCurrent
<1>4. CASE Boots
  BY <1>4 DEF Boots, SnapshotCurrent, Restored
<1>5. ASSUME NEW m \in Market, Puts(m) \/ Drops(m)
      PROVE  SnapshotCurrent'
  <2>1. snapshot' = positions' \/ UNCHANGED <<positions, snapshot>>
    BY <1>5 DEF Puts, Drops, Written, Saves, SavesSucceed
  <2>. QED  BY <1>1, <1>5, <2>1 DEF Puts, Drops, SnapshotCurrent, Restored, TypeOK
<1>. QED  BY <1>2, <1>3, <1>4, <1>5 DEF BookStep

\* What the file restores follows the records or stays while the process is up,
\* stays while it is down or starts, and is emptied when the file is lost.
LEMMA RestoredSteps ==
  ASSUME IInv, TypeOK', BookStep
  PROVE  \/ Restored' = Restored
         \/ Restored' = NoPositions
         \/ /\ Restored' = positions'
            /\ \E m \in Market : Puts(m) \/ Drops(m)
<1>1. CASE Keeps \/ Boots
  BY <1>1 DEF Keeps, Boots, Restored, book
<1>2. CASE Dies
  BY <1>2 DEF Dies, Restored, NoPositions
<1>3. ASSUME NEW m \in Market, Puts(m) \/ Drops(m)
      PROVE  \/ Restored' = Restored
             \/ Restored' = NoPositions
             \/ Restored' = positions'
  <2>1. snapshot' \in {positions', snapshot, Lost}
    BY <1>3 DEF Puts, Drops, Written, Saves
  <2>2. positions' \in Records /\ Lost \notin Records
    BY TradingEngineAssumption DEF TypeOK
  <2>3. snapshot' = Lost => Restored' = NoPositions
    BY DEF Restored, NoPositions
  <2>. QED  BY <2>1, <2>2, <2>3 DEF Restored
<1>. QED  BY <1>1, <1>2, <1>3 DEF BookStep

\* While the process is up and saves succeed, the file is what is in memory.
LEMMA RestoredIsCurrent ==
  ASSUME IInv, SavesSucceed, Up
  PROVE  Restored = positions
BY DEF IInv, SnapshotCurrent

\* Every record stays below its peak.
LEMMA BookStepBelowPeak ==
  ASSUME IInv, TypeOK', BookStep
  PROVE  StopsBelowPeak'
<1>1. /\ TypeOK /\ StopsBelowPeak
      /\ positions \in Records /\ positions' \in Records
  BY DEF IInv, TypeOK
<1>2. ASSUME NEW n \in Market, Restored'[n] # None
      PROVE  BelowPeak(Restored'[n])
  <2>1. CASE Restored' = Restored
    BY <1>1, <1>2, <2>1 DEF StopsBelowPeak
  <2>2. CASE Restored' = NoPositions
    BY <1>2, <2>2 DEF NoPositions
  <2>3. ASSUME NEW m \in Market, Puts(m) \/ Drops(m), Restored' = positions'
        PROVE  BelowPeak(Restored'[n])
    BY <1>1, <1>2, <2>3 DEF Puts, Drops, StopsBelowPeak, Records
  <2>. QED  BY <2>1, <2>2, <2>3, RestoredSteps
<1>3. ASSUME NEW n \in Market, positions'[n] # None
      PROVE  BelowPeak(positions'[n])
  <2>1. CASE Keeps
    BY <1>1, <1>3, <2>1 DEF Keeps, book, StopsBelowPeak
  <2>2. CASE Dies
    BY <1>3, <2>2 DEF Dies, NoPositions
  <2>3. CASE Boots
    BY <1>1, <1>3, <2>3 DEF Boots, StopsBelowPeak
  <2>4. ASSUME NEW m \in Market, Puts(m) \/ Drops(m)
        PROVE  BelowPeak(positions'[n])
    BY <1>1, <1>3, <2>4 DEF Puts, Drops, StopsBelowPeak, Records
  <2>. QED  BY <2>1, <2>2, <2>3, <2>4 DEF BookStep
<1>. QED  BY <1>2, <1>3 DEF StopsBelowPeak

\* The invariant is inductive.
LEMMA Inductive ==
  ASSUME IInv, [Next]_vars
  PROVE  IInv'
<1>1. TypeOK' /\ RecoverOK' /\ BookStep
  BY EveryStep DEF Regular
<1>. QED  BY <1>1, BookStepCurrent, BookStepBelowPeak DEF IInv

\* The inductive invariant holds throughout.
LEMMA Invariance == Spec => []IInv
<1>1. Init => IInv
  BY InitInvariant
<1>2. IInv /\ [Next]_vars => IInv'
  BY Inductive
<1>. QED  BY <1>1, <1>2, PTL DEF Spec

\* Every variable of the engine keeps its type, for any number of strategies and
\* markets, any faults and any commands (_tick, _evaluate, _execute_sell and what
\* they call).
THEOREM TypeCorrect == Spec => []TypeOK
<1>1. IInv => TypeOK
  BY DEF IInv
<1>. QED  BY <1>1, Invariance, PTL

\* Whenever the engine awaits, the snapshot file restores exactly the records in
\* memory (_save_positions after every change of _positions), unless a save itself
\* fails: a crash at any await loses no stop and revives no record.
THEOREM SnapshotIsCurrent ==
  ASSUME "save" \notin Faults
  PROVE  Spec => []SnapshotCurrent
<1>1. IInv => SnapshotCurrent
  BY DEF IInv, SavesSucceed
<1>. QED  BY <1>1, Invariance, PTL

\* Strategy s, reading ATR a, keeps the trailing stop of r strictly below a price
\* that is not 0.
Trails(s, r, a) == TrailPct[s] > 0 \/ AtrMult[s] * OrElse(Atr14(s, a), r.atr) > 0

\* The exits for which a price reached a stop.
StopExits == {"HARD_STOP", "ATR_TRAIL", "PCT_TRAIL"}

\* A price above the peak of a record reaches no stop after the refresh it causes,
\* if there is a distance for the trail to keep.
LEMMA NewHighReachesNoStop ==
  ASSUME NEW s \in Strategy, NEW r \in Position, BelowPeak(r), NEW p \in Nat, p > r.high,
         NEW a \in Nat, NEW t \in Int, Trails(s, r, a)
  PROVE  ExitReason(s, Refreshed(s, r, p, a, t), p, t) \notin StopExits
<1> DEFINE new == Refreshed(s, r, p, a, t)
           atr == OrElse(Atr14(s, a), r.atr)
           trail == TrailUnder(s, p, atr)
<1>1. atr \in Nat /\ TrailPct[s] \in 0 .. 100 /\ AtrMult[s] \in Nat
  BY AtrType, ExitRulesAssumption DEF Position
<1>2. trail \in Int /\ trail < 100 * p
  <2>1. CASE TrailPct[s] > 0
    <3>1. p * TrailPct[s] \in Nat /\ p * TrailPct[s] > 0
      <4>1. p > 0
        BY DEF Position
      <4>. QED  BY <1>1, <2>1, <4>1, Z3
    <3>2. p * (100 - TrailPct[s]) = 100 * p - p * TrailPct[s]
      BY <1>1, Z3
    <3>. QED  BY <2>1, <3>1, <3>2 DEF TrailUnder
  <2>2. CASE ~(TrailPct[s] > 0)
    <3>1. AtrMult[s] * atr > 0 /\ AtrMult[s] * atr \in Nat
      BY <1>1, <2>2, Z3 DEF Trails
    <3>. QED  BY <2>2, <3>1 DEF TrailUnder
  <2>. QED  BY <2>1, <2>2
<1>3. PeakWith(r, p) = p
  BY DEF PeakWith
<1>4. new.trail \in {r.trail, trail} /\ new.hard = r.hard
  BY <1>3 DEF Refreshed, Position
<1> HIDE DEF new, trail
<1>5. ~(100 * p <= new.hard) /\ ~(100 * p > new.hard /\ 100 * p <= new.trail)
  BY <1>2, <1>4 DEF BelowPeak, Position
<1>6. ExitReason(s, new, p, t) \in {"TIME_EXIT", "NONE"}
  BY <1>5, Zenon DEF ExitReason
<1>. QED  BY <1>6 DEF StopExits, new

\* Whatever the records of the engine have been through.
NewHighsAreKept ==
  \A m \in Market, s \in Strategy, p \in Nat, a \in Nat :
    positions[m] # None /\ p > positions[m].high /\ Trails(s, positions[m], a)
      => ExitReason(s, Refreshed(s, positions[m], p, a, now), p, now) \notin StopExits

\* A price above the peak a record remembers is not taken for a stop (the order of
\* raising the peak, moving the trail and comparing, trading_engine.py:378-449),
\* whichever of a buy, a refresh of either strategy, a recovery, a restart or a
\* crash made the record what it is.  The position may still be sold for its age,
\* and on the price itself where the ATR is 0 and there is no percentage.
THEOREM NewHighsReachNoStop == Spec => []NewHighsAreKept
<1>1. ASSUME IInv, NEW m \in Market, positions[m] # None
      PROVE  positions[m] \in Position /\ BelowPeak(positions[m]) /\ now \in Int
  BY <1>1 DEF IInv, TypeOK, StopsBelowPeak, Records
<1>2. IInv => NewHighsAreKept
  BY <1>1, NewHighReachesNoStop DEF NewHighsAreKept
<1>. QED  BY <1>2, Invariance, PTL

-----------------------------------------------------------------------------
(* The engine implements the abstract book of stops.                       *)

\* What the locals of the task are worth at an await: what is being recovered was
\* read as held, an order is for something, and a purchase about to be logged has
\* its record.
LocalsOK ==
  /\ pc = "recover" => Held(at.m)
  /\ pc = "ordering" => order.qty > 0
  /\ pc = "record" => positions[at.m] # None /\ positions[at.m].entry = at.p

\* At the other awaits nothing is asked of the locals.
LEMMA LocalsIdle ==
  ASSUME pc' \notin {"recover", "ordering", "record"}
  PROVE  LocalsOK'
BY DEF LocalsOK

\* A sell check of a market read as held orders the sale of something.
LEMMA LocalsSellCheck ==
  ASSUME NEW e \in Evaluation, NEW pos, Held(e.m), SellCheck(e, pos)
  PROVE  LocalsOK'
<1>1. CASE pc' \in {"fetch", "idle", "buying", "clear"}
  BY <1>1, LocalsIdle
<1>2. CASE Send(e, "sell", portfolio.qty[e.m])
  BY <1>2 DEF Send, LocalsOK, Held
<1>3. CASE PaperSell(e, portfolio.qty[e.m])
  BY <1>1, <1>3, GoOnControls DEF PaperSell
<1>4. CASE GoOn(e.s, e.m, portfolio) \/ Signal(e)
  BY <1>1, <1>4, GoOnControls DEF Signal
<1>. QED  BY <1>2, <1>3, <1>4 DEF SellCheck, ExecuteSell

\* A purchase that filled has its record.
LEMMA LocalsBought ==
  ASSUME TypeOK, NEW fill \in Nat, Bought(fill)
  PROVE  LocalsOK'
<1> DEFINE new == NewPosition(at.s, fill, at.a, now)
<1>1. /\ at \in Evaluation /\ at.s \in Strategy /\ at.m \in Market /\ at.a \in Nat
      /\ now \in Int /\ positions \in Records /\ None \notin Position
  BY TradingEngineAssumption DEF TypeOK, Evaluation
<1>2. new \in Position /\ new.entry = fill
  BY <1>1, NewPositionSound DEF NewPosition
<1>3. positions' = [positions EXCEPT ![at.m] = new]
  BY DEF Bought
<1> HIDE DEF new
<1>4. pc' = "record" /\ at'.p = fill /\ at'.m = at.m
  BY <1>1 DEF Bought, Evaluation
<1>5. positions'[at.m] = new
  BY <1>1, <1>3 DEF Records
<1>. QED  BY <1>1, <1>2, <1>4, <1>5 DEF LocalsOK

\* Whatever the engine does next, its locals are worth that.
LEMMA LocalsStay ==
  ASSUME IInv, LocalsOK, [Next]_vars
  PROVE  LocalsOK'
<1>1. TypeOK /\ at \in Evaluation /\ price[at.m] \in Nat /\ at.p \in Nat /\ at.a \in Nat
  BY DEF IInv, TypeOK, Evaluation
<1>2. CASE StartTick \/ BalanceRead \/ AccountsRead \/ PortfolioFails
  <2>1. pc' \in {"balance", "accounts", "fetch", "idle"}
    BY <1>2, GoOnControls DEF StartTick, BalanceRead, AccountsRead, PortfolioFails, FirstVisit
  <2>. QED  BY <2>1, LocalsIdle
<1>3. CASE FetchFails \/ BuyRefused \/ TradeRecorded \/ RecordingFails \/ Cleared
  <2>1. pc' \in {"fetch", "idle"}
    BY <1>3, GoOnControls
    DEF FetchFails, BuyRefused, TradeRecorded, RecordingFails, Cleared, Return
  <2>. QED  BY <2>1, LocalsIdle
<1>4. CASE Fetched
  <2>1. PICK a \in Atrs :
          LET e == [at EXCEPT !.p = price[at.m], !.a = a] IN
          \/ Held(e.m) /\ SellCheck(e, positions[e.m])
          \/ Held(e.m) /\ pc' = "recover" /\ at' = e /\ UNCHANGED portfolio
          \/ Signal(e)
    BY <1>4 DEF Fetched
  <2> DEFINE e == [at EXCEPT !.p = price[at.m], !.a = a]
  <2>2. e \in Evaluation
    BY <1>1, <2>1, TradingEngineAssumption DEF Evaluation
  <2> HIDE DEF e
  <2>3. CASE Held(e.m) /\ SellCheck(e, positions[e.m])
    BY <2>2, <2>3, LocalsSellCheck
  <2>4. CASE Held(e.m) /\ pc' = "recover" /\ at' = e /\ UNCHANGED portfolio
    BY <2>4 DEF LocalsOK, Held
  <2>5. CASE Signal(e)
    BY <2>5, GoOnControls, LocalsIdle DEF Signal
  <2>. QED  BY <2>1, <2>3, <2>4, <2>5 DEF e
<1>5. CASE RecoveredFromDb \/ FellBack
  <2>1. Held(at.m) /\ \E pos : SellCheck(at, pos)
    BY <1>5 DEF RecoveredFromDb, FellBack, LocalsOK
  <2>. QED  BY <1>1, <2>1, LocalsSellCheck
<1>6. CASE BuySent
  BY <1>6 DEF BuySent, Send, LocalsOK
<1>7. CASE PaperBuy
  <2>1. at.p + Slip \in Nat
    BY <1>1, TradingEngineAssumption
  <2>. QED  BY <1>1, <1>7, <2>1, LocalsBought DEF PaperBuy
<1>8. CASE OrderFilled
  <2>1. CASE pc' = "clear"
    BY <2>1, LocalsIdle
  <2>2. CASE \E fill \in {price[at.m]} \union OddFills : Bought(fill)
    BY <1>1, <2>2, LocalsBought, TradingEngineAssumption
  <2>. QED  BY <1>8, <2>1, <2>2 DEF OrderFilled
<1>9. CASE RequestLost \/ ReplyLost
  <2>1. pc = "ordering" /\ Retry /\ order \in Order
    BY <1>1, <1>9 DEF RequestLost, ReplyLost, TypeOK
  <2>2. CASE Return
    BY <2>2, GoOnControls, LocalsIdle DEF Return
  <2>3. CASE order' = [order EXCEPT !.tries = @ + 1] /\ UNCHANGED <<pc, at, portfolio>>
    BY <2>1, <2>3 DEF LocalsOK, Order
  <2>. QED  BY <2>1, <2>2, <2>3 DEF Retry
<1>10. CASE Crash \/ Restart
  BY <1>10, LocalsIdle DEF Crash, Restart
<1>11. CASE CommandStep \/ TimePasses \/ PriceMoves \/ UNCHANGED vars
  <2>1. UNCHANGED <<pc, at, portfolio, order, positions>>
    BY <1>11 DEF CommandStep, Pause, Resume, SwitchMode, Enable, Disable, SwitchStrategy,
                 Serve, TimePasses, PriceMoves, vars, task, book
  <2>. QED  BY <2>1 DEF LocalsOK, Held
<1>. QED  BY <1>2, <1>3, <1>4, <1>5, <1>6, <1>7, <1>8, <1>9, <1>10, <1>11
          DEF Next, EngineStep

\* A step of the abstract book, or none.
BookMoves == [Book!Next]_(Book!vars)

\* While the process is up the book is what is in memory.
LEMMA KeptUp ==
  ASSUME Up, Up'
  PROVE  Kept = positions /\ Kept' = positions' /\ Up' = Up
BY DEF Up, Kept

\* Nothing is sold at any await but the one about to drop a record.
LEMMA NothingSold ==
  /\ pc # "clear" => Sold = {}
  /\ pc' # "clear" => Sold' = {}
  /\ pc = "clear" => Sold = {at.m}
  /\ pc' = "clear" => Sold' = {at'.m}
BY DEF Sold

\* A step that changes no record, holding, trade or hour is a step of reading.
LEMMA ReadMoves ==
  ASSUME Up, Up', pc # "clear", pc' # "clear",
         UNCHANGED <<positions, holding, trades, now>>,
         portfolio'.qty \in {portfolio.qty, NoLots, holding["paper"], holding["live"]}
  PROVE  BookMoves
<1>1. /\ Kept' = Kept /\ Up' = Up /\ Sold' = Sold
      /\ UNCHANGED <<holding, trades, now>>
  BY KeptUp, NothingSold
<1>2. CASE portfolio'.qty = portfolio.qty
  BY <1>1, <1>2 DEF BookMoves, Book!vars
<1>3. CASE portfolio'.qty \in {NoLots, holding["paper"], holding["live"]}
  <2>1. portfolio'.qty \in {holding[c] : c \in Account} \union {Book!NoLots}
    BY <1>3 DEF Account, NoLots, Book!NoLots
  <2>2. Book!Read
    BY <1>1, <2>1 DEF Book!Read
  <2>. QED  BY <2>2 DEF BookMoves, Book!Next
<1>. QED  BY <1>2, <1>3

\* Going on keeps the reading or forgets it.
LEMMA GoOnReads ==
  ASSUME NEW s, NEW m, GoOn(s, m, portfolio)
  PROVE  Book!GoesOn /\ pc' \in {"fetch", "idle"}
BY GoOnControls DEF Book!GoesOn, NoPortfolio, NoLots, Book!NoLots

\* The day of the session rolls over at 09:00.
LEMMA SessionsAgree ==
  ASSUME NEW t \in Int
  PROVE  SessionDate(t) = Book!Session(t)
BY DEF SessionDate, Book!Session

\* What an evaluation may make of the record of a market: tighten the old one or
\* recover one.
Recovered(new, m) ==
  \/ positions[m] # None /\ Book!Tighter(new, positions[m])
  \/ positions[m] = None /\ (Book!OfLogged(new, trades[m]) \/ Book!MadeUp(new))

\* A sell check of a market read as held is an evaluation of the book.
LEMMA SellCheckMoves ==
  ASSUME IInv, Up, pc # "clear", NEW e \in Evaluation, Held(e.m),
         NEW pos \in Position, BelowPeak(pos), SellCheck(e, pos),
         UNCHANGED <<config, trades, world>>,
         Recovered(Refreshed(e.s, pos, e.p, e.a, now), e.m)
  PROVE  BookMoves
<1> DEFINE new == Refreshed(e.s, pos, e.p, e.a, now)
<1>1. /\ TypeOK /\ now \in Int /\ positions \in Records
      /\ e.s \in Strategy /\ e.m \in Market /\ e.p \in Nat /\ e.a \in Nat
      /\ portfolio.qty[e.m] \in Nat \ {0} /\ portfolio.qty \in Lots
      /\ holding \in [Account -> Lots] /\ now' = now
  BY DEF IInv, TypeOK, Evaluation, Portfolio, Lots, Held, world
<1>2. new \in Position /\ BelowPeak(new)
  BY <1>1, RefreshedTightens DEF Tightens
<1>3. /\ positions' = [positions EXCEPT ![e.m] = new] /\ Up'
  BY <1>1, SellCheckType DEF TaskOK, Controls, Up
<1>4. Recovered(new, e.m)
  OBVIOUS
<1> HIDE DEF new
<1>5. positions'[e.m] = new
  BY <1>1, <1>3 DEF Records
<1>6. Kept = positions /\ Kept' = positions' /\ Up' = Up /\ Sold = {}
  BY <1>3, KeptUp, NothingSold
<1>7. Book!Only(e.m) /\ Book!Sound(Kept'[e.m])
  BY <1>2, <1>3, <1>5, <1>6 DEF Book!Only, Book!Sound, BelowPeak
<1>8. ASSUME Book!GoesOn, (UNCHANGED holding /\ Sold' = {}) \/ (Book!Sells(e.m) /\ Sold' = {e.m})
      PROVE  BookMoves
  <2>1. Book!Evaluate(e.m)
    BY <1>1, <1>4, <1>5, <1>6, <1>7, <1>8 DEF Book!Evaluate, Recovered
  <2>. QED  BY <1>1, <2>1 DEF BookMoves, Book!Next
<1>9. ASSUME UNCHANGED <<portfolio, holding>>, pc' # "clear"
      PROVE  BookMoves
  BY <1>8, <1>9, NothingSold DEF Book!GoesOn
<1>10. ASSUME GoOn(e.s, e.m, portfolio), UNCHANGED holding
      PROVE  BookMoves
  BY <1>8, <1>10, NothingSold, GoOnReads
<1>11. CASE Signal(e)
  BY <1>9, <1>10, <1>11 DEF Signal
<1>12. ASSUME NEW why, ExecuteSell(e, why)
       PROVE  BookMoves
  <2>1. CASE GoOn(e.s, e.m, portfolio) /\ UNCHANGED <<order, holding>>
    BY <1>10, <2>1
  <2>2. CASE Send(e, "sell", portfolio.qty[e.m])
    BY <1>9, <2>2 DEF Send
  <2>3. CASE PaperSell(e, portfolio.qty[e.m])
    <3>1. CASE holding["paper"][e.m] = 0
      BY <1>10, <2>3, <3>1 DEF PaperSell
    <3>2. CASE holding["paper"][e.m] # 0
      <4>1. /\ holding' = [holding EXCEPT !["paper"][e.m] =
                             IF @ > portfolio.qty[e.m] THEN @ - portfolio.qty[e.m] ELSE 0]
            /\ pc' = "clear" /\ at' = e /\ portfolio' = portfolio
        BY <2>3, <3>2 DEF PaperSell
      <4>2. /\ holding["paper"][e.m] \in Nat \ {0} /\ "paper" \in Account
        BY <1>1, <3>2 DEF Account, Lots
      <4>3. /\ holding'["paper"][e.m] < holding["paper"][e.m]
            /\ holding' = [holding EXCEPT !["paper"][e.m] = holding'["paper"][e.m]]
        <5> DEFINE had == holding["paper"][e.m]
                   rest == IF had > portfolio.qty[e.m] THEN had - portfolio.qty[e.m] ELSE 0
        <5>1. holding' = [holding EXCEPT !["paper"][e.m] = rest]
          BY <4>1
        <5>2. rest < had
          BY <1>1, <4>2
        <5> HIDE DEF rest
        <5>3. holding'["paper"][e.m] = rest
          BY <1>1, <4>2, <5>1 DEF Lots
        <5>. QED  BY <5>1, <5>2, <5>3
      <4>4. Book!Sells(e.m)
        BY <4>2, <4>3 DEF Book!Sells, Book!OnlyLots
      <4>. QED  BY <1>8, <4>1, <4>4, NothingSold DEF Book!GoesOn
    <3>. QED  BY <3>1, <3>2
  <2>. QED  BY <1>12, <2>1, <2>2, <2>3 DEF ExecuteSell
<1>. QED  BY <1>11, <1>12 DEF SellCheck

\* What a refresh tightens, the book tightens.
LEMMA TighterBook ==
  ASSUME NEW new, NEW pos, Tightens(new, pos)
  PROVE  Book!Tighter(new, pos)
BY DEF Tightens, Book!Tighter

\* The record recovered from a logged purchase is that purchase's.
LEMMA DbRecovers ==
  ASSUME NEW s \in Strategy, NEW buy \in Trade, buy # None,
         NEW p \in Nat, NEW a \in Nat, NEW t \in Int
  PROVE  Book!OfLogged(Refreshed(s, DbPosition(s, buy, a), p, a, t), buy)
<1> DEFINE old == DbPosition(s, buy, a)
           new == Refreshed(s, old, p, a, t)
<1>1. old \in Position /\ Tightens(new, old)
  BY DbPositionSound, RefreshedTightens
<1>2. /\ old.entry = buy.price /\ old.hard = 95 * buy.price
      /\ old.time = buy.time /\ old.session = SessionDate(buy.time) /\ buy.time \in Int
  BY DEF DbPosition, Trade
<1> HIDE DEF old, new
<1>3. new.entry = old.entry /\ new.hard = old.hard /\ new.time = old.time
      /\ new.session = old.session
  BY <1>1 DEF Tightens, Position
<1>. QED  BY <1>2, <1>3, SessionsAgree DEF Book!OfLogged, new, old

\* A record made up at a price and refreshed at that price starts from it.
LEMMA FallbackMadeUp ==
  ASSUME NEW s \in Strategy, NEW p \in Nat, NEW a \in Nat, now \in Int
  PROVE  Book!MadeUp(Refreshed(s, FallbackPosition(s, p, a, now), p, a, now))
<1> DEFINE old == FallbackPosition(s, p, a, now)
           new == Refreshed(s, old, p, a, now)
<1>1. old \in Position /\ Tightens(new, old)
  BY FallbackPositionSound, RefreshedTightens
<1>2. /\ old.entry = p /\ old.high = p /\ old.trail = 97 * p /\ old.hard = 95 * p
      /\ old.time = now - 25 /\ old.session = SessionDate(now) - 1
  BY DEF FallbackPosition
<1>3. new.high = p
  BY <1>1, <1>2 DEF Refreshed, PeakWith, Position
<1> HIDE DEF old, new
<1>4. /\ new.entry = old.entry /\ new.hard = old.hard /\ new.time = old.time
      /\ new.session = old.session /\ new.trail >= old.trail
  BY <1>1 DEF Tightens, Position
<1>. QED  BY <1>2, <1>3, <1>4, SessionsAgree DEF Book!MadeUp, new, old

\* The evaluation of a market, from the candles on.
LEMMA EvaluationMoves ==
  ASSUME IInv, LocalsOK, Fetched \/ RecoveredFromDb \/ FellBack
  PROVE  BookMoves
<1>1. /\ TypeOK /\ Up /\ pc \in {"fetch", "recover"} /\ UNCHANGED <<config, trades, world>>
      /\ at \in Evaluation /\ at.s \in Strategy /\ at.m \in Market /\ at.p \in Nat
      /\ at.a \in Nat /\ now \in Int /\ price[at.m] \in Nat
  BY DEF IInv, TypeOK, Evaluation, Up, Fetched, RecoveredFromDb, FellBack
<1>2. CASE Fetched
  <2>1. PICK a \in Atrs :
          LET e == [at EXCEPT !.p = price[at.m], !.a = a] IN
          \/ /\ Held(e.m) /\ positions[e.m] # None
             /\ SellCheck(e, positions[e.m])
          \/ /\ Held(e.m) /\ positions[e.m] = None
             /\ pc' = "recover" /\ at' = e
             /\ UNCHANGED <<portfolio, order, book, holding>>
          \/ /\ ~Held(e.m)
             /\ Signal(e)
             /\ UNCHANGED book
    BY <1>2 DEF Fetched
  <2> DEFINE e == [at EXCEPT !.p = price[at.m], !.a = a]
  <2>2. e \in Evaluation /\ e.s \in Strategy /\ e.m \in Market /\ e.p \in Nat /\ e.a \in Nat
    BY <1>1, <2>1, TradingEngineAssumption DEF Evaluation
  <2> HIDE DEF e
  <2>3. CASE Held(e.m) /\ positions[e.m] # None /\ SellCheck(e, positions[e.m])
    <3>1. positions[e.m] \in Position /\ BelowPeak(positions[e.m])
      BY <1>1, <2>2, <2>3 DEF IInv, TypeOK, StopsBelowPeak, Records
    <3>2. Recovered(Refreshed(e.s, positions[e.m], e.p, e.a, now), e.m)
      BY <1>1, <2>2, <2>3, <3>1, RefreshedTightens, TighterBook DEF Recovered
    <3>. QED  BY <1>1, <2>2, <2>3, <3>1, <3>2, SellCheckMoves
  <2>4. CASE pc' = "recover" /\ UNCHANGED <<portfolio, book, holding>>
    BY <1>1, <2>4, ReadMoves DEF Up, book, world
  <2>5. CASE Signal(e) /\ UNCHANGED book
    <3>1. /\ pc' \in {"fetch", "idle", "buying"} /\ holding' = holding
          /\ portfolio' \in {portfolio, NoPortfolio}
      BY <2>5, GoOnControls DEF Signal
    <3>2. portfolio'.qty \in {portfolio.qty, NoLots}
      BY <3>1 DEF NoPortfolio
    <3>. QED  BY <1>1, <2>5, <3>1, <3>2, ReadMoves DEF Up, book, world
  <2>. QED  BY <2>1, <2>3, <2>4, <2>5 DEF e
<1>3. CASE RecoveredFromDb \/ FellBack
  <2>1. Held(at.m) /\ positions[at.m] = None
    BY <1>3 DEF LocalsOK, IInv, RecoverOK, RecoveredFromDb, FellBack
  <2>2. CASE trades[at.m] # None /\ SellCheck(at, DbPosition(at.s, trades[at.m], at.a))
    <3> DEFINE pos == DbPosition(at.s, trades[at.m], at.a)
    <3>1. trades[at.m] \in Trade /\ trades[at.m] # None
      BY <1>1, <2>2 DEF TypeOK
    <3>2. pos \in Position /\ BelowPeak(pos)
      BY <1>1, <3>1, DbPositionSound
    <3>3. Recovered(Refreshed(at.s, pos, at.p, at.a, now), at.m)
      BY <1>1, <2>1, <3>1, DbRecovers DEF Recovered
    <3> HIDE DEF pos
    <3>. QED  BY <1>1, <2>1, <2>2, <3>2, <3>3, SellCheckMoves DEF pos
  <2>3. CASE SellCheck(at, FallbackPosition(at.s, at.p, at.a, now))
    <3> DEFINE pos == FallbackPosition(at.s, at.p, at.a, now)
    <3>1. pos \in Position /\ BelowPeak(pos)
      BY <1>1, FallbackPositionSound
    <3>2. Recovered(Refreshed(at.s, pos, at.p, at.a, now), at.m)
      BY <1>1, <2>1, FallbackMadeUp DEF Recovered
    <3> HIDE DEF pos
    <3>. QED  BY <1>1, <2>1, <2>3, <3>1, <3>2, SellCheckMoves DEF pos
  <2>. QED  BY <1>3, <2>2, <2>3 DEF RecoveredFromDb, FellBack
<1>. QED  BY <1>2, <1>3

\* A purchase that fills is a purchase of the book.
LEMMA BoughtMoves ==
  ASSUME IInv, Up, pc # "clear", NEW fill \in Nat, Bought(fill),
         UNCHANGED <<config, trades, world>>, Book!Buys(at.m)
  PROVE  BookMoves
<1> DEFINE new == NewPosition(at.s, fill, at.a, now)
<1>1. /\ TypeOK /\ now \in Int /\ positions \in Records /\ UNCHANGED <<now, trades>>
      /\ at.s \in Strategy /\ at.m \in Market /\ at.a \in Nat
  BY DEF IInv, TypeOK, Evaluation, world
<1>2. new \in Position /\ BelowPeak(new) /\ Book!Fresh(new)
  BY <1>1, NewPositionSound, SessionsAgree DEF Book!Fresh, NewPosition
<1>3. /\ positions' = [positions EXCEPT ![at.m] = new]
      /\ pc' = "record" /\ UNCHANGED portfolio
  BY DEF Bought
<1> HIDE DEF new
<1>4. positions'[at.m] = new
  BY <1>1, <1>3 DEF Records
<1>5. /\ Kept = positions /\ Kept' = positions' /\ Up' = Up /\ Up'
      /\ Sold = {} /\ Sold' = {}
  BY <1>3, KeptUp, NothingSold DEF Up
<1>6. Book!Only(at.m) /\ Book!Sound(Kept'[at.m])
  BY <1>2, <1>3, <1>4, <1>5 DEF Book!Only, Book!Sound, BelowPeak
<1>7. Book!Purchase(at.m)
  BY <1>1, <1>2, <1>3, <1>4, <1>5, <1>6 DEF Book!Purchase
<1>. QED  BY <1>1, <1>7 DEF BookMoves, Book!Next

\* An order the exchange carries out trades in the market visited only.
LEMMA ExchangeTrades ==
  ASSUME IInv, LocalsOK, pc = "ordering", ExchangeFills
  PROVE  /\ order.side = "buy" => Book!Buys(at.m)
         /\ order.side # "buy" => Book!Sells(at.m)
<1> DEFINE lots == holding["live"][at.m]
           left == IF order.side = "buy" THEN lots + order.qty ELSE lots - order.qty
<1>1. /\ at.m \in Market /\ order.qty \in Nat /\ order.qty > 0 /\ "live" \in Account
      /\ holding \in [Account -> Lots] /\ lots \in Nat
  BY DEF IInv, LocalsOK, TypeOK, Evaluation, Order, Account, Lots
<1>2. holding' = [holding EXCEPT !["live"][at.m] = left]
  BY DEF ExchangeFills
<1>3. /\ order.side = "buy" => left > lots
      /\ order.side # "buy" => left < lots
  BY <1>1
<1> HIDE DEF left
<1>4. holding'["live"][at.m] = left
  BY <1>1, <1>2 DEF Lots
<1>. QED  BY <1>1, <1>2, <1>3, <1>4 DEF Book!Buys, Book!Sells, Book!OnlyLots

\* A paper purchase buys in the market visited.
LEMMA PaperTrades ==
  ASSUME IInv, PaperBuy
  PROVE  Book!Buys(at.m)
<1> DEFINE lots == holding["paper"][at.m]
<1>1. /\ at.m \in Market /\ "paper" \in Account
      /\ holding \in [Account -> Lots] /\ lots \in Nat
  BY DEF IInv, TypeOK, Evaluation, Account, Lots
<1>2. holding' = [holding EXCEPT !["paper"][at.m] = lots + 1]
  BY DEF PaperBuy
<1>3. holding'["paper"][at.m] = lots + 1
  BY <1>1, <1>2 DEF Lots
<1>4. Book!OnlyLots("paper", at.m)
  BY <1>2, <1>3 DEF Book!OnlyLots
<1>5. holding'["paper"][at.m] > holding["paper"][at.m]
  BY <1>1, <1>3
<1>. QED  BY <1>1, <1>4, <1>5 DEF Book!Buys

\* The attempt failed: the tick keeps its reading, or forgets it and ends.
LEMMA RetryReads ==
  ASSUME pc = "ordering", Retry
  PROVE  Book!GoesOn /\ pc' \in {"ordering", "fetch", "idle"}
BY GoOnReads DEF Retry, Return, Book!GoesOn

\* Sending and executing orders.
LEMMA OrderMoves ==
  ASSUME IInv, LocalsOK, BuySent \/ PaperBuy \/ OrderFilled \/ RequestLost \/ ReplyLost
  PROVE  BookMoves
<1>1. /\ TypeOK /\ Up /\ pc \in {"buying", "ordering"} /\ UNCHANGED <<config, trades, world>>
      /\ at.m \in Market /\ at.p \in Nat /\ price[at.m] \in Nat
      /\ holding \in [Account -> Lots]
  BY DEF IInv, TypeOK, Evaluation, Up, BuySent, PaperBuy, OrderFilled, RequestLost, ReplyLost
<1>2. CASE BuySent
  BY <1>1, <1>2, ReadMoves DEF BuySent, Send, Up, book, world
<1>3. CASE PaperBuy
  <2>1. at.p + Slip \in Nat /\ Bought(at.p + Slip)
    BY <1>1, <1>3, TradingEngineAssumption DEF PaperBuy
  <2>. QED  BY <1>1, <1>3, <2>1, PaperTrades, BoughtMoves
<1>4. CASE OrderFilled
  <2>1. pc = "ordering" /\ ExchangeFills
    BY <1>4 DEF OrderFilled
  <2>2. CASE order.side = "buy" /\ \E fill \in {price[at.m]} \union OddFills : Bought(fill)
    <3>1. PICK fill \in {price[at.m]} \union OddFills : Bought(fill)
      BY <2>2
    <3>2. fill \in Nat
      BY <1>1, TradingEngineAssumption
    <3>. QED  BY <1>1, <2>1, <2>2, <3>1, <3>2, ExchangeTrades, BoughtMoves
  <2>3. CASE order.side = "sell" /\ pc' = "clear" /\ UNCHANGED <<at, portfolio, order, book>>
    <3>1. /\ Kept' = Kept /\ Up' = Up /\ Sold' = {at.m}
          /\ UNCHANGED <<now, trades, portfolio>>
      BY <1>1, <2>3, KeptUp, NothingSold DEF Up, book, world
    <3>2. Book!Sells(at.m)
      BY <2>1, <2>3, ExchangeTrades
    <3>3. Book!Sell(at.m)
      BY <1>1, <3>1, <3>2 DEF Book!Sell
    <3>. QED  BY <1>1, <3>3 DEF BookMoves, Book!Next
  <2>. QED  BY <1>4, <2>2, <2>3 DEF OrderFilled
<1>5. CASE RequestLost
  <2>1. /\ pc = "ordering" /\ Retry /\ UNCHANGED <<positions, holding, trades, now>>
    BY <1>1, <1>5 DEF RequestLost, book, world
  <2>2. portfolio'.qty \in {portfolio.qty, NoLots} /\ pc' \notin {"clear", "down"}
    BY <2>1, RetryReads DEF Book!GoesOn, NoLots, Book!NoLots
  <2>. QED  BY <1>1, <2>1, <2>2, ReadMoves DEF Up
<1>6. CASE ReplyLost
  <2>1. /\ pc = "ordering" /\ ExchangeFills /\ Retry
        /\ UNCHANGED <<positions, trades, now>>
    BY <1>1, <1>6 DEF ReplyLost, book, world
  <2>2. Book!GoesOn /\ pc' \notin {"clear", "down"}
    BY <2>1, RetryReads
  <2>3. Kept' = Kept /\ Up' = Up /\ Sold' = Sold
    BY <1>1, <2>1, <2>2, KeptUp, NothingSold DEF Up
  <2>4. Book!Unheard(at.m)
    BY <1>1, <2>1, <2>2, <2>3, ExchangeTrades DEF Book!Unheard
  <2>. QED  BY <1>1, <2>4 DEF BookMoves, Book!Next
<1>. QED  BY <1>2, <1>3, <1>4, <1>5, <1>6

\* Starting and ending a tick, and going on in it.
LEMMA TickMoves ==
  ASSUME IInv, \/ StartTick \/ BalanceRead \/ AccountsRead \/ PortfolioFails
               \/ FetchFails \/ BuyRefused \/ RecordingFails
  PROVE  BookMoves
<1>1. /\ Up /\ pc # "clear" /\ UNCHANGED <<positions, holding, trades, now>>
  BY DEF Up, StartTick, BalanceRead, AccountsRead, PortfolioFails, FetchFails, BuyRefused,
         RecordingFails, book, world
<1>2. ASSUME NEW acct, NEW lots, FirstVisit(acct, lots)
      PROVE  pc' \in {"fetch", "idle"} /\ portfolio'.qty \in {lots, NoLots}
  BY <1>2, GoOnControls DEF FirstVisit, NoPortfolio
<1>3. ASSUME Return
      PROVE  pc' \in {"fetch", "idle"} /\ portfolio'.qty \in {portfolio.qty, NoLots}
  BY <1>3, GoOnControls DEF Return, NoPortfolio
<1>4. /\ pc' \in {"balance", "accounts", "fetch", "idle"}
      /\ portfolio'.qty \in {portfolio.qty, NoLots, holding["paper"], holding["live"]}
  <2>1. CASE StartTick
    BY <1>2, <2>1 DEF StartTick
  <2>2. CASE BalanceRead
    BY <1>2, <2>2 DEF BalanceRead
  <2>3. CASE AccountsRead \/ PortfolioFails
    BY <1>2, <2>3 DEF AccountsRead, PortfolioFails
  <2>4. CASE FetchFails \/ BuyRefused \/ RecordingFails
    BY <1>3, <2>4 DEF FetchFails, BuyRefused, RecordingFails
  <2>. QED  BY <2>1, <2>2, <2>3, <2>4
<1>. QED  BY <1>1, <1>4, ReadMoves DEF Up

\* The record of what was sold goes; a purchase is logged.
LEMMA RecordMoves ==
  ASSUME IInv, LocalsOK, Cleared \/ TradeRecorded
  PROVE  BookMoves
<1>1. /\ at.m \in Market /\ Up /\ Return /\ UNCHANGED <<holding, now>>
  BY DEF IInv, TypeOK, Evaluation, Up, Cleared, TradeRecorded, world
<1>2. Book!GoesOn /\ pc' \notin {"clear", "down"}
  BY <1>1, GoOnReads DEF Return
<1>3. Kept = positions /\ Kept' = positions' /\ Up' = Up /\ Sold' = {}
  BY <1>1, <1>2, KeptUp, NothingSold DEF Up
<1>4. CASE Cleared
  <2>1. Sold = {at.m} /\ positions' = [positions EXCEPT ![at.m] = None] /\ trades' = trades
    BY <1>4, NothingSold DEF Cleared
  <2>2. Book!Close(at.m)
    BY <1>1, <1>2, <1>3, <2>1 DEF Book!Close
  <2>. QED  BY <1>1, <2>2 DEF BookMoves, Book!Next
<1>5. CASE TradeRecorded
  <2>1. /\ Sold = {} /\ positions' = positions
        /\ positions[at.m] # None /\ positions[at.m].entry = at.p
        /\ trades' = [trades EXCEPT ![at.m] = [price |-> at.p, time |-> now]]
    BY <1>5, NothingSold DEF TradeRecorded, LocalsOK, book
  <2>2. Book!Log(at.m)
    BY <1>1, <1>2, <1>3, <2>1 DEF Book!Log
  <2>. QED  BY <1>1, <2>2 DEF BookMoves, Book!Next
<1>. QED  BY <1>4, <1>5

\* A crash keeps the records or loses them all, and a start brings them back.
LEMMA ProcessMoves ==
  ASSUME IInv, SavesSucceed, Crash \/ Restart
  PROVE  BookMoves
<1>1. CASE Crash
  <2>1. Up /\ ~Up' /\ Kept = positions /\ Kept' = Restored' /\ Sold' = {}
    BY <1>1 DEF Crash, Up, Kept, Sold
  <2>2. Restored' \in {Restored, NoPositions}
    BY <1>1 DEF Crash, Restored, NoPositions
  <2>3. Kept' \in {Kept, Book!NoStops}
    BY <2>1, <2>2, RestoredIsCurrent DEF NoPositions, Book!NoStops
  <2>4. /\ portfolio'.qty = Book!NoLots /\ UNCHANGED <<now, trades>>
        /\ holding' = [holding EXCEPT !["paper"] = Book!NoLots]
    BY <1>1 DEF Crash, NoPortfolio, NoLots, Book!NoLots, world
  <2>5. Book!Die
    BY <2>1, <2>3, <2>4 DEF Book!Die
  <2>. QED  BY <2>5 DEF BookMoves, Book!Next
<1>2. CASE Restart
  <2>1. ~Up /\ Up' /\ Kept = Restored /\ Kept' = positions' /\ Sold = {} /\ Sold' = {}
    BY <1>2 DEF Restart, Up, Kept, Sold
  <2>2. positions' = Restored /\ UNCHANGED <<portfolio, trades, holding, now>>
    BY <1>2 DEF Restart, Restored, world
  <2>3. Book!Boot
    BY <2>1, <2>2 DEF Book!Boot
  <2>. QED  BY <2>3 DEF BookMoves, Book!Next
<1>. QED  BY <1>1, <1>2

\* Commands and prices do not touch the book, and time only passes.
LEMMA OutsideMoves ==
  ASSUME IInv, CommandStep \/ TimePasses \/ PriceMoves \/ UNCHANGED vars
  PROVE  BookMoves
<1>1. UNCHANGED <<pc, at, portfolio, positions, snapshot, trades, holding>>
  BY DEF CommandStep, Pause, Resume, SwitchMode, Enable, Disable, SwitchStrategy,
         Serve, TimePasses, PriceMoves, vars, task, book
<1>2. Kept' = Kept /\ Up' = Up /\ Sold' = Sold
  BY <1>1 DEF Kept, Restored, Up, Sold
<1>3. now' \in Int /\ now' >= now
  BY TradingEngineAssumption
  DEF IInv, TypeOK, CommandStep, Pause, Resume, SwitchMode, Enable, Disable, SwitchStrategy,
      Serve, TimePasses, PriceMoves, vars, world
<1>4. Book!Wait
  BY <1>1, <1>2, <1>3 DEF Book!Wait
<1>. QED  BY <1>4 DEF BookMoves, Book!Next

\* Every step is a step of the abstract book, or leaves it alone.
LEMMA StepRefines ==
  ASSUME IInv, LocalsOK, SavesSucceed, [Next]_vars
  PROVE  BookMoves
BY EvaluationMoves, OrderMoves, TickMoves, RecordMoves, ProcessMoves, OutsideMoves
DEF Next, EngineStep

\* The engine, with its ticks, orders, retries, lost answers, commands, crashes and
\* restarts, implements the abstract book as long as it can write the snapshot
\* file.  A record is replaced only by a purchase of its market, in the step in
\* which it fills; it goes only after a confirmed sale of its market, or with all
\* others in a crash that loses the file; one comes without a purchase only for a
\* market the tick read as held, and then from the purchase logged last or made
\* up from the current price and hour; in every other step it stays as it is, or
\* its peak and its trailing stop rise and nothing else of it changes.
THEOREM StopsOnlyEverTighten ==
  ASSUME "save" \notin Faults
  PROVE  Spec => StopsOnlyTighten
<1>1. Init => Book!Init /\ LocalsOK
  <2>1. SUFFICES ASSUME Init PROVE Book!Init /\ LocalsOK
    OBVIOUS
  <2>2. Up = FALSE /\ Kept = snapshot /\ Sold = {} /\ now \in Int
    BY <2>1, InitInvariant, TradingEngineAssumption
    DEF Init, Up, Kept, Restored, Sold, NoPositions
  <2>3. LocalsOK
    BY <2>1 DEF Init, LocalsOK
  <2>. QED  BY <2>1, <2>2, <2>3 DEF Init, Book!Init, NoPositions, NoPortfolio, NoLots,
                              Book!NoLots, Book!NoStops
<1>2. IInv /\ LocalsOK /\ [Next]_vars => LocalsOK'
  BY LocalsStay
<1>3. IInv /\ LocalsOK /\ [Next]_vars => [Book!Next]_(Book!vars)
  BY StepRefines DEF SavesSucceed, BookMoves
<1>. QED  BY <1>1, <1>2, <1>3, Invariance, PTL DEF Spec, StopsOnlyTighten, Book!Spec

-----------------------------------------------------------------------------
(* One strategy: what a tick read at its start is still true of the markets *)
(* it has yet to visit.                                                     *)

\* s is the only strategy that is ever enabled, and nobody switches the mode: a
\* tick then visits every market once, and always in one account.
SoleStrategy(s) ==
  /\ "mode" \notin Commands
  /\ BootEnabled \subseteq {s}
  /\ ("enable" \in Commands \/ "switchstrategy" \in Commands) => Strategy = {s}

\* The awaits within the visit of a market.
Visits == {"fetch", "recover", "buying", "ordering", "record", "clear"}

\* What the portfolio pf says of m is what its account holds, or nothing.
ReadingHolds(pf, m) == pf.qty[m] \in {0, holding[pf.acct][m]}

\* Only s is visited, in the account of the current mode, and the reading holds of
\* the markets ahead.
VisitOK(s) ==
  /\ enabled \subseteq {s}
  /\ pc \in {"balance", "accounts", "ordering"} => mode = "live"
  /\ pc \in Visits =>
       /\ at.s = s
       /\ portfolio.acct = mode
       /\ \A m \in Market : m > at.m => ReadingHolds(portfolio, m)

\* Until its order is decided it holds of the market visited as well.
HereOK ==
  /\ pc \in {"fetch", "recover"} => ReadingHolds(portfolio, at.m)
  /\ pc = "recover" => Held(at.m)

\* A sell is for all that is held; once an attempt was made, all may be sold.
SellOK ==
  pc = "ordering" =>
    /\ order.acct = "live"
    /\ order.side = "sell" =>
         /\ order.qty > 0
         /\ holding["live"][at.m] = 0 => order.tries > 0
         /\ holding["live"][at.m] \in {0, order.qty}

\* After a sale nothing is left.
SoldOK == pc = "clear" => order.acct = mode /\ holding[mode][at.m] = 0

DownOK == pc = "down" => positions = NoPositions

SoleInv(s) == VisitOK(s) /\ HereOK /\ SellOK /\ SoldOK /\ DownOK

\* Going on to the next market of s or ending the tick, when the reading holds of
\* the markets ahead.
LEMMA SoleGoOn ==
  ASSUME TypeOK, NEW s \in Strategy, enabled \subseteq {s}, UNCHANGED config,
         NEW m \in Market, portfolio.acct = mode,
         \A n \in Market : n > m => portfolio.qty[n] \in {0, holding'[mode][n]},
         GoOn(s, m, portfolio)
  PROVE  SoleInv(s)'
<1>1. enabled' \subseteq {s} /\ mode' = mode /\ NMarket \in Nat \ {0} /\ m \in Int
  BY TradingEngineAssumption DEF config, Market
<1>2. CASE m < NMarket /\ Visit(s, m + 1, portfolio)
  <2>1. /\ pc' = "fetch" /\ at'.s = s /\ at'.m = m + 1 /\ portfolio' = portfolio
        /\ m + 1 \in Market
    BY <1>1, <1>2 DEF Visit, Market
  <2>2. \A n \in Market : n >= m + 1 => portfolio.qty[n] \in {0, holding'[mode][n]}
    BY <1>1 DEF Market
  <2>3. \A n \in Market : n >= m + 1 => ReadingHolds(portfolio, n)'
    BY <1>1, <2>1, <2>2 DEF ReadingHolds
  <2>4. VisitOK(s)'
    BY <1>1, <2>1, <2>3 DEF VisitOK, Visits, Market
  <2>5. HereOK'
    BY <1>1, <2>1, <2>3 DEF HereOK
  <2>. QED  BY <2>1, <2>4, <2>5 DEF SoleInv, SellOK, SoldOK, DownOK
<1>3. CASE pc' = "idle"
  BY <1>1, <1>3 DEF SoleInv, VisitOK, Visits, HereOK, SellOK, SoldOK, DownOK
<1>4. ~ \E t \in enabled : t > s
  BY DEF Strategy
<1>. QED  BY <1>2, <1>3, <1>4 DEF GoOn

\* Beginning a tick with the portfolio of the current account, or an empty one.
LEMMA SoleFirstVisit ==
  ASSUME TypeOK, NEW s \in Strategy, enabled \subseteq {s}, UNCHANGED <<config, holding>>,
         NEW lots \in Lots,
         \A n \in Market : lots[n] \in {0, holding[mode][n]},
         FirstVisit(mode, lots)
  PROVE  SoleInv(s)'
<1> DEFINE pf == [acct |-> mode, qty |-> lots]
<1>1. enabled' \subseteq {s} /\ mode' = mode /\ holding' = holding
      /\ NMarket \in Nat \ {0} /\ 1 \in Market
  BY TradingEngineAssumption DEF config, Market
<1>2. CASE \E t \in enabled : Visit(t, 1, pf)
  <2>1. Visit(s, 1, pf)
    BY <1>2
  <2>2. pc' = "fetch" /\ at'.s = s /\ at'.m = 1 /\ portfolio' = pf
    BY <2>1 DEF Visit
  <2>3. \A n \in Market : ReadingHolds(portfolio, n)'
    BY <1>1, <2>2 DEF ReadingHolds
  <2>. QED  BY <1>1, <2>2, <2>3 DEF SoleInv, VisitOK, Visits, HereOK, SellOK, SoldOK, DownOK
<1>3. CASE pc' = "idle"
  BY <1>1, <1>3 DEF SoleInv, VisitOK, Visits, HereOK, SellOK, SoldOK, DownOK
<1>. QED  BY <1>1, <1>2, <1>3 DEF FirstVisit, GoOn

\* The evaluation returns after a step that changed no holding ahead.
LEMMA SoleReturn ==
  ASSUME TypeOK, NEW s \in Strategy, SoleInv(s), UNCHANGED config, pc \in Visits,
         \A n \in Market : n > at.m => holding'[mode][n] = holding[mode][n],
         Return
  PROVE  SoleInv(s)'
<1>1. at.s = s /\ at.m \in Market /\ portfolio.acct = mode /\ enabled \subseteq {s}
  BY DEF TypeOK, Evaluation, SoleInv, VisitOK
<1>2. \A n \in Market : n > at.m => portfolio.qty[n] \in {0, holding'[mode][n]}
  BY <1>1 DEF SoleInv, VisitOK, ReadingHolds
<1>3. GoOn(s, at.m, portfolio)
  BY <1>1 DEF Return
<1>. QED  BY <1>1, <1>2, <1>3, SoleGoOn

\* Selling in the market visited sells what is held there.
LEMMA SoleSells ==
  ASSUME TypeOK, NEW s \in Strategy, SoleInv(s), UNCHANGED config,
         pc \in {"fetch", "recover"}, NEW e \in Evaluation, e.s = at.s, e.m = at.m,
         Held(e.m), NEW why, ExecuteSell(e, why)
  PROVE  SoleInv(s)'
<1>1. /\ at.s = s /\ e.m \in Market /\ portfolio.acct = mode /\ enabled \subseteq {s}
      /\ \A n \in Market : n > e.m => ReadingHolds(portfolio, n)
      /\ ReadingHolds(portfolio, e.m)
      /\ mode' = mode /\ enabled' = enabled
  BY DEF Evaluation, SoleInv, VisitOK, Visits, HereOK, config
<1>2. /\ portfolio.qty[e.m] \in Nat \ {0} /\ portfolio.qty[e.m] = holding[mode][e.m]
      /\ holding \in [Account -> Lots] /\ mode \in Account
  BY <1>1 DEF TypeOK, Portfolio, Lots, Held, ReadingHolds
<1>3. CASE GoOn(e.s, e.m, portfolio) /\ UNCHANGED <<order, holding>>
  BY <1>1, <1>3, SoleGoOn DEF ReadingHolds
<1>4. CASE mode = "live" /\ Send(e, "sell", portfolio.qty[e.m])
  <2>1. /\ pc' = "ordering" /\ at' = e /\ portfolio' = portfolio /\ holding' = holding
        /\ order' = [side |-> "sell", acct |-> "live", qty |-> portfolio.qty[e.m], tries |-> 0]
    BY <1>4 DEF Send
  <2>2. VisitOK(s)'
    BY <1>1, <1>4, <2>1 DEF VisitOK, Visits, ReadingHolds
  <2>3. SellOK'
    BY <1>2, <1>4, <2>1 DEF SellOK
  <2>. QED  BY <2>1, <2>2, <2>3 DEF SoleInv, HereOK, SoldOK, DownOK
<1>5. CASE mode = "paper" /\ PaperSell(e, portfolio.qty[e.m])
  <2>1. /\ holding' = [holding EXCEPT !["paper"][e.m] =
                         IF @ > portfolio.qty[e.m] THEN @ - portfolio.qty[e.m] ELSE 0]
        /\ pc' = "clear" /\ at' = e /\ order'.acct = "paper" /\ portfolio' = portfolio
    BY <1>2, <1>5 DEF PaperSell
  <2>2. /\ holding'["paper"][e.m] = 0
        /\ \A n \in Market : n # e.m => holding'["paper"][n] = holding["paper"][n]
    BY <1>1, <1>2, <1>5, <2>1 DEF Account, Lots
  <2>3. \A n \in Market : n > e.m => n # e.m
    BY <1>1 DEF Market
  <2>4. VisitOK(s)'
    BY <1>1, <1>5, <2>1, <2>2, <2>3 DEF VisitOK, Visits, ReadingHolds
  <2>5. SoldOK'
    BY <1>1, <1>5, <2>1, <2>2 DEF SoldOK
  <2>. QED  BY <2>1, <2>4, <2>5 DEF SoleInv, HereOK, SellOK, DownOK
<1>. QED  BY <1>3, <1>4, <1>5 DEF ExecuteSell

\* A signal leads on, or to the messages of a purchase.
LEMMA SoleSignal ==
  ASSUME TypeOK, NEW s \in Strategy, SoleInv(s), UNCHANGED config,
         pc \in {"fetch", "recover"}, NEW e \in Evaluation, e.s = at.s, e.m = at.m,
         Signal(e)
  PROVE  SoleInv(s)'
<1>1. /\ at.s = s /\ e.m \in Market /\ portfolio.acct = mode /\ enabled \subseteq {s}
      /\ \A n \in Market : n > e.m => ReadingHolds(portfolio, n)
      /\ mode' = mode /\ enabled' = enabled /\ holding' = holding
  BY DEF Evaluation, SoleInv, VisitOK, Visits, config, Signal
<1>2. CASE GoOn(e.s, e.m, portfolio)
  BY <1>1, <1>2, SoleGoOn DEF ReadingHolds
<1>3. CASE pc' = "buying" /\ at' = e /\ UNCHANGED portfolio
  BY <1>1, <1>3 DEF SoleInv, VisitOK, Visits, ReadingHolds, HereOK, SellOK, SoldOK, DownOK
<1>. QED  BY <1>2, <1>3 DEF Signal

LEMMA SoleSellCheck ==
  ASSUME TypeOK, NEW s \in Strategy, SoleInv(s), UNCHANGED config,
         pc \in {"fetch", "recover"}, NEW e \in Evaluation, e.s = at.s, e.m = at.m,
         Held(e.m), NEW pos, SellCheck(e, pos)
  PROVE  SoleInv(s)'
<1>1. (\E why : ExecuteSell(e, why)) \/ Signal(e)
  BY DEF SellCheck
<1>. QED  BY <1>1, SoleSells, SoleSignal

\* A tick starts and reads its portfolio, from one account.
LEMMA SolePortfolio ==
  ASSUME TypeOK, NEW s \in Strategy, SoleInv(s),
         StartTick \/ BalanceRead \/ AccountsRead \/ PortfolioFails
  PROVE  SoleInv(s)'
<1>1. /\ enabled \subseteq {s} /\ UNCHANGED <<config, holding, order, positions>>
      /\ pc \in {"balance", "accounts"} => mode = "live"
  BY DEF SoleInv, VisitOK, StartTick, BalanceRead, AccountsRead, PortfolioFails, book
<1>2. /\ holding["paper"] \in Lots /\ holding["live"] \in Lots /\ NoLots \in Lots
      /\ \A n \in Market : NoLots[n] = 0
  BY DEF TypeOK, Account, Lots, NoLots
<1>3. ASSUME mode = "live", pc' \in {"balance", "accounts"}
      PROVE  SoleInv(s)'
  BY <1>1, <1>3 DEF SoleInv, VisitOK, Visits, HereOK, SellOK, SoldOK, DownOK, config
<1>4. ASSUME FirstVisit(mode, holding[mode]), mode \in {"paper", "live"}
      PROVE  SoleInv(s)'
  BY <1>1, <1>2, <1>4, SoleFirstVisit
<1>5. CASE StartTick
  BY <1>3, <1>4, <1>5 DEF StartTick
<1>6. CASE BalanceRead
  BY <1>1, <1>6 DEF BalanceRead, SoleInv, VisitOK, Visits, HereOK, SellOK, SoldOK, DownOK, config
<1>7. CASE AccountsRead
  BY <1>1, <1>4, <1>7 DEF AccountsRead
<1>8. CASE PortfolioFails
  <2>1. FirstVisit(mode, NoLots)
    BY <1>1, <1>8 DEF PortfolioFails
  <2>. QED  BY <1>1, <1>2, <2>1, SoleFirstVisit
<1>. QED  BY <1>5, <1>6, <1>7, <1>8

\* A purchase changes only the market visited.
LEMMA SoleBought ==
  ASSUME TypeOK, NEW s \in Strategy, SoleInv(s), UNCHANGED config,
         pc \in {"buying", "ordering"},
         \A n \in Market : n > at.m => holding'[mode][n] = holding[mode][n],
         NEW fill, Bought(fill)
  PROVE  SoleInv(s)'
<1>1. /\ at.s = s /\ at.m \in Market /\ portfolio.acct = mode /\ enabled \subseteq {s}
      /\ \A n \in Market : n > at.m => ReadingHolds(portfolio, n)
      /\ mode' = mode /\ enabled' = enabled
  BY DEF TypeOK, Evaluation, SoleInv, VisitOK, Visits, config
<1>2. pc' = "record" /\ at'.s = at.s /\ at'.m = at.m /\ portfolio' = portfolio
  BY DEF Bought, TypeOK, Evaluation
<1>. QED  BY <1>1, <1>2 DEF SoleInv, VisitOK, Visits, ReadingHolds, HereOK, SellOK,
                            SoldOK, DownOK

\* An executed order leaves the other markets alone; a sell leaves nothing.
LEMMA SoleFills ==
  ASSUME TypeOK, NEW s \in Strategy, SoleInv(s), pc = "ordering", ExchangeFills
  PROVE  /\ mode = "live"
         /\ \A n \in Market : n > at.m => holding'[mode][n] = holding[mode][n]
         /\ order.side = "sell" => holding'["live"][at.m] = 0
<1>1. /\ mode = "live" /\ at.m \in Market /\ holding \in [Account -> Lots]
      /\ order.qty \in Nat /\ holding["live"][at.m] \in Nat
  BY DEF SoleInv, VisitOK, TypeOK, Evaluation, Order, Account, Lots
<1>2. holding'["live"] =
        [holding["live"] EXCEPT ![at.m] = IF order.side = "buy" THEN @ + order.qty
                                                                 ELSE @ - order.qty]
  BY <1>1 DEF ExchangeFills, Account
<1>3. \A n \in Market : n > at.m => n # at.m
  BY <1>1 DEF Market
<1>4. \A n \in Market : n > at.m => holding'["live"][n] = holding["live"][n]
  BY <1>1, <1>2, <1>3 DEF Account, Lots
<1>5. order.side = "sell" => holding'["live"][at.m] = 0
  BY <1>1, <1>2 DEF SoleInv, SellOK, ExchangeFills, Fillable, Account, Lots
<1>. QED  BY <1>1, <1>4, <1>5

\* The attempt that failed is repeated, after a sale that was executed or not.
LEMMA SoleRetry ==
  ASSUME TypeOK, NEW s \in Strategy, SoleInv(s), UNCHANGED config, pc = "ordering",
         \A n \in Market : n > at.m => holding'[mode][n] = holding[mode][n],
         order.side = "sell" => holding'["live"][at.m] \in {0, order.qty},
         UNCHANGED positions, Retry
  PROVE  SoleInv(s)'
<1>1. CASE Return
  BY <1>1, SoleReturn DEF Visits
<1>2. CASE order' = [order EXCEPT !.tries = @ + 1] /\ UNCHANGED <<pc, at, portfolio>>
  <2>1. /\ order.tries + 1 > 0
        /\ order'.side = order.side /\ order'.acct = order.acct /\ order'.qty = order.qty
        /\ order'.tries = order.tries + 1
    BY <1>2 DEF TypeOK, Order
  <2>2. SellOK'
    BY <1>2, <2>1 DEF SoleInv, SellOK
  <2>3. VisitOK(s)'
    <3>1. /\ portfolio.acct = mode /\ mode' = mode /\ enabled' = enabled
      BY DEF SoleInv, VisitOK, Visits, config
    <3>. QED  BY <1>2, <3>1 DEF SoleInv, VisitOK, Visits, ReadingHolds
  <2>. QED  BY <1>2, <2>2, <2>3 DEF SoleInv, HereOK, SoldOK, DownOK
<1>. QED  BY <1>1, <1>2 DEF Retry

LEMMA SoleOrders ==
  ASSUME TypeOK, NEW s \in Strategy, SoleInv(s),
         BuySent \/ PaperBuy \/ OrderFilled \/ RequestLost \/ ReplyLost
  PROVE  SoleInv(s)'
<1>1. /\ UNCHANGED config /\ mode' = mode /\ enabled' = enabled /\ enabled \subseteq {s}
      /\ pc \in {"buying", "ordering"}
      /\ at.s = s /\ at.m \in Market /\ portfolio.acct = mode
      /\ holding \in [Account -> Lots]
      /\ \A n \in Market : n > at.m => ReadingHolds(portfolio, n)
      /\ \A n \in Market : n > at.m => n # at.m
  BY DEF SoleInv, VisitOK, Visits, config, TypeOK, Evaluation, Market,
         BuySent, PaperBuy, OrderFilled, RequestLost, ReplyLost
<1>2. CASE BuySent
  <2>1. /\ mode = "live" /\ pc' = "ordering" /\ at' = at /\ UNCHANGED <<portfolio, holding>>
        /\ order'.side = "buy" /\ order'.acct = "live"
    BY <1>2 DEF BuySent, Send
  <2>. QED  BY <1>1, <2>1 DEF SoleInv, VisitOK, Visits, ReadingHolds, HereOK, SellOK,
                              SoldOK, DownOK
<1>3. CASE PaperBuy
  <2>1. \A n \in Market : n > at.m => holding'[mode][n] = holding[mode][n]
    BY <1>1, <1>3 DEF PaperBuy, Account, Lots
  <2>2. \E fill : Bought(fill)
    BY <1>3 DEF PaperBuy
  <2>. QED  BY <1>1, <2>1, <2>2, SoleBought
<1>4. CASE OrderFilled
  <2>1. /\ mode = "live" /\ pc = "ordering"
        /\ \A n \in Market : n > at.m => holding'[mode][n] = holding[mode][n]
        /\ order.side = "sell" => holding'["live"][at.m] = 0
    BY <1>4, SoleFills DEF OrderFilled
  <2>2. CASE \E fill : Bought(fill)
    BY <1>1, <2>1, <2>2, SoleBought
  <2>3. CASE order.side = "sell" /\ pc' = "clear" /\ UNCHANGED <<at, portfolio, order>>
    <3>1. order.acct = "live"
      BY <2>1 DEF SoleInv, SellOK
    <3>. QED  BY <1>1, <2>1, <2>3, <3>1 DEF SoleInv, VisitOK, Visits, ReadingHolds, HereOK,
                                            SellOK, SoldOK, DownOK
  <2>. QED  BY <1>4, <2>2, <2>3 DEF OrderFilled
<1>5. CASE RequestLost
  <2>1. pc = "ordering" /\ UNCHANGED <<positions, holding>> /\ Retry
    BY <1>5 DEF RequestLost, book
  <2>. QED  BY <1>1, <2>1, SoleRetry DEF SoleInv, SellOK
<1>6. CASE ReplyLost
  <2>1. pc = "ordering" /\ UNCHANGED positions /\ Retry
    BY <1>6 DEF ReplyLost, book
  <2>2. /\ \A n \in Market : n > at.m => holding'[mode][n] = holding[mode][n]
        /\ order.side = "sell" => holding'["live"][at.m] \in {0, order.qty}
    BY <1>6, <2>1, SoleFills DEF ReplyLost
  <2>. QED  BY <1>1, <2>1, <2>2, SoleRetry
<1>. QED  BY <1>2, <1>3, <1>4, <1>5, <1>6

\* The evaluation, from the candles on.
LEMMA SoleEvaluation ==
  ASSUME TypeOK, NEW s \in Strategy, SoleInv(s), Fetched \/ RecoveredFromDb \/ FellBack
  PROVE  SoleInv(s)'
<1>1. UNCHANGED config /\ pc \in {"fetch", "recover"} /\ at \in Evaluation
  BY DEF Fetched, RecoveredFromDb, FellBack, TypeOK
<1>2. CASE Fetched
  <2>1. PICK a \in Atrs :
          LET e == [at EXCEPT !.p = price[at.m], !.a = a] IN
          \/ /\ Held(e.m) /\ positions[e.m] # None
             /\ SellCheck(e, positions[e.m])
          \/ /\ Held(e.m) /\ positions[e.m] = None
             /\ pc' = "recover" /\ at' = e
             /\ UNCHANGED <<portfolio, order, book, holding>>
          \/ /\ ~Held(e.m)
             /\ Signal(e)
             /\ UNCHANGED book
    BY <1>2 DEF Fetched
  <2> DEFINE e == [at EXCEPT !.p = price[at.m], !.a = a]
  <2>2. e \in Evaluation /\ e.s = at.s /\ e.m = at.m
    <3>1. a \in Nat /\ price[at.m] \in Nat
      BY <1>1, TradingEngineAssumption DEF TypeOK, Evaluation
    <3>. QED  BY <1>1, <3>1 DEF Evaluation
  <2> HIDE DEF e
  <2>3. CASE Held(e.m) /\ SellCheck(e, positions[e.m])
    BY <1>1, <2>2, <2>3, SoleSellCheck
  <2>4. CASE Held(e.m) /\ pc' = "recover" /\ at' = e /\ UNCHANGED <<portfolio, holding>>
    <3>1. /\ at.s = s /\ portfolio.acct = mode /\ enabled \subseteq {s}
          /\ \A n \in Market : n > at.m => ReadingHolds(portfolio, n)
          /\ ReadingHolds(portfolio, at.m)
          /\ mode' = mode /\ enabled' = enabled
      BY <1>1 DEF SoleInv, VisitOK, Visits, HereOK, config
    <3>. QED  BY <2>2, <2>4, <3>1 DEF SoleInv, VisitOK, Visits, ReadingHolds, HereOK, Held,
                                      SellOK, SoldOK, DownOK
  <2>5. CASE Signal(e)
    BY <1>1, <2>2, <2>5, SoleSignal
  <2>. QED  BY <2>1, <2>3, <2>4, <2>5 DEF e
<1>3. CASE RecoveredFromDb \/ FellBack
  <2>1. Held(at.m) /\ \E pos : SellCheck(at, pos)
    BY <1>3 DEF RecoveredFromDb, FellBack, SoleInv, HereOK
  <2>. QED  BY <1>1, <2>1, SoleSellCheck
<1>. QED  BY <1>2, <1>3

\* Everything else the engine, the process, the chat or the world does.
LEMMA SoleOthers ==
  ASSUME TypeOK, NEW s \in Strategy, SoleStrategy(s), SoleInv(s),
         \/ FetchFails \/ BuyRefused \/ Cleared \/ TradeRecorded \/ RecordingFails
         \/ Crash \/ Restart \/ CommandStep \/ TimePasses \/ PriceMoves
         \/ UNCHANGED vars
  PROVE  SoleInv(s)'
<1>1. CASE FetchFails \/ BuyRefused \/ Cleared \/ TradeRecorded \/ RecordingFails
  <2>1. UNCHANGED <<config, holding>> /\ pc \in Visits /\ Return
    BY <1>1 DEF FetchFails, BuyRefused, Cleared, TradeRecorded, RecordingFails, Visits
  <2>. QED  BY <2>1, SoleReturn
<1>2. CASE Crash
  BY <1>2 DEF Crash, config, SoleInv, VisitOK, Visits, HereOK, SellOK, SoldOK, DownOK
<1>3. CASE Restart
  <2>1. pc' = "idle" /\ enabled' \subseteq {s}
    BY <1>3 DEF Restart, SoleStrategy
  <2>. QED  BY <2>1 DEF SoleInv, VisitOK, Visits, HereOK, SellOK, SoldOK, DownOK
<1>4. CASE CommandStep \/ TimePasses \/ PriceMoves \/ UNCHANGED vars
  <2>1. UNCHANGED <<pc, at, portfolio, order, positions, holding>>
    BY <1>4 DEF CommandStep, Pause, Resume, SwitchMode, Enable, Disable, SwitchStrategy,
                Serve, TimePasses, PriceMoves, vars, task, book
  <2>2. mode' = mode
    BY <1>4 DEF SoleStrategy, CommandStep, Pause, Resume, SwitchMode, Enable, Disable,
                SwitchStrategy, Serve, TimePasses, PriceMoves, vars, config
  <2>3. enabled' \subseteq {s}
    <3>1. CASE UNCHANGED enabled
      BY <3>1 DEF SoleInv, VisitOK
    <3>2. CASE \E t \in Strategy : Enable(t) \/ SwitchStrategy(t)
      BY <3>2 DEF SoleStrategy, SoleInv, VisitOK, Enable, SwitchStrategy, Serve
    <3>3. CASE \E t \in Strategy : Disable(t)
      BY <3>3 DEF SoleInv, VisitOK, Disable
    <3>. QED  BY <1>4, <3>1, <3>2, <3>3
         DEF CommandStep, Pause, Resume, SwitchMode, TimePasses, PriceMoves, vars, config
  <2>. QED  BY <2>1, <2>2, <2>3 DEF SoleInv, VisitOK, ReadingHolds, HereOK, Held, SellOK,
                                    SoldOK, DownOK
<1>. QED  BY <1>1, <1>2, <1>3, <1>4

LEMMA SoleInvariance ==
  ASSUME NEW s \in Strategy, SoleStrategy(s)
  PROVE  Spec => []SoleInv(s)
<1>1. Init => SoleInv(s)
  BY DEF Init, SoleStrategy, SoleInv, VisitOK, Visits, HereOK, SellOK, SoldOK, DownOK
<1>2. ASSUME TypeOK, SoleInv(s), [Next]_vars
      PROVE  SoleInv(s)'
  BY <1>2, SolePortfolio, SoleEvaluation, SoleOrders, SoleOthers DEF Next, EngineStep
<1>. QED  BY <1>1, <1>2, TypeCorrect, PTL DEF Spec

\* With one strategy and no switch of the mode a sell is covered by the account when
\* it is sent, though its quantity was read at the start of the tick
\* (_execute_sell, trading_engine.py:614): whatever fails, and however often the
\* process crashes.
THEOREM SellsAreCovered ==
  ASSUME NEW s \in Strategy, SoleStrategy(s)
  PROVE  Spec => []SellCovered
<1>1. TypeOK /\ SoleInv(s) => SellCovered
  BY DEF TypeOK, Order, SoleInv, SellOK, SellCovered
<1>. QED  BY <1>1, SoleInvariance, TypeCorrect, PTL

\* The record of a sold market is dropped in one place only.
LEMMA OnlyClearedDrops ==
  ASSUME IInv, [Next]_vars, Up, pc' # "down", NEW m \in Market,
         positions[m] # None, positions'[m] = None
  PROVE  Cleared
<1>1. positions \in Records /\ None \notin Position /\ TypeOK /\ at \in Evaluation
  BY TradingEngineAssumption DEF IInv, TypeOK
<1>2. positions' # positions
  OBVIOUS
<1>3. ASSUME NEW e \in Evaluation, NEW pos \in Position, BelowPeak(pos), SellCheck(e, pos)
      PROVE  FALSE
  <2>1. /\ positions' = [positions EXCEPT ![e.m] = Refreshed(e.s, pos, e.p, e.a, now)]
        /\ Refreshed(e.s, pos, e.p, e.a, now) \in Position
    BY <1>1, <1>3, SellCheckType, RefreshedTightens DEF TypeOK, Evaluation, Tightens
  <2>. QED  BY <1>1, <2>1 DEF Records
<1>4. ASSUME NEW fill \in Nat, Bought(fill)
      PROVE  FALSE
  <2>1. /\ positions' = [positions EXCEPT ![at.m] = NewPosition(at.s, fill, at.a, now)]
        /\ NewPosition(at.s, fill, at.a, now) \in Position
    BY <1>1, <1>4, BoughtType, NewPositionSound DEF TypeOK, Evaluation
  <2>. QED  BY <1>1, <2>1 DEF Records
<1>5. ~Fetched
  <2>1. SUFFICES ASSUME Fetched PROVE FALSE
    OBVIOUS
  <2>2. PICK a \in Atrs :
          LET e == [at EXCEPT !.p = price[at.m], !.a = a] IN
          positions[e.m] # None /\ SellCheck(e, positions[e.m])
    BY <1>2, <2>1 DEF Fetched, book
  <2> DEFINE e == [at EXCEPT !.p = price[at.m], !.a = a]
  <2>3. e \in Evaluation
    <3>1. a \in Nat /\ price[at.m] \in Nat
      BY <1>1, TradingEngineAssumption DEF TypeOK, Evaluation
    <3>. QED  BY <1>1, <3>1 DEF Evaluation
  <2> HIDE DEF e
  <2>4. positions[e.m] # None /\ SellCheck(e, positions[e.m])
    BY <2>2 DEF e
  <2>5. positions[e.m] \in Position /\ BelowPeak(positions[e.m])
    BY <1>1, <2>3, <2>4 DEF Records, Evaluation, IInv, StopsBelowPeak
  <2>. QED  BY <1>3, <2>3, <2>4, <2>5
<1>6. ~RecoveredFromDb
  <2>1. SUFFICES ASSUME RecoveredFromDb PROVE FALSE
    OBVIOUS
  <2>2. DbPosition(at.s, trades[at.m], at.a) \in Position
        /\ BelowPeak(DbPosition(at.s, trades[at.m], at.a))
    <3>1. trades[at.m] \in Trade
      BY <1>1, <2>1 DEF TypeOK, Evaluation, RecoveredFromDb
    <3>. QED  BY <1>1, <3>1, DbPositionSound DEF Evaluation
  <2>. QED  BY <1>1, <1>3, <2>1, <2>2 DEF RecoveredFromDb
<1>7. ~FellBack
  <2>1. SUFFICES ASSUME FellBack PROVE FALSE
    OBVIOUS
  <2>2. FallbackPosition(at.s, at.p, at.a, now) \in Position
        /\ BelowPeak(FallbackPosition(at.s, at.p, at.a, now))
    BY <1>1, FallbackPositionSound DEF TypeOK, Evaluation
  <2>. QED  BY <1>1, <1>3, <2>1, <2>2 DEF FellBack
<1>8. ~PaperBuy /\ ~OrderFilled
  <2>1. at.p + Slip \in Nat /\ price[at.m] \in Nat /\ OddFills \subseteq Nat
    BY <1>1, TradingEngineAssumption DEF TypeOK, Evaluation
  <2>. QED  BY <1>2, <1>4, <2>1 DEF PaperBuy, OrderFilled, book
<1>. QED  BY <1>2, <1>5, <1>6, <1>7, <1>8
     DEF Next, EngineStep, CommandStep, Up, vars, book,
         StartTick, BalanceRead, AccountsRead, PortfolioFails, FetchFails, BuyRefused, BuySent,
         RequestLost, ReplyLost, TradeRecorded, RecordingFails, Crash, Restart, Pause, Resume,
         SwitchMode, Enable, Disable, SwitchStrategy, Serve, TimePasses, PriceMoves

\* With one strategy and no switch of the mode nothing is left of a market whose
\* record is dropped after a sale (_evaluate, trading_engine.py:447): all of it was
\* sold, in one order or in a repeated one.
THEOREM NothingIsLeftUnwatched ==
  ASSUME NEW s \in Strategy, SoleStrategy(s)
  PROVE  Spec => NothingLeftUnwatched
<1>1. ASSUME IInv, SoleInv(s), [Next]_vars, NEW m \in Market,
             positions[m] # None, positions'[m] = None, pc' # "down"
      PROVE  holding[order.acct][m] = 0
  <2>1. Up
    BY <1>1 DEF Up, SoleInv, DownOK, NoPositions
  <2>2. Cleared
    BY <1>1, <2>1, OnlyClearedDrops
  <2>3. m = at.m
    BY <1>1, <2>2 DEF Cleared, IInv, TypeOK, Records, Evaluation
  <2>. QED  BY <1>1, <2>2, <2>3 DEF Cleared, SoleInv, SoldOK
<1>2. IInv /\ SoleInv(s) /\ [Next]_vars =>
        [\A m \in Market : positions[m] # None /\ positions'[m] = None /\ pc' # "down"
           => holding[order.acct][m] = 0]_vars
  BY <1>1
<1>. QED  BY <1>2, SoleInvariance, Invariance, PTL DEF Spec, NothingLeftUnwatched

\* A record is opened where an orphan is recovered, or where a purchase fills.
LEMMA OnlyTheseOpen ==
  ASSUME IInv, LocalsOK, [Next]_vars, Up, NEW m \in Market,
         positions[m] = None, positions'[m] # None
  PROVE  /\ m = at.m
         /\ RecoveredFromDb \/ FellBack \/ Book!Buys(at.m)
<1>1. /\ positions \in Records /\ TypeOK /\ at \in Evaluation /\ at.m \in Market
      /\ at.p \in Nat /\ at.a \in Nat /\ price[at.m] \in Nat
      /\ at.s \in Strategy /\ now \in Int
  BY DEF IInv, TypeOK, Evaluation
<1>2. positions' # positions
  OBVIOUS
<1>3. ASSUME NEW n \in Market, NEW r, positions' = [positions EXCEPT ![n] = r]
      PROVE  m = n
  BY <1>1, <1>3 DEF Records
<1>4. ~Fetched
  <2>1. SUFFICES ASSUME Fetched PROVE FALSE
    OBVIOUS
  <2>2. PICK a \in Atrs :
          LET e == [at EXCEPT !.p = price[at.m], !.a = a] IN
          positions[e.m] # None /\ SellCheck(e, positions[e.m])
    BY <1>2, <2>1 DEF Fetched, book
  <2> DEFINE e == [at EXCEPT !.p = price[at.m], !.a = a]
  <2>3. e.m \in Market
    BY <1>1 DEF Evaluation
  <2> HIDE DEF e
  <2>4. positions[e.m] # None /\ SellCheck(e, positions[e.m])
    BY <2>2 DEF e
  <2>5. m = e.m
    BY <1>3, <2>3, <2>4 DEF SellCheck
  <2>. QED  BY <2>4, <2>5
<1>5. CASE RecoveredFromDb \/ FellBack
  <2>1. \E r : positions' = [positions EXCEPT ![at.m] = r]
    BY <1>5 DEF RecoveredFromDb, FellBack, SellCheck
  <2>. QED  BY <1>1, <1>3, <1>5, <2>1
<1>6. CASE PaperBuy \/ OrderFilled
  <2>1. \E r : positions' = [positions EXCEPT ![at.m] = r]
    BY <1>2, <1>6 DEF PaperBuy, OrderFilled, Bought, book
  <2>2. OrderFilled => order.side = "buy" /\ pc = "ordering" /\ ExchangeFills
    BY <1>2 DEF OrderFilled, book
  <2>. QED  BY <1>1, <1>3, <1>6, <2>1, <2>2, PaperTrades, ExchangeTrades
<1>7. ~Cleared
  BY <1>1, <1>3 DEF Cleared, Records
<1>8. ~Crash
  BY DEF Crash, NoPositions
<1>. QED  BY <1>2, <1>4, <1>5, <1>6, <1>7, <1>8
     DEF Next, EngineStep, CommandStep, Up, vars, book,
         StartTick, BalanceRead, AccountsRead, PortfolioFails, FetchFails, BuyRefused, BuySent,
         RequestLost, ReplyLost, TradeRecorded, RecordingFails, Restart, Pause, Resume,
         SwitchMode, Enable, Disable, SwitchStrategy, Serve, TimePasses, PriceMoves

\* With one strategy and no switch of the mode a record is opened only for what is
\* held at that moment in the account the tick read (_recover_orphan_position,
\* trading_engine.py:365), however old the reading, or by a purchase as it fills.
THEOREM RecordsAreOfWhatIsHeld ==
  ASSUME NEW s \in Strategy, SoleStrategy(s)
  PROVE  Spec => RecordsAreOfHoldings
<1>1. ASSUME IInv, LocalsOK, SoleInv(s), [Next]_vars, Up, NEW m \in Market,
             positions[m] = None, positions'[m] # None
      PROVE  \/ holding[portfolio.acct][m] > 0
             \/ \E c \in Account : holding'[c][m] > holding[c][m]
  <2>1. m = at.m /\ (RecoveredFromDb \/ FellBack \/ Book!Buys(at.m))
    BY <1>1, OnlyTheseOpen
  <2>2. CASE RecoveredFromDb \/ FellBack
    <3>1. Held(at.m) /\ ReadingHolds(portfolio, at.m)
      BY <1>1, <2>2 DEF RecoveredFromDb, FellBack, SoleInv, HereOK
    <3>. QED  BY <2>1, <3>1 DEF Held, ReadingHolds
  <2>3. CASE Book!Buys(at.m)
    BY <2>1, <2>3 DEF Book!Buys
  <2>. QED  BY <2>1, <2>2, <2>3
<1>2. IInv /\ LocalsOK /\ SoleInv(s) /\ [Next]_vars =>
        [\A m \in Market : Up /\ positions[m] = None /\ positions'[m] # None
           => \/ holding[portfolio.acct][m] > 0
              \/ \E c \in Account : holding'[c][m] > holding[c][m]]_vars
  BY <1>1
<1>3. Init => LocalsOK
  BY DEF Init, LocalsOK
<1>4. IInv /\ LocalsOK /\ [Next]_vars => LocalsOK'
  BY LocalsStay
<1>. QED  BY <1>2, <1>3, <1>4, SoleInvariance, Invariance, PTL DEF Spec, RecordsAreOfHoldings

-----------------------------------------------------------------------------
(* The records and the holdings, where no answer and no process is lost.    *)

\* No sale or purchase happens that the engine does not hear of.
NothingUnheard == "reply" \notin Faults /\ "crash" \notin Faults

\* While the process is up a market has a record exactly when it is held, but for
\* the one just sold, whose record goes with the next step.
Balanced(m) == positions[m] # None <=> holding[mode][m] > 0 \/ (pc = "clear" /\ m = at.m)

BooksOK ==
  /\ Up => \A m \in Market : Balanced(m)
  /\ pc = "ordering" => order.qty > 0
  /\ pc = "down" => snapshot = NoPositions /\ holding = [c \in Account |-> NoLots]

\* Where nothing is sold, bought or recorded the balance is kept.
LEMMA BalanceStays ==
  ASSUME BooksOK, Up, pc # "clear", pc' \notin {"clear", "down"},
         UNCHANGED <<positions, mode, holding>>,
         pc' = "ordering" => order'.qty > 0
  PROVE  BooksOK'
BY DEF BooksOK, Balanced, Up

\* The record of a held market is written, and the market perhaps sold.
LEMMA BalanceSellCheck ==
  ASSUME TypeOK, NEW s \in Strategy, SoleInv(s), BooksOK, UNCHANGED config,
         pc \in {"fetch", "recover"}, NEW e \in Evaluation, e.m = at.m, Held(e.m),
         NEW pos \in Position, BelowPeak(pos), SellCheck(e, pos)
  PROVE  BooksOK'
<1> DEFINE new == Refreshed(e.s, pos, e.p, e.a, now)
<1>1. /\ e.s \in Strategy /\ e.m \in Market /\ e.p \in Nat /\ e.a \in Nat /\ now \in Int
      /\ positions \in Records /\ None \notin Position /\ mode' = mode /\ mode \in Account
      /\ holding \in [Account -> Lots] /\ Up
  BY TradingEngineAssumption DEF TypeOK, Evaluation, config, Up
<1>2. positions' = [positions EXCEPT ![e.m] = new] /\ new \in Position
  BY <1>1, SellCheckType, RefreshedTightens DEF Tightens
<1> HIDE DEF new
<1>3. /\ positions'[e.m] # None
      /\ \A m \in Market : m # e.m => positions'[m] = positions[m]
  BY <1>1, <1>2 DEF Records
<1>4. /\ portfolio.qty[e.m] \in Nat \ {0} /\ portfolio.qty[e.m] = holding[mode][e.m]
      /\ portfolio.acct = mode
  BY <1>1 DEF SoleInv, VisitOK, Visits, HereOK, ReadingHolds, Held, TypeOK, Portfolio, Lots
<1>5. ASSUME pc' \notin {"clear", "down"}, holding' = holding,
             pc' = "ordering" => order'.qty > 0
      PROVE  BooksOK'
  BY <1>1, <1>3, <1>4, <1>5 DEF BooksOK, Balanced
<1>6. CASE Signal(e)
  BY <1>5, <1>6, GoOnControls DEF Signal
<1>7. ASSUME NEW why, ExecuteSell(e, why)
      PROVE  BooksOK'
  <2>1. CASE GoOn(e.s, e.m, portfolio) /\ UNCHANGED <<order, holding>>
    BY <1>5, <2>1, GoOnControls
  <2>2. CASE Send(e, "sell", portfolio.qty[e.m])
    BY <1>4, <1>5, <2>2 DEF Send
  <2>3. CASE mode = "paper" /\ PaperSell(e, portfolio.qty[e.m])
    <3>1. /\ holding' = [holding EXCEPT !["paper"][e.m] =
                           IF @ > portfolio.qty[e.m] THEN @ - portfolio.qty[e.m] ELSE 0]
          /\ pc' = "clear" /\ at' = e
      BY <1>4, <2>3 DEF PaperSell
    <3>2. \A m \in Market : m # e.m => holding'["paper"][m] = holding["paper"][m]
      BY <1>1, <3>1 DEF Account, Lots
    <3>. QED  BY <1>1, <1>3, <2>3, <3>1, <3>2 DEF BooksOK, Balanced
  <2>. QED  BY <1>7, <2>1, <2>2, <2>3 DEF ExecuteSell
<1>. QED  BY <1>6, <1>7 DEF SellCheck

\* What is bought gets a record.
LEMMA BalanceBought ==
  ASSUME TypeOK, BooksOK, UNCHANGED config, pc \in {"buying", "ordering"},
         NEW fill \in Nat, Bought(fill), holding'[mode][at.m] > 0,
         \A m \in Market : m # at.m => holding'[mode][m] = holding[mode][m]
  PROVE  BooksOK'
<1>1. /\ at \in Evaluation /\ at.s \in Strategy /\ at.m \in Market /\ at.a \in Nat
      /\ now \in Int /\ positions \in Records /\ None \notin Position /\ Up
      /\ mode' = mode
  BY TradingEngineAssumption DEF TypeOK, Evaluation, Up, config
<1>2. /\ positions' = [positions EXCEPT ![at.m] = NewPosition(at.s, fill, at.a, now)]
      /\ NewPosition(at.s, fill, at.a, now) \in Position
  BY <1>1, BoughtType, NewPositionSound
<1>3. /\ positions'[at.m] # None
      /\ \A m \in Market : m # at.m => positions'[m] = positions[m]
  BY <1>1, <1>2 DEF Records
<1>4. pc' = "record"
  BY DEF Bought
<1>. QED  BY <1>1, <1>3, <1>4 DEF BooksOK, Balanced

LEMMA BalanceEvaluation ==
  ASSUME IInv, NEW s \in Strategy, SoleInv(s), BooksOK,
         Fetched \/ RecoveredFromDb \/ FellBack
  PROVE  BooksOK'
<1>1. /\ UNCHANGED config /\ pc \in {"fetch", "recover"} /\ at \in Evaluation /\ TypeOK
      /\ mode' = mode /\ Up
  BY DEF Fetched, RecoveredFromDb, FellBack, IInv, TypeOK, Up, config
<1>2. CASE Fetched
  <2>1. PICK a \in Atrs :
          LET e == [at EXCEPT !.p = price[at.m], !.a = a] IN
          \/ /\ Held(e.m) /\ positions[e.m] # None
             /\ SellCheck(e, positions[e.m])
          \/ /\ Held(e.m) /\ positions[e.m] = None
             /\ pc' = "recover" /\ at' = e
             /\ UNCHANGED <<portfolio, order, book, holding>>
          \/ /\ ~Held(e.m)
             /\ Signal(e)
             /\ UNCHANGED book
    BY <1>2 DEF Fetched
  <2> DEFINE e == [at EXCEPT !.p = price[at.m], !.a = a]
  <2>2. e \in Evaluation /\ e.m = at.m
    <3>1. a \in Nat /\ price[at.m] \in Nat
      BY <1>1, TradingEngineAssumption DEF TypeOK, Evaluation
    <3>. QED  BY <1>1, <3>1 DEF Evaluation
  <2> HIDE DEF e
  <2>3. CASE Held(e.m) /\ positions[e.m] # None /\ SellCheck(e, positions[e.m])
    <3>1. positions[e.m] \in Position /\ BelowPeak(positions[e.m])
      BY <1>1, <2>2, <2>3 DEF IInv, TypeOK, StopsBelowPeak, Records, Evaluation
    <3>. QED  BY <1>1, <2>2, <2>3, <3>1, BalanceSellCheck
  <2>4. CASE pc' = "recover" /\ UNCHANGED <<book, holding>>
    BY <1>1, <2>4, BalanceStays DEF book
  <2>5. CASE Signal(e) /\ UNCHANGED book
    <3>1. pc' \in {"fetch", "idle", "buying"} /\ holding' = holding
      BY <2>5, GoOnControls DEF Signal
    <3>. QED  BY <1>1, <2>5, <3>1, BalanceStays DEF book
  <2>. QED  BY <2>1, <2>3, <2>4, <2>5 DEF e
<1>3. CASE RecoveredFromDb
  <2>1. trades[at.m] \in Trade
    BY <1>1, <1>3 DEF TypeOK, Evaluation, RecoveredFromDb
  <2> DEFINE pos == DbPosition(at.s, trades[at.m], at.a)
  <2>2. pos \in Position /\ BelowPeak(pos)
    BY <1>1, <2>1, DbPositionSound DEF Evaluation
  <2>3. SellCheck(at, pos) /\ Held(at.m)
    BY <1>3 DEF RecoveredFromDb, SoleInv, HereOK
  <2> HIDE DEF pos
  <2>. QED  BY <1>1, <2>2, <2>3, BalanceSellCheck
<1>4. CASE FellBack
  <2> DEFINE pos == FallbackPosition(at.s, at.p, at.a, now)
  <2>1. pos \in Position /\ BelowPeak(pos)
    BY <1>1, FallbackPositionSound DEF TypeOK, Evaluation
  <2>2. SellCheck(at, pos) /\ Held(at.m)
    BY <1>4 DEF FellBack, SoleInv, HereOK
  <2> HIDE DEF pos
  <2>. QED  BY <1>1, <2>1, <2>2, BalanceSellCheck
<1>. QED  BY <1>2, <1>3, <1>4

LEMMA BalanceOrders ==
  ASSUME TypeOK, NEW s \in Strategy, SoleInv(s), NothingUnheard, BooksOK,
         BuySent \/ PaperBuy \/ OrderFilled \/ RequestLost \/ ReplyLost
  PROVE  BooksOK'
<1>1. /\ UNCHANGED config /\ mode' = mode /\ Up /\ pc \in {"buying", "ordering"}
      /\ at.m \in Market /\ at.p \in Nat /\ price[at.m] \in Nat
      /\ holding \in [Account -> Lots] /\ order \in Order
  BY DEF config, Up, TypeOK, Evaluation, BuySent, PaperBuy, OrderFilled, RequestLost, ReplyLost
<1>2. CASE BuySent
  BY <1>1, <1>2, BalanceStays DEF BuySent, Send, book
<1>3. CASE PaperBuy
  <2>1. /\ holding'[mode][at.m] > 0
        /\ \A m \in Market : m # at.m => holding'[mode][m] = holding[mode][m]
    BY <1>1, <1>3 DEF PaperBuy, Account, Lots
  <2>2. at.p + Slip \in Nat /\ Bought(at.p + Slip)
    BY <1>1, <1>3, TradingEngineAssumption DEF PaperBuy
  <2>. QED  BY <1>1, <2>1, <2>2, BalanceBought
<1>4. CASE OrderFilled
  <2>1. /\ mode = "live" /\ order.qty > 0 /\ order.qty \in Nat
        /\ Fillable /\ pc = "ordering" /\ holding["live"] \in Lots
        /\ holding' = [holding EXCEPT !["live"][at.m] =
                         IF order.side = "buy" THEN @ + order.qty ELSE @ - order.qty]
    BY <1>1, <1>4 DEF OrderFilled, ExchangeFills, SoleInv, VisitOK, BooksOK, Order, Account
  <2>2. \A m \in Market : m # at.m => holding'[mode][m] = holding[mode][m]
    BY <1>1, <2>1 DEF Account, Lots
  <2>3. CASE order.side = "buy" /\ \E fill \in {price[at.m]} \union OddFills : Bought(fill)
    <3>1. PICK fill \in {price[at.m]} \union OddFills : Bought(fill)
      BY <2>3
    <3>2. fill \in Nat
      BY <1>1, TradingEngineAssumption
    <3>3. holding'[mode][at.m] > 0
      BY <1>1, <2>1, <2>3 DEF Account, Lots
    <3>. QED  BY <1>1, <2>2, <3>1, <3>2, <3>3, BalanceBought
  <2>4. CASE order.side = "sell" /\ pc' = "clear" /\ UNCHANGED <<at, book>>
    <3>1. holding["live"][at.m] > 0
      BY <1>1, <2>1, <2>4 DEF Fillable, Account, Lots
    <3>2. positions[at.m] # None /\ positions' = positions
      BY <1>1, <2>1, <2>4, <3>1 DEF BooksOK, Balanced, book
    <3>3. \A m \in Market : Balanced(m)'
      BY <1>1, <2>1, <2>2, <2>4, <3>2 DEF BooksOK, Balanced
    <3>. QED  BY <2>4, <3>3 DEF BooksOK
  <2>. QED  BY <1>4, <2>3, <2>4 DEF OrderFilled
<1>5. CASE RequestLost
  <2>1. pc' \in {"ordering", "fetch", "idle"} /\ (pc' = "ordering" => order'.qty = order.qty)
    BY <1>1, <1>5, GoOnControls DEF RequestLost, Retry, Return, Order
  <2>. QED  BY <1>1, <1>5, <2>1, BalanceStays DEF RequestLost, book, BooksOK
<1>6. CASE ReplyLost
  BY <1>6 DEF ReplyLost, NothingUnheard
<1>. QED  BY <1>2, <1>3, <1>4, <1>5, <1>6

LEMMA BalanceOthers ==
  ASSUME TypeOK, NEW s \in Strategy, SoleStrategy(s), SoleInv(s), NothingUnheard, BooksOK,
         \/ StartTick \/ BalanceRead \/ AccountsRead \/ PortfolioFails
         \/ FetchFails \/ BuyRefused \/ Cleared \/ TradeRecorded \/ RecordingFails
         \/ Crash \/ Restart \/ CommandStep \/ TimePasses \/ PriceMoves
         \/ UNCHANGED vars
  PROVE  BooksOK'
<1>1. CASE StartTick \/ BalanceRead \/ AccountsRead \/ PortfolioFails
  <2>1. /\ UNCHANGED <<positions, mode, holding>> /\ Up /\ pc # "clear"
        /\ pc' \in {"balance", "accounts", "fetch", "idle"}
    BY <1>1, GoOnControls DEF StartTick, BalanceRead, AccountsRead, PortfolioFails, FirstVisit,
                              book, config, Up
  <2>. QED  BY <2>1, BalanceStays
<1>2. CASE FetchFails \/ BuyRefused \/ TradeRecorded \/ RecordingFails
  <2>1. /\ UNCHANGED <<positions, mode, holding>> /\ Up /\ pc # "clear"
        /\ pc' \in {"fetch", "idle"}
    BY <1>2, GoOnControls DEF FetchFails, BuyRefused, TradeRecorded, RecordingFails, Return,
                              book, config, Up
  <2>. QED  BY <2>1, BalanceStays
<1>3. CASE Cleared
  <2>1. /\ at.m \in Market /\ positions \in Records /\ pc = "clear" /\ Up
        /\ mode' = mode /\ holding' = holding /\ pc' \in {"fetch", "idle"}
        /\ positions' = [positions EXCEPT ![at.m] = None]
        /\ holding[mode][at.m] = 0
    BY <1>3, GoOnControls DEF Cleared, Return, TypeOK, Evaluation, Up, config, SoleInv, SoldOK
  <2>2. ASSUME NEW m \in Market
        PROVE  Balanced(m)'
    <3>1. CASE m = at.m
      BY <2>1, <3>1 DEF Balanced, Records
    <3>2. CASE m # at.m
      BY <2>1, <3>2 DEF BooksOK, Balanced, Records
    <3>. QED  BY <3>1, <3>2
  <2>. QED  BY <2>1, <2>2 DEF BooksOK
<1>4. CASE Crash
  BY <1>4 DEF Crash, NothingUnheard
<1>5. CASE Restart
  <2>1. /\ pc = "down" /\ pc' = "idle" /\ holding' = holding
        /\ positions' = NoPositions /\ holding = [c \in Account |-> NoLots]
        /\ mode' \in Account
    BY <1>5, TradingEngineAssumption DEF Restart, BooksOK
  <2>. QED  BY <2>1 DEF BooksOK, Balanced, NoPositions, NoLots
<1>6. CASE CommandStep \/ TimePasses \/ PriceMoves \/ UNCHANGED vars
  <2>1. UNCHANGED <<pc, at, order, positions, snapshot, holding>>
    BY <1>6 DEF CommandStep, Pause, Resume, SwitchMode, Enable, Disable, SwitchStrategy,
                Serve, TimePasses, PriceMoves, vars, task, book
  <2>2. mode' = mode
    BY <1>6 DEF SoleStrategy, CommandStep, Pause, Resume, SwitchMode, Enable, Disable,
                SwitchStrategy, Serve, TimePasses, PriceMoves, vars, config
  <2>. QED  BY <2>1, <2>2 DEF BooksOK, Balanced, Up
<1>. QED  BY <1>1, <1>2, <1>3, <1>4, <1>5, <1>6

\* With one strategy, no switch of the mode, no lost answer and no crash, a market
\* has a record between two ticks exactly when it is held, whatever readings,
\* requests, queries and saves fail: nothing is held without a stop, and no stop
\* is kept of what was sold.
THEOREM BooksAreBalanced ==
  ASSUME NEW s \in Strategy, SoleStrategy(s), NothingUnheard
  PROVE  Spec => []BooksBalance
<1>1. Init => BooksOK
  BY DEF Init, BooksOK, Up
<1>2. ASSUME IInv, SoleInv(s), BooksOK, [Next]_vars
      PROVE  BooksOK'
  BY <1>2, BalanceEvaluation, BalanceOrders, BalanceOthers DEF IInv, Next, EngineStep
<1>3. BooksOK => BooksBalance
  BY DEF BooksOK, BooksBalance, Balanced, Up
<1>. QED  BY <1>1, <1>2, <1>3, SoleInvariance, Invariance, PTL DEF Spec

=============================================================================
