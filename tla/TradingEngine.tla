---------------------------- MODULE TradingEngine ----------------------------
(***************************************************************************)
(* The trading loop of src/src/core/trading_engine.py: one asyncio task    *)
(* that evaluates every enabled strategy on every market, sells what has   *)
(* hit a stop, buys on a signal, and keeps a record (_PositionInfo) of     *)
(* each open position in memory and in a snapshot file.                    *)
(*                                                                         *)
(* Other tasks run only while this one awaits, so a step of the model is   *)
(* what the task does between two awaits that can suspend it, and pc names *)
(* the await it is suspended in:                                           *)
(*   "idle"      the sleep between two ticks                               *)
(*   "balance"   GET /accounts of executor.get_balance (live)              *)
(*   "accounts"  GET /accounts of executor.get_positions (live)            *)
(*   "fetch"     GET candles of one strategy and market                    *)
(*   "recover"   the query for the last buy of an orphan holding           *)
(*   "buying"    the Telegram messages about a signal and its risk check   *)
(*   "ordering"  POST /orders, with its retries (live)                     *)
(*   "record"    INSERT of a buy into the trades table                     *)
(*   "clear"     the Telegram message about a sale                         *)
(*   "down"      the process does not run                                  *)
(* Meanwhile the clock and the prices move, Telegram commands are served,  *)
(* and the process may crash.                                              *)
(***************************************************************************)
EXTENDS ExitRules

CONSTANTS
  NMarket,      \* every strategy trades the markets 1 .. NMarket, in order
  None,         \* "no record", "no trade"
  Lost,         \* the content of a snapshot file that cannot be read
  BootModes,    \* the modes the process may be started in (--mode, .env)
  BootEnabled,  \* the strategies strategies.yaml enables
  MaxTries,     \* _MAX_RETRIES of the HTTP client
  Slip,         \* slippage of a paper buy, in price units
  OddFills,     \* prices the exchange's answer may report beside the real one
  Commands,     \* the Telegram commands a run sends
  Faults,       \* the faults a run injects
  Verdicts,     \* the answers of the risk engine to a sell
  Prices,       \* the prices a market may have
  Atrs,         \* the ATR readings; 0: the indicator is missing
  TimeSteps,    \* the hours the clock may advance at once
  FirstHour,    \* the clock at the start
  MaxTime,      \* bound: the clock stops here
  MaxLots       \* bound: no purchase fills beyond this many lots of a market

Market == 1 .. NMarket
Account == {"paper", "live"}
Lots == [Market -> Nat]
Records == [Market -> Position \union {None}]
Evaluation == [s : Strategy, m : Market, p : Nat, a : Nat]
Portfolio == [acct : Account, qty : Lots]
Order == [side : {"none", "buy", "sell"}, acct : Account, qty : Nat, tries : Nat]
Trade == [price : Nat, time : Int]

Verdict == {"approve", "policy", "system", "error"}
Fault == {"portfolio", "fetch", "database", "request", "reply", "crash", "file", "save"}
Command == {"pause", "resume", "mode", "enable", "disable", "switchstrategy"}

ASSUME TradingEngineAssumption ==
  /\ NMarket \in Nat \ {0}
  /\ None \notin Position
  /\ Lost \notin Records
  /\ BootModes \subseteq Account
  /\ BootEnabled \subseteq Strategy
  /\ MaxTries \in Nat \ {0}
  /\ Slip \in Nat
  /\ OddFills \subseteq Nat
  /\ Commands \subseteq Command
  /\ Faults \subseteq Fault
  /\ Verdicts \subseteq Verdict
  /\ Prices \subseteq Nat \ {0}
  /\ Atrs \subseteq Nat
  /\ TimeSteps \subseteq Nat
  /\ FirstHour \in Int /\ MaxTime \in Int
  /\ MaxLots \in Nat

VARIABLES
  (* the engine task: its control state and the locals of the coroutines   *)
  pc,         \* the await the task is suspended in
  at,         \* the evaluation in progress: strategy, market, price, ATR
  portfolio,  \* the PortfolioState built at the start of the tick
  order,      \* the order being executed
  (* the engine object                                                     *)
  positions,  \* _positions: market -> record or None
  mode,       \* _mode, which also says which executor is self.executor
  paused,     \* _paused
  enabled,    \* the strategies whose config.enabled is set
  (* what survives the process                                             *)
  snapshot,   \* data/positions.json
  trades,     \* trades table: market -> its most recent buy, or None
  (* the world                                                             *)
  holding,    \* account -> market -> lots held
  price,      \* market -> its current price
  now         \* the clock

task   == <<pc, at, portfolio, order>>
book   == <<positions, snapshot>>
config == <<mode, paused, enabled>>
world  == <<price, now>>
vars   == <<task, book, config, trades, holding, world>>

NoPositions == [m \in Market |-> None]
NoLots      == [m \in Market |-> 0]
Nowhere     == [s |-> 1, m |-> 1, p |-> 0, a |-> 0]
NoPortfolio == [acct |-> "paper", qty |-> NoLots]
NoOrder     == [side |-> "none", acct |-> "paper", qty |-> 0, tries |-> 0]

Up == pc # "down"

Init ==
  /\ pc = "down"
  /\ at = Nowhere
  /\ portfolio = NoPortfolio
  /\ order = NoOrder
  /\ positions = NoPositions
  /\ snapshot = NoPositions
  /\ mode \in BootModes
  /\ paused = FALSE
  /\ enabled = BootEnabled
  /\ trades = NoPositions
  /\ holding = [c \in Account |-> NoLots]
  /\ price \in [Market -> Prices]
  /\ now = FirstHour

-----------------------------------------------------------------------------
(* The loops of _tick.                                                     *)

Visit(s, m, pf) ==
  /\ pc' = "fetch"
  /\ at' = [s |-> s, m |-> m, p |-> 0, a |-> 0]
  /\ portfolio' = pf

\* Mutant: the loop over the markets runs one too far.
GoOn_Overrun(s, m, pf) ==
  \/ m <= NMarket /\ Visit(s, m + 1, pf)
  \/ /\ m > NMarket
     /\ pc' = "idle" /\ at' = Nowhere /\ portfolio' = NoPortfolio

\* The inner loop runs through all markets of a strategy; the outer one reads
\* the enabled flag of a strategy when its turn comes.
GoOn(s, m, pf) ==
  \/ /\ m < NMarket
     /\ Visit(s, m + 1, pf)
  \/ /\ m = NMarket
     /\ \E t \in enabled :
          /\ t > s
          /\ \A u \in enabled : u > s => u >= t
          /\ Visit(t, 1, pf)
  \/ /\ m = NMarket
     /\ \A t \in enabled : t <= s
     /\ pc' = "idle"
     /\ at' = Nowhere
     /\ portfolio' = NoPortfolio

FirstVisit(acct, lots) == GoOn(0, NMarket, [acct |-> acct, qty |-> lots])

\* The evaluation in progress returns.
Return == GoOn(at.s, at.m, portfolio) /\ order' = NoOrder

\* The paper executor answers without suspending, the live one by HTTP.
StartTick ==
  /\ pc = "idle"
  /\ ~paused
  /\ \/ mode = "paper" /\ FirstVisit("paper", holding["paper"])
     \/ mode = "live" /\ pc' = "balance" /\ UNCHANGED <<at, portfolio>>
  /\ UNCHANGED <<order, book, config, trades, holding, world>>

\* get_positions goes to whatever executor is current after get_balance.
BalanceRead ==
  /\ pc = "balance"
  /\ \/ mode = "paper" /\ FirstVisit("paper", holding["paper"])
     \/ mode = "live" /\ pc' = "accounts" /\ UNCHANGED <<at, portfolio>>
  /\ UNCHANGED <<order, book, config, trades, holding, world>>

AccountsRead ==
  /\ pc = "accounts"
  /\ FirstVisit("live", holding["live"])
  /\ UNCHANGED <<order, book, config, trades, holding, world>>

\* The tick goes on with an empty portfolio.
PortfolioFails ==
  /\ "portfolio" \in Faults
  /\ pc \in {"balance", "accounts"}
  /\ FirstVisit("live", NoLots)
  /\ UNCHANGED <<order, book, config, trades, holding, world>>

-----------------------------------------------------------------------------
(* The snapshot file: _save_positions logs and drops every exception, which *)
(* leaves the old file or one that is cut off.                              *)

Saves(ps) ==
  \/ snapshot' = ps
  \/ "save" \in Faults /\ snapshot' \in {snapshot, Lost}

-----------------------------------------------------------------------------
(* Selling: _execute_sell.                                                 *)

\* Mutant: a protective exit obeys every rejection.
Blocked_NoOverride(why, verdict) == verdict \in {"system", "policy"}

\* The risk engine's answer that keeps a sell from being sent.
Blocked(why, verdict) ==
  \/ verdict = "system"
  \/ verdict = "policy" /\ ~Protective(why)

Send(e, side, qty) ==
  /\ pc' = "ordering"
  /\ at' = e
  /\ order' = [side |-> side, acct |-> "live", qty |-> qty, tries |-> 0]
  /\ UNCHANGED <<portfolio, holding>>

\* The paper executor sells at most what it holds, and fails on nothing.
PaperSell(e, qty) ==
  IF holding["paper"][e.m] = 0
  THEN /\ GoOn(e.s, e.m, portfolio)
       /\ UNCHANGED <<order, holding>>
  ELSE /\ holding' = [holding EXCEPT !["paper"][e.m] = IF @ > qty THEN @ - qty ELSE 0]
       /\ pc' = "clear"
       /\ at' = e
       /\ order' = [side |-> "sell", acct |-> "paper", qty |-> qty, tries |-> 0]
       /\ UNCHANGED portfolio

\* Mutant: only the last purchase is sold.
ExecuteSell_OneLot(e, why) ==
  \/ GoOn(e.s, e.m, portfolio) /\ UNCHANGED <<order, holding>>
  \/ mode = "live" /\ Send(e, "sell", 1)
  \/ mode = "paper" /\ PaperSell(e, 1)

\* The quantity is the one the portfolio showed when the tick began.
ExecuteSell(e, why) ==
  \E verdict \in Verdicts :
    \/ /\ Blocked(why, verdict)
       /\ GoOn(e.s, e.m, portfolio)
       /\ UNCHANGED <<order, holding>>
    \/ /\ ~Blocked(why, verdict)
       /\ mode = "live"
       /\ Send(e, "sell", portfolio.qty[e.m])
    \/ /\ ~Blocked(why, verdict)
       /\ mode = "paper"
       /\ PaperSell(e, portfolio.qty[e.m])

-----------------------------------------------------------------------------
(* One evaluation: _evaluate.                                              *)

\* The strategy answers HOLD, or BUY and two Telegram messages are sent.
Signal(e) ==
  /\ \/ GoOn(e.s, e.m, portfolio)
     \/ pc' = "buying" /\ at' = e /\ UNCHANGED portfolio
  /\ UNCHANGED <<order, holding>>

\* The sell check on a market that is held and has the record pos.  The file
\* is rewritten only when it would differ from what the engine last had.
SellCheck(e, pos) ==
  LET new == Refreshed(e.s, pos, e.p, e.a, now)
      why == ExitReason(e.s, new, e.p, now)
      ps  == [positions EXCEPT ![e.m] = new]
  IN /\ positions' = ps
     /\ IF ps = positions THEN UNCHANGED snapshot ELSE Saves(ps)
     /\ \/ why # "NONE" /\ ExecuteSell(e, why)
        \/ why = "NONE" /\ Signal(e)

FetchFails ==
  /\ "fetch" \in Faults
  /\ pc = "fetch"
  /\ Return
  /\ UNCHANGED <<book, config, trades, holding, world>>

Held(m) == portfolio.qty[m] > 0

Fetched ==
  /\ pc = "fetch"
  /\ \E a \in Atrs :
       LET e == [at EXCEPT !.p = price[at.m], !.a = a] IN
       \/ /\ Held(e.m) /\ positions[e.m] # None
          /\ SellCheck(e, positions[e.m])
       \/ /\ Held(e.m) /\ positions[e.m] = None
          /\ pc' = "recover" /\ at' = e
          /\ UNCHANGED <<portfolio, order, book, holding>>
       \/ /\ ~Held(e.m)
          /\ Signal(e)
          /\ UNCHANGED book
  /\ UNCHANGED <<config, trades, world>>

\* Orphan recovery, then the sell check of the same evaluation.
RecoveredFromDb ==
  /\ pc = "recover"
  /\ trades[at.m] # None
  /\ SellCheck(at, DbPosition(at.s, trades[at.m], at.a))
  /\ UNCHANGED <<config, trades, world>>

\* Mutant: a holding the database knows nothing of is left alone.
FellBack_Skips ==
  /\ pc = "recover"
  /\ Return
  /\ UNCHANGED <<book, config, trades, holding, world>>

FellBack ==
  /\ pc = "recover"
  /\ trades[at.m] = None \/ "database" \in Faults
  /\ SellCheck(at, FallbackPosition(at.s, at.p, at.a, now))
  /\ UNCHANGED <<config, trades, world>>

-----------------------------------------------------------------------------
(* Orders.                                                                 *)

\* A buy that filled is recorded at its fill price, then logged in the table.
Bought(fill) ==
  LET ps == [positions EXCEPT ![at.m] = NewPosition(at.s, fill, at.a, now)] IN
  /\ positions' = ps
  /\ Saves(ps)
  /\ pc' = "record"
  /\ at' = [at EXCEPT !.p = fill]
  /\ order' = NoOrder
  /\ UNCHANGED portfolio

\* Rejected by the risk engine, below the minimum, or short of paper cash.
BuyRefused ==
  /\ pc = "buying"
  /\ Return
  /\ UNCHANGED <<book, config, trades, holding, world>>

BuySent ==
  /\ pc = "buying"
  /\ mode = "live"
  /\ Send(at, "buy", 1)
  /\ UNCHANGED <<book, config, trades, world>>

PaperBuy ==
  /\ pc = "buying"
  /\ mode = "paper"
  /\ holding["paper"][at.m] < MaxLots
  /\ holding' = [holding EXCEPT !["paper"][at.m] = @ + 1]
  /\ Bought(at.p + Slip)
  /\ UNCHANGED <<config, trades, world>>

\* Upbit has the coins to sell; the funds for a buy last up to the bound.
Fillable ==
  \/ order.side = "buy" /\ holding["live"][at.m] < MaxLots
  \/ order.side = "sell" /\ holding["live"][at.m] >= order.qty

\* What the exchange does when it accepts the order.
ExchangeFills ==
  /\ Fillable
  /\ holding' = [holding EXCEPT !["live"][at.m] =
                   IF order.side = "buy" THEN @ + order.qty ELSE @ - order.qty]

\* The exchange fills the order and its answer arrives; an answer without a
\* price is read as a fill at 0.
OrderFilled ==
  /\ pc = "ordering"
  /\ ExchangeFills
  /\ \/ /\ order.side = "buy"
        /\ \E fill \in {price[at.m]} \union OddFills : Bought(fill)
     \/ /\ order.side = "sell"
        /\ pc' = "clear"
        /\ UNCHANGED <<at, portfolio, order, book>>
  /\ UNCHANGED <<config, trades, world>>

\* Mutant: the attempts are not counted.
Retry_Endless == UNCHANGED <<pc, at, portfolio, order>>

\* Mutant: an order that failed for good is treated as executed.
Retry_IgnoresFailure ==
  \/ /\ order.tries + 1 < MaxTries
     /\ order' = [order EXCEPT !.tries = @ + 1]
     /\ UNCHANGED <<pc, at, portfolio>>
  \/ /\ order.tries + 1 >= MaxTries
     /\ pc' = IF order.side = "sell" THEN "clear" ELSE "record"
     /\ UNCHANGED <<at, portfolio, order>>

\* An attempt that raised is repeated, the last one fails the order.
Retry ==
  \/ /\ order.tries + 1 < MaxTries
     /\ order' = [order EXCEPT !.tries = @ + 1]
     /\ UNCHANGED <<pc, at, portfolio>>
  \/ /\ order.tries + 1 >= MaxTries
     /\ Return

\* The exchange refused the request, or never got it.
RequestLost ==
  /\ pc = "ordering"
  /\ "request" \in Faults \/ ~Fillable
  /\ Retry
  /\ UNCHANGED <<book, config, trades, holding, world>>

\* The exchange filled the order but its answer got lost.
ReplyLost ==
  /\ "reply" \in Faults
  /\ pc = "ordering"
  /\ ExchangeFills
  /\ Retry
  /\ UNCHANGED <<book, config, trades, world>>

\* Mutant: the file is not rewritten after a sale.
Cleared_Unsaved ==
  /\ pc = "clear"
  /\ positions' = [positions EXCEPT ![at.m] = None]
  /\ Return
  /\ UNCHANGED <<snapshot, config, trades, holding, world>>

\* Mutant: the market just sold is evaluated again in the same tick.
Cleared_VisitsAgain ==
  LET ps == [positions EXCEPT ![at.m] = None] IN
  /\ pc = "clear"
  /\ positions' = ps
  /\ Saves(ps)
  /\ order' = NoOrder
  /\ Visit(at.s, at.m, portfolio)
  /\ UNCHANGED <<config, trades, holding, world>>

\* Back from the message about the sale: the record goes.
Cleared ==
  LET ps == [positions EXCEPT ![at.m] = None] IN
  /\ pc = "clear"
  /\ positions' = ps
  /\ Saves(ps)
  /\ Return
  /\ UNCHANGED <<config, trades, holding, world>>

TradeRecorded ==
  /\ pc = "record"
  /\ trades' = [trades EXCEPT ![at.m] = [price |-> at.p, time |-> now]]
  /\ Return
  /\ UNCHANGED <<book, config, holding, world>>

\* The exception is logged and dropped.
RecordingFails ==
  /\ "database" \in Faults
  /\ pc = "record"
  /\ Return
  /\ UNCHANGED <<book, config, trades, holding, world>>

-----------------------------------------------------------------------------
(* The process.                                                            *)

\* A stop request cancels the task in its await just as a crash ends it.  The
\* paper account lives in memory.
Crash ==
  /\ "crash" \in Faults
  /\ Up
  /\ pc' = "down"
  /\ at' = Nowhere
  /\ portfolio' = NoPortfolio
  /\ order' = NoOrder
  /\ positions' = NoPositions
  /\ \/ UNCHANGED snapshot
     \/ "file" \in Faults /\ snapshot' = Lost
  /\ holding' = [holding EXCEPT !["paper"] = NoLots]
  /\ UNCHANGED <<config, trades, world>>

\* _load_positions starts fresh when the file is unreadable.
Restart ==
  /\ pc = "down"
  /\ pc' = "idle"
  /\ positions' = IF snapshot = Lost THEN NoPositions ELSE snapshot
  /\ mode' \in BootModes
  /\ paused' = FALSE
  /\ enabled' = BootEnabled
  /\ UNCHANGED <<at, portfolio, order, snapshot, trades, holding, world>>

-----------------------------------------------------------------------------
(* Telegram commands, served by another task while this one is suspended.  *)

Serve(c) ==
  /\ c \in Commands
  /\ Up
  /\ UNCHANGED <<task, book, trades, holding, world>>

Pause == Serve("pause") /\ paused' = TRUE /\ UNCHANGED <<mode, enabled>>

Resume == Serve("resume") /\ paused' = FALSE /\ UNCHANGED <<mode, enabled>>

SwitchMode ==
  /\ Serve("mode")
  /\ mode' = IF mode = "live" THEN "paper" ELSE "live"
  /\ UNCHANGED <<paused, enabled>>

Enable(s) ==
  /\ Serve("enable")
  /\ enabled' = enabled \union {s}
  /\ UNCHANGED <<mode, paused>>

Disable(s) ==
  /\ Serve("disable")
  /\ enabled' = enabled \ {s}
  /\ UNCHANGED <<mode, paused>>

SwitchStrategy(s) ==
  /\ Serve("switchstrategy")
  /\ enabled' = {s}
  /\ UNCHANGED <<mode, paused>>

-----------------------------------------------------------------------------
(* The world.                                                              *)

TimePasses ==
  /\ \E d \in TimeSteps : now + d <= MaxTime /\ now' = now + d
  /\ UNCHANGED <<task, book, config, trades, holding, price>>

PriceMoves ==
  /\ \E m \in Market, p \in Prices : price' = [price EXCEPT ![m] = p]
  /\ UNCHANGED <<task, book, config, trades, holding, now>>

-----------------------------------------------------------------------------
EngineStep ==
  \/ StartTick \/ BalanceRead \/ AccountsRead \/ PortfolioFails
  \/ FetchFails \/ Fetched \/ RecoveredFromDb \/ FellBack
  \/ BuyRefused \/ BuySent \/ PaperBuy
  \/ OrderFilled \/ RequestLost \/ ReplyLost
  \/ Cleared \/ TradeRecorded \/ RecordingFails

CommandStep ==
  \/ Pause \/ Resume \/ SwitchMode
  \/ \E s \in Strategy : Enable(s) \/ Disable(s) \/ SwitchStrategy(s)

Next ==
  \/ EngineStep
  \/ Crash \/ Restart
  \/ CommandStep
  \/ TimePasses \/ PriceMoves

Spec == Init /\ [][Next]_vars

-----------------------------------------------------------------------------
(* Fairness.  asyncio resumes a task whose await is done, and every HTTP    *)
(* request ends by its answer, an error or a timeout: the task never stays  *)
(* suspended (weak fairness).  The network, Upbit and the database do not   *)
(* fail for ever: a request that is made again and again succeeds again and *)
(* again (strong fairness), also on the ticks that found the market held:   *)
(* failures of one request do not follow the successes of another for ever. *)

Fairness ==
  /\ WF_vars(EngineStep)
  /\ WF_vars(Restart)
  /\ SF_vars(BalanceRead)
  /\ SF_vars(AccountsRead)
  /\ \A m \in Market :
       /\ SF_vars(at.m = m /\ Held(m) /\ Fetched)
       /\ SF_vars(at.m = m /\ order.side = "sell" /\ OrderFilled)

FairSpec == Spec /\ Fairness

-----------------------------------------------------------------------------
(* Properties.                                                             *)

\* The content of a readable snapshot file.
Restored == IF snapshot = Lost THEN NoPositions ELSE snapshot

\* Every variable has its type.
TypeOK ==
  /\ pc \in {"down", "idle", "balance", "accounts", "fetch", "recover",
             "buying", "ordering", "record", "clear"}
  /\ at \in Evaluation
  /\ portfolio \in Portfolio
  /\ order \in Order
  /\ positions \in Records
  /\ snapshot \in Records \union {Lost}
  /\ mode \in Account
  /\ paused \in BOOLEAN
  /\ enabled \subseteq Strategy
  /\ trades \in [Market -> Trade \union {None}]
  /\ holding \in [Account -> Lots]
  /\ price \in [Market -> Nat]
  /\ now \in Int

\* Whenever the task is suspended the snapshot file holds exactly the records
\* in memory, so that a crash at any await loses no stop and revives no
\* record of a position already sold and cleared; an unreadable file is
\* tolerated only while there is nothing to save.
SnapshotCurrent == Up => positions = Restored

\* Every record, in memory or in the file, has its hard stop at or below its
\* entry and its trailing stop at or below its peak.  (An auxiliary fact: with
\* no ATR the trailing stop is the peak itself.)
StopsBelowPeak ==
  \A m \in Market :
    /\ positions[m] # None => BelowPeak(positions[m])
    /\ Restored[m] # None => BelowPeak(Restored[m])

\* The records a crash cannot touch: those in memory, and those in the file while
\* the process is down.
Kept == IF pc = "down" THEN Restored ELSE positions

\* The market whose sale is confirmed and whose record is about to go.
Sold == IF pc = "clear" THEN {at.m} ELSE {}

Book == INSTANCE StopBook
          WITH up <- Up, clock <- now, held <- holding, seen <- portfolio.qty,
               sold <- Sold, bought <- trades, book <- Kept

\* The engine implements the abstract book of stops.  A record is replaced only in
\* the step in which a purchase of its market fills, by one that starts at the
\* fill, in the session of that hour.  It goes only after a sale of its market
\* was confirmed, or with all others in a crash that loses the file.  A market
\* without one gets one from a purchase, or, if the tick read it as held, from
\* the purchase logged last or made up at the current price.  Whatever else
\* happens, retries, lost answers, commands and restarts included, a record stays
\* as it is or its peak and its trailing stop rise.
StopsOnlyTighten == Book!Spec

\* A record is opened only for what is held: in the account the tick read, as it
\* is when the record is opened and not as it was read, or by a purchase filling
\* in the same step.  (Of two strategies the second one finds what the first has
\* just sold held without a record, and recovers one: trading_engine.py:365.)
RecordsAreOfHoldings ==
  [][\A m \in Market :
       Up /\ positions[m] = None /\ positions'[m] # None
         => \/ holding[portfolio.acct][m] > 0
            \/ \E c \in Account : holding'[c][m] > holding[c][m]]_vars

\* A sell is sent for no more than the account holds when it is sent, though
\* its quantity was read at the start of the tick.
SellCovered ==
  pc = "ordering" /\ order.side = "sell" /\ order.tries = 0
    => order.qty <= holding["live"][at.m]

\* When a record is dropped after a sale nothing of the market is left in the
\* account that was sold from, where no stop would watch it.
NothingLeftUnwatched ==
  [][\A m \in Market :
       positions[m] # None /\ positions'[m] = None /\ pc' # "down"
         => holding[order.acct][m] = 0]_vars

\* Between two ticks a market has a record exactly when it is held.
BooksBalance ==
  pc = "idle" => \A m \in Market : positions[m] # None <=> holding[mode][m] > 0

\* A tick that began ends, whatever fails during it.
TickEnds == Up /\ pc # "idle" ~> pc \in {"idle", "down"}

\* A held market at or below the hard stop of its record.
Exposed(m) ==
  /\ holding[mode][m] > 0
  /\ positions[m] # None
  /\ 100 * price[m] <= positions[m].hard

\* No command keeps the engine from looking at the markets.
Watching == ~paused /\ enabled # {}

\* Once the chat leaves the engine unpaused with a strategy enabled, a holding
\* does not stay at or below its hard stop for ever, whatever was paused,
\* disabled, rejected or lost before: it is sold, or the price recovers.
HardStopHonoured == <>[]Watching => \A m \in Market : []<>~Exposed(m)

\* A holding of the current account the engine has no record of.
Orphan(m) == holding[mode][m] > 0 /\ positions[m] = None

\* Once crashes stop and the engine is left watching, a holding without a record
\* gets one (or is sold).
OrphansAdopted ==
  <>[][~Crash]_vars /\ <>[]Watching => \A m \in Market : []<>~Orphan(m)


=============================================================================
