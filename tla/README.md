# Verification of upbit-trader

TLA+ models of upbit-trader, an automated trader for the Upbit exchange
written in Python with asyncio: what is modelled, what TLC checks on small
instances and what TLAPS proves for every value of the constants. Paths are
those of the repository (`src/...`, `GUIDE.md`); line numbers refer to the
commit the models were translated from.

## 1. The system

`src/main.py` starts two asyncio tasks in one thread, the trading engine and
the Telegram command handler; the engine starts a third, the hourly briefing.
They share the engine object and interleave only where one of them awaits.

| Component | State | Operations | Interacts with |
|---|---|---|---|
| Trading engine (`core/trading_engine.py`) | `_positions` (a `_PositionInfo` per market), `data/positions.json`, `_paused`, `_mode`, `executor`, `_hourly_stats` | `run`, `_tick`, `_evaluate`, `_execute_sell`, orphan recovery, `_save_positions`, `_load_positions`, `switch_mode` | strategies, risk engine, executor, database, notifier: all awaited |
| Live executor and client (`execution/live_executor.py`, `api/upbit_client.py`) | retries and semaphores of a request; the account at Upbit | `execute_order`, `get_balance`, `get_positions`, `_request` | Upbit over HTTP |
| Paper executor and tracker (`execution/backtest_executor.py`, `position_tracker.py`) | KRW balance, quantity, average price and cost by market, in memory | `execute_order`, `on_buy`, `on_sell` | called by the engine |
| Strategies (`strategy/`) | parameters, `enabled` | `generate_signal`, with the size of a purchase | candles; switched by commands |
| Risk engine and rules (`risk/`) | limits of `risk.yaml` | `check`, four rules | the portfolio of the tick |
| Command handler (`notification/command_handler.py`) | `_offset` in memory; what Telegram has not seen acknowledged | polling, fourteen commands | engine, strategies, `stop_event` |
| Notifier (`notification/telegram_bot.py`) | none | `send`, one attempt, never raises | engine, command handler |
| Hourly briefing | the statistics window | hourly loop, `/briefing` | engine, commands, notifier |
| Order manager (`execution/order_manager.py`) | `_pending` | track, wait for a fill, cancel one or all | the client; not called by the program as shipped |
| WebSocket feed (`api/upbit_websocket.py`) | connection, delay, `_closed` | `run`, reconnecting, `close` | not called by the program as shipped |
| Backtest engine, report (`backtest/`) | capital, position, trades, equity curve | `run`, metrics | a strategy |
| Data collector (`data/collector.py`) | candles in the database | paging, saving | not called by the program as shipped |
| Database (`data/database.py`, `models.py`) | `trades`, `candles` | insert, select | engine |
| Indicators, logging, reporting, settings | none that matters here | numbers, text, files | |

What is hard in it, with the properties each component needs:

* **Engine.** A tick suspends at many awaits while commands change the engine
  and prices move; it acts on a portfolio read at its start. The process can
  stop at every await and only the snapshot file and the trades table survive.
  An order whose answer is lost is sent again, and a save can fail. The records
  must match the file (`SnapshotCurrent`), stops must only tighten between a
  purchase and its sale (`StopsOnlyTighten`), sales must be covered
  (`SellCovered`), records must be of what is held (`RecordsAreOfHoldings`) and
  nothing held may stay without a watched stop (`NothingLeftUnwatched`,
  `BooksBalance`, `OrphansAdopted`, `HardStopHonoured`), a tick must end
  (`TickEnds`).
* **Money.** Sizes and limits come from one reading for all purchases of a tick
  and from an approval that is not what is executed (`TickNeverOvercommits`,
  `OvershootBounded`, `NoOrderOnEmptyBalance`, `CapUnlessZero`).
* **Commands and briefing.** Updates are redelivered until acknowledged and the
  offset dies with the process (`NoCommandSkipped`, `OncePerLife`,
  `EveryCommandHandled`); two tasks report and reset one window around awaits,
  messages fail and processes end (`LostOnlyWhileSending`, `NothingToldAgain`,
  `EventsGetSent`).
* **Requests and orders.** A permit must come back on every path
  (`PermitsKept`). An order may be filled, cancelled, made twice or answered too
  late while a caller polls it and another task cancels everything
  (`KeepsLedger`, `UntoldFillTracked`, `TasksEnd`).
* **Feed.** The reader reconnects while another task closes
  (`ClosesWhatItKnows`, `BackoffGrows`, `ReaderEnds`, `FeedResumes`).
* **Backtest and report.** The order of the exit layers decides fills, a candle
  ends in several places, and the report draws on two sources (`LossBounded`,
  `HeldWithinLimit`, `RoundTrips`, `OnePointPerBar`, `BooksAgree`,
  `DrawdownIsDeepest`, `CurveMeetsCapital`).

`PROJECT.json` lists every hazard at its line, with the properties that would
catch it or the reason why none does.

## 2. The modules

```
ExitRules <- TradingEngine <- MCTradingEngine      CommandPolling <- TelegramBot
   StopBook <-'  ^                                                       ^
           TradingEngineProofs                                  TelegramBotProofs

UpbitClient <- OrderManager <- MCOrderManager      Loops <- LoopTheorems
     ^    OrderLedger <-'  ^                         ^           ^
UpbitClientProofs <- OrderManagerProofs              |- RiskGate <- RiskGateProofs
                                                     |- UpbitWebSocket <- UpbitWebSocketProofs
                                        Backtest <- BacktestReport <- BacktestProofs
```

An arrow points to the module that is extended or instantiated; BacktestReport
extends Loops as well, and the proofs on the right extend LoopTheorems.

**ExitRules** holds the arithmetic of a position: creation at a purchase,
fallback and database recovery, the peak, the ratcheted trail and the three
exit layers. Prices are whole units and stops hundredths of them, so that every
percentage of the code is exact. Time is in hours of Korean time; a session
changes at 09:00 (`_upbit_session_date`).

**TradingEngine** is the loop. An action is what the task does between two
awaits that can suspend it, and `pc` names the await: `idle` the sleep,
`balance` and `accounts` the two requests of `_build_portfolio_state`, `fetch`
the candles, `recover` the query of an orphan, `buying` the messages around the
risk check, `ordering` the order with its retries, `record` the insert,
`clear` the message after a sale. `at`, `portfolio` and `order` are the locals
of the coroutines; they are reset when they go out of scope. Every save of
`_save_positions` is inside the action that changes the record, as it is in the
code, and may fail where a run has the fault "save": the failure is logged and
the file keeps its old content or is spoilt. `Crash` can happen at any await,
loses memory and the paper account and may lose the file; `Restart` is
`_load_positions`. Faults, commands, answers of the risk engine and prices are
sets given by each configuration, so that a run can ask one question.

**StopBook** is the abstract specification: what the engine promises of the
records of its positions, without strategies, orders, retries, awaits or files.
Its state is the clock, what the accounts hold, what the tick in progress read
of it, the market just sold, the last logged purchase of every market, and the
records. Each event that touches a record has its own condition. `Purchase`: a
record is replaced only in the step in which a purchase fills, by one whose peak
and age start at the fill, in the session of that hour. `Evaluate`: for a market
the tick read as held the peak and the trail rise and nothing else changes; if
it has no record it gets one, of the purchase logged last or made up at the
current price. `Close`: only the record of a market whose sale was confirmed
goes. `Die`: a crash keeps the records or loses them all. `Boot`: a restart
brings back exactly those. Purchases and sales the engine did not hear of
(`Unheard`), the log, readings and waiting leave the records alone.
`TradingEngine!StopsOnlyTighten` maps the records to those in memory, or to those
in the file while the process is down (`Kept`), so that a save that is missed
shows as a record revived or lost.

**RiskGate** follows the money of a tick that TradingEngine leaves out: the size
a strategy suggests (balance or `base_capital`, risk-based size, 20 % cap,
rounding to 1,000 KRW), the four rules, and what is spent. A unit is 500 KRW,
half the rounding step; a holding is its cost, which is what both executors
report as `current_value`.

**CommandPolling** is the polling loop with Telegram's side (what is
acknowledged is gone), the process that crashes, is stopped by a signal or by
`/stop`, and starts again with offset 0. After `stop_event` is set the task goes
no further than its next await, because `main` cancels it there: the handler of
the next update in the same answer still runs up to its first await.

**TelegramBot** composes CommandPolling with the statistics window: the trading
loop that records events in it, the hourly task, which sends first and resets
afterwards, and `/briefing`, which swaps first. A message may fail and is not
repeated; a process that ends takes its window with it. An event is recorded,
in a window, in a message on its way, told, or lost, and the model keeps which.

**UpbitClient** is `_request` as several tasks call it: the semaphore with its
queue, the request in flight, the back-off without the permit, the last failure.
The semaphore bounds requests in flight and not their rate, although
upbit_client.py:32 takes its values from Upbit's rate limits; and every failure is repeated, a
refusal with status 4xx and a `POST /orders` that was executed included.

**OrderManager** puts traders (`execute_order`, `track`, `wait_for_fill`) and
closers (`cancel_all_pending`) on top of the client. Upbit fills and cancels at
any time; requests and answers get lost, requests arrive after the task has
given them up, answers are unreadable. An order is the attempt that made it, so
that a repeated `POST` makes a second one. The state of an order that an answer
reports is the one it had when Upbit answered.

**OrderLedger** is what the manager promises without requests or tasks: an order
is forgotten only when Upbit has closed it, and a filled one only when its caller
is told. `OrderManager!KeepsLedger` is the refinement.

**UpbitWebSocket** is the reader in `run()`, with every await of connecting,
subscribing, receiving, handling and waiting, beside a task that calls
`close()`. `stray` counts the open connections nothing refers to: an unreadable
message makes the reader reconnect and forget a socket that is still open.
`caught` and `found` remember where the reader was and how many such sockets there
were when `close()` was called.

**Backtest** is `BacktestEngine.run`, a candle per step, with stop levels exact
and amounts of money rounded down. **BacktestReport** adds the sums and the
maximum drawdown of `calculate_metrics` over its trades and its curve.

**Loops** says what a `for` loop or a repeated assignment of the code has computed
after n passes, as a recursive function: the sums of the report and of
`current_value`, the one pass of the drawdown, the doubling of the delay. The
drawdown keeps the code's pass; the definition it is compared with looks at every
two points of the curve.

**MCTradingEngine** and **MCOrderManager** give values that cannot be written in
a configuration (tuples, functions). Strategy 1 is `trend_filtered_breakout`
with an ATR trail and a limit in days, strategy 2 `intraday_momentum_breakout`
with a percentage trail and a limit in hours.

Definitions called `X_Something` and marked "Mutant" are wrong versions of a
definition `X`, each a plausible bug. Nothing uses them; replacing `X` by its
mutant makes the property named beside it in `PROJECT.json` fail.

## 3. The runs

| Run | Question | States | Result |
|---|---|---|---|
| MCShared | two strategies on one market at 08:00 and 09:00, mode and strategy switched at any time, crashes, lost file, lost answers, fills reported at 0, ATR missing | 1,879,000 | records and file agree; the engine implements StopBook |
| MCSole | one live strategy, two markets, every network fault, crashes | 489,000 | sales are covered; a cleared record leaves nothing behind; a record is opened only for what is held |
| MCBooks | both modes, pause, enable, disable, retries | 132,000 | between ticks a record exists exactly for what is held |
| MCLive | liveness with every fault, failing saves, and commands that pause and disable | 85,000 | ticks end, hard stops are honoured and orphans adopted once the engine is left watching |
| MCTelegram | four updates, a foreign one, a `/stop` and two `/briefing`, failed messages, crashes, the hourly task | 222,000 | no command is skipped or repeated in a process, all get handled; an event is lost only in the ways the code admits |
| MCRisk | three ticks, three markets, paper and live | 590,000 | no overcommitment; 70 % is overshot by 18 points at most; sizes that round to zero are the exception |
| MCOrders | a trader and two closers on one permit, every fault | 93,000 | permits, untold fills and the ledger are kept; all tasks end |
| MCFeed | a reader and a `close()` at any moment, lost connections, unreadable messages | 943 | the delay grows as it should, the reader ends, the feed resumes; after `close()` only sockets forgotten before it and one the reader was about to open are left |
| MCBacktest | all walks over six candles, with their report | 60,000 | money, losses, holding time, round trips, curve and report agree |
| MCModeSwitch | claim of GUIDE.md:934 | | violated |
| MCDrawdown | claim of GUIDE.md:528 | | violated |
| MCStop | claim of GUIDE.md:843 | | violated |

The three violations are disagreements of the code with what the repository says:

* **MCModeSwitch.** `/mode` replaces `self.executor` at once. A tick that read the
  portfolio of the paper account and waits for candles while the mode is switched
  sends to Upbit the purchase it decides on that portfolio.
* **MCDrawdown.** `peak_balance` is the total just computed, so the drawdown the
  circuit breaker sees is always zero. `daily_pnl` and `consecutive_losses` keep
  their defaults as well: of the four rules only the position size ever rejects
  (`OtherRulesNeverReject` proves it).
  (`risk.yaml` also names its limits `mdd_limit_pct` and `daily_loss_limit_pct`,
  which the rules do not read.)
* **MCStop.** `/stop` is never acknowledged, because its process makes no
  further request. Whoever starts the bot again sees it receive the same `/stop`
  and end, until Telegram drops the update.

Further disagreements that were seen while modelling and have no run of their
own. In the engine: a pause does not stop a tick in progress
(command_handler.py:508), and a restart forgets it (:503); a purchase on top of
a holding replaces its record, so the trail of the whole holding may fall
(trading_engine.py:74) and its time limit starts again (:135); the record made
up for an orphan of the daily strategy is one session old and does not force a
TIME_EXIT (:776); a price that makes a new high is sold on where the ATR is 0 and
the trail is the peak itself (:379, :429); a rejection that names a system error
would suspend a protective exit (:129), though no rule of the repository gives such
a reason; with both strategies enabled the second one recovers a record of what
the first has sold in the same tick (:365), so that `RecordsAreOfHoldings` holds for
the one strategy `strategies.yaml` enables and not for two; the hourly loop throws away a window `/briefing` started during its
message (:872); a MODIFY of the risk engine changes a copy of the signal and the
order keeps the original size (:519). A size that rounds to 0 is approved and
taken for "no size" by the paper executor, which spends 95 % of the balance
against the comment of trend_filtered_breakout.py:182: `CapUnlessZero` states
the cap with this one exception. `wait_for_fill` returns None for an order that
was filled after its last poll (order_manager.py:45); `UntoldFillTracked` says
what remains true. `close()` of the feed (upbit_websocket.py:129) leaves open every
socket an unreadable message made the reader forget, and the one a reader that was
about to connect opens afterwards; `ClosesWhatItKnows` says that it leaves no other. A backtest fills a
candle that gaps below the stop at the stop (backtest/engine.py:55), and the
"profitable trades" of its report (backtest/report.py:20) do not bear the fee of
their purchase: `BooksAgree` has that fee as a term of its own.

### Bounds, and why they are enough

* Engine runs use one or two markets and one or two strategies: markets interact
  through the order of visits and the shared portfolio only, which two show, and
  a record is shared by strategies on one market, which two show. Prices are
  two or three values that lie above and below the 5 % and 3 % stops and the
  trail of the others; ATR is a value that puts the trail between them, and in
  MCShared also 0, the indicator missing. There the hours are 8 and 9, on both
  sides of the change of session, with records of a session before that from
  recoveries; in MCBooks a step of 24 hours passes the time limits, and where no
  property is about time the hour stands still.
  `MaxLots` = 2 allows one purchase on top of a holding, `MaxTries` = 2 one
  retry. `OddFills` is the price 0 Upbit reports for a market order, in MCShared
  and MCBooks.
* MCRisk: `StartCash` = 400 units (200,000 KRW) lets three ticks invest past
  70 %, 61 makes sizes round, 12 makes an 8 % size round to zero, 0 with
  `Outside` = 40 is a balance of zero beside other coins. A paper tick whose
  balance makes a size zero is excepted (`ZeroSized`): it spends 95 % of what
  there is then, a sale of the same tick included, which may be more than was
  available at its start. With 400 and 61 no size is zero.
  `TickNeverOvercommits` holds for up to four visits; with both strategies
  enabled on three markets a tick makes six and the property does not hold. As
  shipped, `strategies.yaml` enables one strategy: three visits.
  Three ticks suffice: after each reading, only the balance and costs matter.
* MCTelegram: an answer holds two of four updates, so a batch can be cut off
  before, at and after a `/stop`. `MaxStarts` = 3 allows two crashes, exits or
  both; the last process is not interrupted. The two `/briefing` commands are
  the first and the last update, so one can meet the `/stop`; `MaxEvents` = 2 is
  one event in a message and one in the window after it.
* MCOrders: one permit and three tasks make a queue of two. `MaxRetries` = 2 gives
  a trader two attempts and so two orders, one of them unknown to it. The two
  closers overlap in `cancel_all_pending`.
* MCFeed: a `MaxDelay` of 60 is the code's own ratio of limit and base; it is
  reached after six failures, and `MaxTries` = 8 counts two more; that the count
  reaches the limit is an assumption of the module. `MaxStray` = 2
  lets two unreadable messages follow one another.
* MCBacktest: six candles hold three round trips, time exits after two bars and a
  position carried to the end; `Sizes` has none, one below the minimum order and
  one above the capital.

`CHECK_DEADLOCK FALSE` is set where the program ends (a backtest returns, a
reader, a task or an exited process does nothing more) and in the runs of
RiskGate, whose number of ticks is bounded.

### Fairness

* `TradingEngine!Fairness`. asyncio resumes a task whose await is done and every
  request ends with an answer, an error or a timeout of the client: weak fairness
  of the engine's steps. systemd restarts a crashed process: weak fairness of
  `Restart`. Strong fairness of the reads, and of a sell being filled, says that
  the network and the exchange do not fail for ever. No fairness is assumed of
  prices, time, commands or crashes; instead `HardStopHonoured` and
  `OrphansAdopted` are claimed of behaviours in which the chat in the end leaves
  the engine unpaused with a strategy enabled (`Watching`). `HardStopHonoured`
  is claimed for rejections by policy and errors of the risk engine, which are all
  there are: no rule of the repository rejects with a reason that names a system
  error. The verdict "system" is kept in the module as control flow of the code
  (trading_engine.py:659); with it the property does not hold.
* `CommandPolling!FairSpec`, `TelegramBot!BotFairSpec`. Strong fairness of
  `Polled` (polls do not fail for ever), weak fairness of the tasks' own steps
  and of the restart after a crash (`Restart=on-failure`). An operator need not
  restart a process that exited; messages may fail for ever.
* `OrderManager!FairSpec`. Weak fairness of every task's step, of the answer or
  timeout of its request, and of its deadline. Nothing is assumed of Upbit or of
  the network: `TasksEnd` holds when every request fails.
* `UpbitWebSocket!FairSpec`. Weak fairness of the reader's own steps, of a lost
  connection being noticed and of the closing handshake; strong fairness of
  connecting and subscribing, which do not fail for ever. A quiet feed need not
  send anything.

## 4. The proofs

All theorems hold for every value of the constants that the module's assumption
(`...Assumption`) admits.

| Module | Theorem | Statement |
|---|---|---|
| `TradingEngineProofs` | `TypeCorrect` | `Spec => []TypeOK` |
| | `SnapshotIsCurrent` | `Spec => []SnapshotCurrent`, if saves succeed |
| | `NewHighsReachNoStop` | `Spec => []NewHighsAreKept`: a new high reaches no stop of any record, if the ATR is not 0 |
| | `StopsOnlyEverTighten` | `Spec => StopsOnlyTighten`, the refinement of StopBook, if saves succeed |
| | `SellsAreCovered` | `Spec => []SellCovered`, for a sole strategy |
| | `NothingIsLeftUnwatched` | `Spec => NothingLeftUnwatched`, for a sole strategy |
| | `RecordsAreOfWhatIsHeld` | `Spec => RecordsAreOfHoldings`, for a sole strategy |
| | `BooksAreBalanced` | `Spec => []BooksBalance`, for a sole strategy, no lost reply and no crash |
| `TelegramBotProofs` | `TypeCorrect` | `Spec => []TypeOK`, of CommandPolling |
| | `NoCommandIsSkipped` | `Spec => []NoCommandSkipped` |
| | `ActedOnOncePerLife` | `Spec => []OncePerLife` |
| | `BotPolls` | `BotSpec => Spec`: the composition polls as CommandPolling does |
| | `BotSkipsNoCommand`, `BotActsOncePerLife` | the two theorems above, of the composition |
| | `BotTypeCorrect` | `BotSpec => []BotTypeOK` |
| | `EventsLostOnlyWhileSending` | `BotSpec => []LostOnlyWhileSending` |
| | `NoEventToldAgain` | `BotSpec => []NothingToldAgain` |
| `UpbitClientProofs` | `ClientTypeCorrect` | `ClientSpec => []ClientTypeOK` |
| | `PermitsAreKept` | `ClientSpec => []PermitsKept` |
| `OrderManagerProofs` | `OrdersUseTheClient` | `Spec => ClientSpec` |
| | `OrdersKeepPermits` | `Spec => []PermitsKept` |
| | `TypeCorrect` | `Spec => []TypeOK` |
| | `UntoldFillsStayTracked` | `Spec => []UntoldFillTracked` |
| | `OrdersKeepTheLedger` | `Spec => KeepsLedger`, the refinement of OrderLedger |
| `UpbitWebSocketProofs` | `TypeCorrect` | `Spec => []TypeOK` |
| | `DelayDoubles` | `Spec => []BackoffGrows` |
| | `OnlyTheseStayOpen` | `Spec => []ClosesWhatItKnows` |
| `BacktestProofs` | `TypeCorrect` | `Spec => []TypeOK` |
| | `LossesAreBounded` | `Spec => []LossBounded` |
| | `HoldingEndsInTime` | `Spec => []HeldWithinLimit` |
| | `CurveHasAPointPerBar` | `Spec => []OnePointPerBar` |
| | `TripsAreRound` | `Spec => []RoundTrips` |
| | `ReportBalances` | `Spec => []BooksAgree` |
| | `CurveEndsAtCapital` | `Spec => []CurveMeetsCapital` |
| | `DrawdownIsRight` | `Spec => []DrawdownIsDeepest` |
| `RiskGateProofs` | `TypeCorrect` | `Spec => []TypeOK` |
| | `CapHolds` | `Spec => []CapUnlessZero` |
| | `SpendingIsCovered` | `Spec => []TickNeverOvercommits`, up to 4 visits |
| | `OvershootIsBounded` | `Spec => []OvershootBounded`, up to 5 visits |
| | `UnknownBalanceBuysNothing` | `Spec => []NoOrderOnEmptyBalance`, if `base_capital` gives no size of zero |
| | `OtherRulesNeverReject` | three of the four rules approve every reading, if the loss guard allows one loss |

`LoopTheorems` has the lemmas on loops and sums these proofs rest on.

**TradingEngine.** The inductive invariant is `TypeOK`, `SnapshotCurrent` (where
saves succeed), `StopsBelowPeak` and `RecoverOK`. Stops lie at or below the peak only
if the file's records are as sound as those in memory, since `Restart` makes
them the records: hence the part about `Restored` in `StopsBelowPeak` and
`SnapshotCurrent` beside it. `NewHighsReachNoStop` follows from it: the peak is
raised before the trail is moved, the new trail lies below the new peak by a
percentage or by a multiple of the ATR, the old one at or below the old peak, and
the price is the new peak. Where the ATR is 0 the code does sell on a new high, and
the theorem says nothing. `RecoverOK` says that a task suspended in the
recovery of a market has no record of it, without which a recovery would replace
one. Two theorems assume `"save" \notin Faults`: with
a save that fails they are false, and the engine only promises what MCLive
checks. `Inductive` goes through the actions of `Next`; `StepRefines` maps every
step to a step of StopBook or a stutter, an action or a few at a time (`BoughtMoves`
to a `Purchase`, `EvaluationMoves` to an `Evaluate`, `RecordMoves` to a `Close` or a
`Log`, `ProcessMoves` to `Die` and `Boot`, and so on). The records alone do not
carry it: that what is recovered was read as held, that an order that sells is
for something, and that a purchase about to be logged has its record is
`LocalsOK`, an invariant of what the suspended coroutines remember.

Four theorems hold of a sole strategy s (`SoleStrategy`): no `/mode`, nothing but s
enabled at the start, and `/enable` or `/strategy` only where s is all there is.
MCSole and MCBooks satisfy this. It is needed: two strategies that hold one
portfolio both sell the same holding or recover what the other has just sold, and an order after `/mode` goes to another
account than the one that was read (MCModeSwitch). `SoleInv` follows a portfolio
through its tick. Each market is visited once, in order; so of the markets ahead
what was read is still what the account holds, or was read as nothing (`VisitOK`,
and of the market visited `HereOK`), a sell is for all of it until an attempt of it
may have been executed (`SellOK`), and after a sale nothing is left (`SoldOK`).
`BooksOK` says what every await does to records and holdings: a market has a record
exactly if it is held, except between a sale and the step that clears its record.
A purchase whose reply is lost may get no record, a sale whose reply is lost may
leave one, and a crash comes between order and record: both are excluded from
`BooksAreBalanced`, and that the engine finds such a purchase again is the liveness
property `OrphansAdopted`.

**CommandPolling.** Neither property is inductive: whether an acknowledgement
skips a command depends on the offset that is going to be sent.
`NothingPassedOver` therefore says that everything below the offset and below
the update in hand was acted on, not only what is below the acknowledgement, and
`OffsetBehind` that what this process acted on lies below its offset, except for
the update whose reply is still being sent. `AnswerOK` keeps the task inside the
answer.

**TelegramBot.** That every step of the bot is a step of CommandPolling or leaves
its variables alone carries its theorems over. `WindowsOK` adds to the two
properties where events may be: a message exists only while it is awaited, the
hourly task only while there is a process, and what came into the window since
the hourly message was built is late.

**UpbitClient and OrderManager.** `CInv`: permits free and requests in flight
add up, the queue holds every waiting task once and no other, and nobody waits
while a permit is free. OrderManager changes the client's variables only by the
client's actions, so its permits are kept too. `OInv` has a clause per task: what
each `pc` says of its order and its request (`RoleOK`), that a reply that says
"done" or "cancel" is still true when it is heard, because an order leaves those
states no more (`ReplyOK`), that an attempt not yet made and one given up but
still on its way cannot be the same order (`FreshOK`, `LateOK`), and that what
is in `_pending` exists (`TrackedOK`). With it each step is a step of OrderLedger
or a stutter.

**UpbitWebSocket.** `BackoffOK` says that the delay is one second doubled with every
attempt, up to the limit, wherever the reader is; doubling past the limit changes
nothing, because powers of two grow. `CloseOK` follows the connection `close()` found: after it
returned the connection is gone, or the reader was about to make another.

**Backtest.** `PositionOK` says what an open position looks like: its floor is
the hard-stop percentage of its price, and the last close lies above that floor.
It makes every level a sale can use, the sale after the last candle included, at
least the floor, and rounding down keeps the order. The assumption that the floor of a
purchase lies below the close it was made at (a stop of some percent, a slippage
of 0.01 %) is needed for the sale of a position bought on the last candle.
The report's sums change only when a trade is appended, and then by what it brought
(`BooksInductive`). `CurveOK` says that until the run returns the curve ends at what
the account is worth. For the drawdown `PassOK` is the invariant of the loop: after
k passes the peak is the highest of the first k points, and the worst fall is the
deepest that ends at one of them, each division by a peak included; a later peak
makes every fall deeper, so the pass need not look back further.

**RiskGate.** Rounding to the even thousand moves a size by one unit at most, so
five times a size is at most the capital and five units; the paper executor only
makes a request smaller, or replaces a size of zero. What a tick spends is bounded
by its visits so far times that (`SpentPerVisit`); the cost of all markets is at
most what was read and what was spent since (`HeldOrBought`); and the reading adds up,
so that what is available is at most the part not invested (`ReadingAddsUp`). With
four visits the fifths, and their rounding, stay within the balance, because a
purchase above the minimum order needs 45 units of it (`SpentOnBalance`).
`OtherRulesNeverReject` is the general form of what MCDrawdown shows in one
behaviour: the peak is the total just read, so the drawdown is zero.

**LoopTheorems.** The library's theorem that a recursive definition over the natural
numbers has a value takes an operator as parameter, which no backend can
instantiate. Here a run of a loop is a function on `0 .. n`, its existence and
uniqueness follow by induction, and induction is `NatSetInduction`: a set of natural
numbers that has 0 and every successor is all of them, from the well-foundedness of
`<`. A claim is proved by citing it with the set of the numbers it holds for. The
same theorem carries the sums over markets and trades, the passes of the drawdown
and the powers of two.

Only model-checked, being beyond the prover: the liveness properties `TickEnds`,
`HardStopHonoured`, `OrphansAdopted`, `EveryCommandHandled`, `EventsGetSent`,
`TasksEnd`, `ReaderEnds` and `FeedResumes`. Every invariant, action property and
refinement of the runs that pass is stated by a theorem.

## 5. Not modelled

* Whether a strategy's screens pass and what the indicators are: inputs.
  TradingEngine also takes any answer of the risk engine, and so allows more than
  RiskGate: after a failed reading, for instance, the rules reject purchases.
* `/set` and `/k`, which change parameters that are constants here, and the
  wording of messages.
* Fees and slippage below the unit of RiskGate; partial fills and limit orders;
  the average price of the paper account.
* The nonce of a token that a retry sends again, the public market queries, the
  bytes of the feed.
* The candle collector, which nothing in the repository calls. Its questions are
  about data: asked for the latest candles of a market with more of them stored,
  `fetch_historical_candles` returns the oldest ones (collector.py:93), and the
  candle still forming when it was first saved is never updated (:138).
* Sharpe ratio, CAGR and the other ratios of the report and its layout; logging,
  monitoring reports and settings.

Whether a pause should outlive the process is said nowhere in the repository: the
models restart unpaused, as the code does, and no property is about it.

## 6. What could follow

1. What two strategies on one market can still promise of a sale and of a recovery,
   and a theorem of it: `SellsAreCovered` and `RecordsAreOfWhatIsHeld` have one
   strategy.
2. The order steps of TradingEngine as a use of UpbitClient, so that one model
   has the retries of both.
3. The account a restored record was made for (`_load_positions` does not know
   it), as a property of a run with both modes.
4. DataCollector: paging, overlap of pages and duplicates over a bounded market.
