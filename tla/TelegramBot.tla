------------------------------ MODULE TelegramBot ------------------------------
(***************************************************************************)
(* CommandPolling together with the reports of the engine: the statistics  *)
(* window of src/src/core/trading_engine.py, the hourly task, which sends  *)
(* the window first and resets it afterwards, and the command /briefing,   *)
(* which swaps the window before it sends.  The trading loop records       *)
(* events (an error, a trade, a HOLD reason) in the current window; an     *)
(* event is its number, a window or a message the set of its events.       *)
(* The notifier tries every message once and never raises.                 *)
(***************************************************************************)
EXTENDS CommandPolling

CONSTANTS
  Briefings,  \* the updates that say /briefing
  MaxEvents   \* bound on the events recorded

ASSUME TelegramBotAssumption ==
  /\ Briefings \subseteq Update \ (Stops \union Foreign)
  /\ MaxEvents \in Nat

VARIABLES
  events,  \* how many events were recorded so far
  stats,   \* the events in the window _hourly_stats refers to
  loop,    \* the hourly task: "sleeping", "sending" or, without process, "ended"
  hourly,  \* the events in the message of the hourly task that is being sent
  manual,  \* those in the message of a /briefing that is being sent
  told,    \* history: events in a message that arrived
  late,    \* history: events recorded while the hourly message was being sent
  missed   \* history: events in a message that failed or a process that ended

reports == <<events, stats, loop, hourly, manual, told, late, missed>>
botVars == <<vars, reports>>

BotInit ==
  /\ Init
  /\ events = 0
  /\ loop = "sleeping"
  /\ stats = {} /\ hourly = {} /\ manual = {}
  /\ told = {} /\ late = {} /\ missed = {}

\* TelegramNotifier.send: one attempt; a failure is logged and nothing else.
Outcome(message) ==
  \/ told' = told \union message /\ UNCHANGED missed
  \/ missed' = missed \union message /\ UNCHANGED told

-----------------------------------------------------------------------------
(* The engine's tasks.                                                     *)

\* _tick and _evaluate add to the current window.
Record ==
  /\ Running
  /\ events < MaxEvents
  /\ events' = events + 1
  /\ stats' = stats \union {events'}
  /\ late' = IF loop = "sending" THEN late \union {events'} ELSE late
  /\ UNCHANGED <<vars, loop, hourly, manual, told, missed>>

\* The hour is over: the message is built and its delivery awaited.
LoopSends ==
  /\ loop = "sleeping"
  /\ loop' = "sending"
  /\ hourly' = stats
  /\ UNCHANGED <<vars, events, stats, manual, told, late, missed>>

\* Mutant: the hourly task ends with its first message.
LoopResets_Exits ==
  /\ loop = "sending"
  /\ Outcome(hourly)
  /\ hourly' = {}
  /\ stats' = {}
  /\ loop' = "ended"
  /\ UNCHANGED <<vars, events, manual, late>>

\* Delivered or not, the window that is current by now is thrown away.
LoopResets ==
  /\ loop = "sending"
  /\ Outcome(hourly)
  /\ hourly' = {}
  /\ stats' = {}
  /\ loop' = "sleeping"
  /\ UNCHANGED <<vars, events, manual, late>>

-----------------------------------------------------------------------------
(* What the steps of CommandPolling mean for the reports.                  *)

\* Mutant: the window is swapped by /briefing before it is read.
SwapWindow_First ==
  /\ manual' = {}
  /\ stats' = {}
  /\ UNCHANGED <<events, loop, hourly, told, late, missed>>

\* Mutant: /briefing leaves the reset to the hourly task.
SwapWindow_Keeps ==
  /\ manual' = stats
  /\ UNCHANGED <<events, stats, loop, hourly, told, late, missed>>

\* send_briefing_now: swap, then send the old window.
SwapWindow ==
  /\ manual' = stats
  /\ stats' = {}
  /\ UNCHANGED <<events, loop, hourly, told, late, missed>>

HandleCommand ==
  /\ Handle
  /\ IF next \in Briefings THEN SwapWindow ELSE UNCHANGED reports

ReplySent ==
  /\ Replied
  /\ manual' = {}
  /\ Outcome(manual)
  /\ UNCHANGED <<events, stats, loop, hourly, late>>

\* The window and the messages on their way end with the process.
ProcessEnds ==
  /\ Exit \/ Crash
  /\ missed' = missed \union stats \union hourly \union manual
  /\ stats' = {} /\ hourly' = {} /\ manual' = {}
  /\ loop' = "ended"
  /\ UNCHANGED <<events, told, late>>

ProcessStarts ==
  /\ \E ended \in {"exited", "crashed"} : Start(ended)
  /\ loop' = "sleeping"
  /\ UNCHANGED <<events, stats, hourly, manual, told, late, missed>>

BotNext ==
  \/ Record \/ LoopSends \/ LoopResets
  \/ HandleCommand \/ ReplySent \/ ProcessEnds \/ ProcessStarts
  \/ (Send \/ Polled \/ PollFails \/ Wake \/ Signal) /\ UNCHANGED reports

BotSpec == BotInit /\ [][BotNext]_botVars

\* The hourly task is resumed when its sleep or its message is over.
BotFairSpec == BotSpec /\ Fairness /\ WF_botVars(LoopSends \/ LoopResets)

-----------------------------------------------------------------------------
BotTypeOK ==
  /\ TypeOK
  /\ events \in 0 .. MaxEvents
  /\ loop \in {"sleeping", "sending", "ended"}
  /\ \A s \in {stats, hourly, manual, told, late, missed} : s \subseteq 1 .. events

\* However the hourly task, /briefing, crashes and the trading loop interleave,
\* every event is in the window, on its way or told, unless it was recorded
\* while the hourly message was being sent, was in a message that failed or was
\* still untold when its process ended: no other reset throws an event away.
LostOnlyWhileSending ==
  \A e \in 1 .. events :
    e \in stats \union hourly \union manual \union told \union late \union missed

\* What was told, or swapped out by /briefing, is in no later window: an event is
\* told twice only by an hourly message and a /briefing that overlap.
NothingToldAgain == stats \intersect (manual \union told) = {}

\* An event in a window is told, or lost in one of the ways above: the hourly
\* task goes on after failed messages, manual briefings and restarts.
EventsGetSent ==
  \A e \in 1 .. MaxEvents : e \in stats ~> e \in told \union late \union missed

=============================================================================
