---------------------------- MODULE CommandPolling ----------------------------
(***************************************************************************)
(* How src/src/notification/command_handler.py receives commands: it polls *)
(* getUpdates with an offset that acknowledges every update below it,      *)
(* handles the updates of an answer one after the other and raises the     *)
(* offset after each.  The offset lives in memory only: a process that     *)
(* starts again asks from 0 and is given whatever Telegram still keeps.    *)
(* main.py ends the process when /stop or a signal sets stop_event.        *)
(* An update is its update_id, 1 .. N, and what it does is its kind.       *)
(***************************************************************************)
EXTENDS Integers, FiniteSetsExt

CONSTANTS
  N,          \* updates the chat sends
  Stops,      \* those that say /stop
  Foreign,    \* those of other senders, or no command: no await is reached
  Limit,      \* updates in one answer (100 at Telegram)
  MaxStarts,  \* bound on the starts of the process
  Crashes     \* whether the process may crash

ASSUME CommandPollingAssumption ==
  /\ N \in Nat /\ MaxStarts \in Nat \ {0} /\ Limit \in Nat \ {0}
  /\ Stops \subseteq 1 .. N /\ Foreign \subseteq 1 .. N
  /\ Stops \intersect Foreign = {}
  /\ Crashes \in BOOLEAN

Update == 1 .. N

VARIABLES
  sent,       \* Telegram: the updates received from users so far
  confirmed,  \* Telegram: updates below this were acknowledged and are gone
  task,       \* the polling task: "polling", "handling", "replying",
              \* "sleeping", or that of no process: "exited", "crashed"
  offset,     \* _offset
  next,       \* the update handled next or now, of an answer
  last,       \* the last update of that answer
  stopping,   \* stop_event
  starts,     \* how often the process was started
  handled,    \* history: how often each update was acted on
  life        \* history: the same in the current process

vars == <<sent, confirmed, task, offset, next, last, stopping, starts, handled, life>>

server == <<sent, confirmed>>
history == <<handled, life>>

Never == [u \in Update |-> 0]

Running == task \notin {"exited", "crashed"}

Init ==
  /\ sent = 0
  /\ confirmed = 0
  /\ task = "polling"
  /\ offset = 0
  /\ next = 1
  /\ last = 0
  /\ stopping = FALSE
  /\ starts = 1
  /\ handled = Never
  /\ life = Never

\* A message arrives at Telegram.
Send ==
  /\ sent < N
  /\ sent' = sent + 1
  /\ UNCHANGED <<confirmed, task, offset, next, last, stopping, starts, history>>

-----------------------------------------------------------------------------
(* The polling loop.  Once stop_event is set main cancels the task: it goes *)
(* no further than its next await.                                          *)

\* The request arrives: the offset acknowledges, and what is left is the answer.
Acknowledge == confirmed' = Max({confirmed, offset})

Polled ==
  /\ task = "polling"
  /\ ~stopping
  /\ Acknowledge
  /\ next' = Max({confirmed', 1})
  /\ last' = Min({sent, next' + Limit - 1})
  /\ task' = IF next' <= last' THEN "handling" ELSE "sleeping"
  /\ UNCHANGED <<sent, offset, stopping, starts, history>>

\* The request or its answer is lost: an empty list.
PollFails ==
  /\ task = "polling"
  /\ ~stopping
  /\ (Acknowledge \/ UNCHANGED confirmed)
  /\ task' = "sleeping"
  /\ UNCHANGED <<sent, offset, next, last, stopping, starts, history>>

Act(u) ==
  /\ handled' = [handled EXCEPT ![u] = @ + 1]
  /\ life' = [life EXCEPT ![u] = @ + 1]

\* Mutant: the offset is one too far.
Advance_TooFar ==
  /\ offset' = next + 2
  /\ next' = next + 1
  /\ task' = IF next < last THEN "handling" ELSE "sleeping"

\* Mutant: the offset is the update just handled, not the one after it.
Advance_SameUpdate ==
  /\ offset' = next
  /\ next' = next + 1
  /\ task' = IF next < last THEN "handling" ELSE "sleeping"

Advance ==
  /\ offset' = next + 1
  /\ next' = next + 1
  /\ task' = IF next < last THEN "handling" ELSE "sleeping"

\* A handler changes the engine and then awaits its reply; /stop replies first.
\* An update that is no command of the owner is passed over.
Handle ==
  /\ task = "handling"
  /\ IF next \in Foreign
     THEN Act(next) /\ Advance
     ELSE /\ task' = "replying"
          /\ IF next \in Stops THEN UNCHANGED history ELSE Act(next)
          /\ UNCHANGED <<offset, next>>
  /\ UNCHANGED <<server, last, stopping, starts>>

\* The reply was sent, or failed quietly; /stop sets stop_event.
Replied ==
  /\ task = "replying"
  /\ ~stopping
  /\ IF next \in Stops
     THEN Act(next) /\ stopping' = TRUE
     ELSE UNCHANGED <<history, stopping>>
  /\ Advance
  /\ UNCHANGED <<server, last, starts>>

\* Mutant: the loop ends when a poll brought nothing.
Wake_Ends ==
  /\ task = "sleeping"
  /\ ~stopping
  /\ task' = IF next > last THEN "sleeping" ELSE "polling"
  /\ UNCHANGED <<server, offset, next, last, stopping, starts, history>>

Wake ==
  /\ task = "sleeping"
  /\ ~stopping
  /\ task' = "polling"
  /\ UNCHANGED <<server, offset, next, last, stopping, starts, history>>

-----------------------------------------------------------------------------
(* The process.                                                            *)

\* SIGINT or SIGTERM.
Signal ==
  /\ Running
  /\ ~stopping
  /\ starts < MaxStarts
  /\ stopping' = TRUE
  /\ UNCHANGED <<server, task, offset, next, last, starts, history>>

\* The task is cancelled at its await and the process ends with status 0.
Exit ==
  /\ stopping
  /\ task \in {"polling", "replying", "sleeping"}
  /\ task' = "exited"
  /\ UNCHANGED <<server, offset, next, last, stopping, starts, history>>

Crash ==
  /\ Crashes
  /\ Running
  /\ starts < MaxStarts
  /\ task' = "crashed"
  /\ UNCHANGED <<server, offset, next, last, stopping, starts, history>>

Fresh(from) ==
  /\ starts < MaxStarts
  /\ starts' = starts + 1
  /\ task' = "polling"
  /\ offset' = from
  /\ next' = 1
  /\ last' = 0
  /\ stopping' = FALSE
  /\ life' = Never
  /\ UNCHANGED <<server, handled>>

\* Mutant: a process that starts skips the updates that are waiting.
Start_DropsPending(ended) == task = ended /\ Fresh(sent + 1)

\* systemd restarts what crashed, the operator what exited.
Start(ended) == task = ended /\ Fresh(0)

Next ==
  \/ Send
  \/ Polled \/ PollFails \/ Handle \/ Replied \/ Wake
  \/ Signal \/ Exit \/ Crash
  \/ \E ended \in {"exited", "crashed"} : Start(ended)

Spec == Init /\ [][Next]_vars

\* Polls do not fail for ever, a task is resumed after its await, and systemd
\* restarts a crashed process (Restart=on-failure); nobody need restart one that
\* exited.
Fairness ==
  /\ SF_vars(Polled)
  /\ WF_vars(Handle) /\ WF_vars(Replied) /\ WF_vars(Wake) /\ WF_vars(Exit)
  /\ WF_vars(Start("crashed"))

FairSpec == Spec /\ Fairness

-----------------------------------------------------------------------------
TypeOK ==
  /\ sent \in 0 .. N
  /\ confirmed \in 0 .. N + 1
  /\ task \in {"polling", "handling", "replying", "sleeping", "exited", "crashed"}
  /\ offset \in 0 .. N + 1
  /\ next \in 1 .. N + 1
  /\ last \in 0 .. N
  /\ stopping \in BOOLEAN
  /\ starts \in 1 .. MaxStarts
  /\ handled \in [Update -> Nat]
  /\ life \in [Update -> Nat]

\* Across crashes and restarts no command is skipped: what Telegram has thrown
\* away was acted on, and so was everything before an update acted on.
NoCommandSkipped ==
  \A u \in Update :
    u < confirmed \/ (\E v \in Update : u < v /\ handled[v] > 0) => handled[u] > 0

\* Within one process no update is acted on twice, though lost answers make it
\* ask for the same updates again.
OncePerLife == \A u \in Update : life[u] <= 1

\* An update sent before any /stop is acted on, unless somebody ends the
\* process: crashes and lost polls only delay it.
EveryCommandHandled ==
  \A u \in Update :
    (\A v \in 1 .. u - 1 : v \notin Stops)
      => (sent >= u ~> handled[u] > 0 \/ task = "exited")

\* "/stop: ends the bot (must be restarted on the server)" (GUIDE.md:843): one
\* /stop ends one process.
StopEndsOneProcess == \A u \in Stops : handled[u] <= 1

=============================================================================
