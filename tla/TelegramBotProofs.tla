--------------------------- MODULE TelegramBotProofs ---------------------------
(***************************************************************************)
(* Proofs about CommandPolling and TelegramBot.  Whatever is lost, crashes *)
(* or is restarted, the polling skips no command, and no process acts on   *)
(* one twice.  The composed bot still polls as CommandPolling does, so     *)
(* what is proved of that module holds of it too; and the resets of the    *)
(* statistics window by the hourly task, /briefing and the end of a        *)
(* process lose no event but the three kinds named.                        *)
(***************************************************************************)
EXTENDS TelegramBot, TLAPS

-----------------------------------------------------------------------------
(* Polling.                                                                *)
\* The larger of two numbers, as an acknowledgement computes it.
LEMMA LargerOfTwo ==
  ASSUME NEW a \in Int, NEW b \in Int
  PROVE  Max({a, b}) = IF a >= b THEN a ELSE b
<1>1. CASE a >= b  BY <1>1 DEF Max
<1>2. CASE a < b   BY <1>2 DEF Max
<1>. QED  BY <1>1, <1>2

\* The smaller of two numbers: where an answer ends.
LEMMA SmallerOfTwo ==
  ASSUME NEW a \in Int, NEW b \in Int
  PROVE  Min({a, b}) = IF a <= b THEN a ELSE b
<1>1. CASE a <= b  BY <1>1 DEF Min
<1>2. CASE a > b   BY <1>2 DEF Min
<1>. QED  BY <1>1, <1>2

-----------------------------------------------------------------------------
(* The inductive invariant.                                                *)

\* The task is at an update of an answer.
AtUpdate == task \in {"handling", "replying"}

\* An answer lies within what was sent, and the task within the answer.
AnswerOK ==
  /\ last <= sent
  /\ (AtUpdate => next <= last)

\* What lies below a number was acted on.
ActedBelow(n) == \A u \in Update : u < n => handled[u] > 0

\* Everything the offset, the acknowledgements or the task have passed was acted
\* on, and what was acted on has no gaps.
NothingPassedOver ==
  /\ ActedBelow(confirmed)
  /\ ActedBelow(offset)
  /\ (AtUpdate => ActedBelow(next))
  /\ (task = "replying" /\ next \notin Stops => handled[next] > 0)
  /\ \A v \in Update : handled[v] > 0 => ActedBelow(v)

\* What the running process acted on is below its offset, but for the update
\* whose reply is being sent; the task is never below the offset.
OffsetBehind ==
  /\ (AtUpdate => offset <= next)
  /\ \A u \in Update :
       Running /\ life[u] > 0 => u < offset \/ (task = "replying" /\ u = next /\ next \notin Stops)

IInv == TypeOK /\ AnswerOK /\ NothingPassedOver /\ OffsetBehind /\ OncePerLife

-----------------------------------------------------------------------------
LEMMA InitInvariant == Init => IInv
<1>. SUFFICES ASSUME Init PROVE IInv
  OBVIOUS
<1>1. /\ handled \in [Update -> Nat] /\ life \in [Update -> Nat]
      /\ \A u \in Update : handled[u] = 0 /\ life[u] = 0
  BY DEF Init, Never
<1>2. TypeOK
  <2>1. sent \in 0 .. N /\ confirmed \in 0 .. N + 1 /\ starts \in 1 .. MaxStarts
    BY CommandPollingAssumption DEF Init
  <2>2. offset \in 0 .. N + 1 /\ next \in 1 .. N + 1 /\ last \in 0 .. N
    BY CommandPollingAssumption DEF Init
  <2>3. /\ stopping \in BOOLEAN
        /\ task \in {"polling", "handling", "replying", "sleeping", "exited", "crashed"}
    BY DEF Init
  <2>. QED  BY <1>1, <2>1, <2>2, <2>3 DEF TypeOK
<1>3. AnswerOK
  BY DEF Init, AnswerOK, AtUpdate
<1>4. NothingPassedOver
  BY <1>1 DEF Init, NothingPassedOver, AtUpdate, ActedBelow, Update
<1>5. OffsetBehind /\ OncePerLife
  BY <1>1 DEF Init, OffsetBehind, AtUpdate, OncePerLife
<1>. QED  BY <1>2, <1>3, <1>4, <1>5 DEF IInv

\* An answer starts at the first update that is not acknowledged.
LEMMA PolledKeeps == ASSUME IInv, Polled PROVE IInv'
<1>1. confirmed \in Int /\ offset \in Int /\ sent \in Int /\ Limit \in Int
  BY CommandPollingAssumption DEF IInv, TypeOK
<1>2. confirmed' = IF confirmed >= offset THEN confirmed ELSE offset
  BY <1>1, LargerOfTwo DEF Polled, Acknowledge
<1>3. confirmed' \in Int
  BY <1>1, <1>2
<1>4. next' = IF confirmed' >= 1 THEN confirmed' ELSE 1
  <2>1. Max({confirmed', 1}) = IF confirmed' >= 1 THEN confirmed' ELSE 1
    BY <1>3, LargerOfTwo
  <2>. QED  BY <2>1 DEF Polled
<1>5. last' = IF sent <= next' + Limit - 1 THEN sent ELSE next' + Limit - 1
  <2>1. next' + Limit - 1 \in Int
    BY <1>1, <1>3, <1>4
  <2>2. Min({sent, next' + Limit - 1})
          = IF sent <= next' + Limit - 1 THEN sent ELSE next' + Limit - 1
    BY <1>1, <2>1, SmallerOfTwo
  <2>. QED  BY <2>2 DEF Polled
<1>. USE CommandPollingAssumption DEF IInv, TypeOK, Polled, server, history
<1>6. TypeOK'
  <2>1. confirmed' \in 0 .. N + 1 /\ sent' \in 0 .. N
    BY <1>2
  <2>2. next' \in 1 .. N + 1
    BY <1>4, <2>1
  <2>3. last' \in 0 .. N
    BY <1>5, <2>2
  <2>4. offset' \in 0 .. N + 1 /\ starts' \in 1 .. MaxStarts /\ stopping' \in BOOLEAN
    OBVIOUS
  <2>5. task' \in {"polling", "handling", "replying", "sleeping", "exited", "crashed"}
    OBVIOUS
  <2>6. handled' \in [Update -> Nat] /\ life' \in [Update -> Nat]
    OBVIOUS
  <2>. QED  BY <2>1, <2>2, <2>3, <2>4, <2>5, <2>6 DEF TypeOK
<1>7. AnswerOK' /\ OncePerLife'
  BY <1>2, <1>4, <1>5 DEF AnswerOK, AtUpdate, OncePerLife
<1>8. NothingPassedOver'
  <2>1. handled' = handled /\ offset' = offset /\ task' # "replying"
    OBVIOUS
  <2>2. ActedBelow(confirmed)'
    BY <1>2, <2>1 DEF NothingPassedOver, ActedBelow
  <2>3. ActedBelow(offset)' /\ (\A v \in Update : handled[v] > 0 => ActedBelow(v))'
    BY <2>1 DEF NothingPassedOver, ActedBelow
  <2>4. ActedBelow(next)'
    BY <1>3, <1>4, <2>2 DEF ActedBelow, Update
  <2>. QED  BY <2>1, <2>2, <2>3, <2>4 DEF NothingPassedOver
<1>9. OffsetBehind'
  <2>1. offset' = offset /\ offset <= next'
    <3>1. offset <= confirmed'  BY <1>1, <1>2
    <3>2. confirmed' <= next'   BY <1>3, <1>4
    <3>3. offset' = offset      OBVIOUS
    <3>4. next' \in Int         BY <1>3, <1>4
    <3>. QED  BY <1>1, <1>3, <3>1, <3>2, <3>3, <3>4
  <2>2. life' = life /\ Running /\ task # "replying"
    BY DEF Running
  <2>3. \A u \in Update : life[u] > 0 => u < offset
    BY <2>2 DEF OffsetBehind
  <2>. QED  BY <2>1, <2>2, <2>3 DEF OffsetBehind
<1>. QED  BY <1>6, <1>7, <1>8, <1>9

\* A lost answer may have acknowledged all the same.
LEMMA PollFailsKeeps == ASSUME IInv, PollFails PROVE IInv'
<1>1. confirmed' \in {confirmed, offset}
  <2>1. confirmed \in Int /\ offset \in Int
    BY DEF IInv, TypeOK
  <2>. QED  BY <2>1, LargerOfTwo DEF PollFails, Acknowledge
<1>. USE CommandPollingAssumption DEF IInv, TypeOK, PollFails, server, history
<1>2. TypeOK'
  BY <1>1
<1>3. AnswerOK' /\ OncePerLife'
  BY DEF AnswerOK, AtUpdate, OncePerLife
<1>4. NothingPassedOver'
  BY <1>1 DEF NothingPassedOver, ActedBelow, AtUpdate
<1>5. OffsetBehind'
  BY DEF OffsetBehind, AtUpdate, Running
<1>. QED  BY <1>2, <1>3, <1>4, <1>5

\* Acting on the update the task is at leaves no gap and is its first time in
\* this process.
LEMMA ActKeeps ==
  ASSUME IInv, AtUpdate, Act(next), task = "replying" => next \in Stops
  PROVE  /\ handled' \in [Update -> Nat] /\ life' \in [Update -> Nat]
         /\ \A u \in Update : u <= next => handled'[u] > 0
         /\ \A v \in Update : handled'[v] > 0 => (\A u \in Update : u < v => handled'[u] > 0)
         /\ \A u \in Update : life'[u] <= 1
         /\ \A u \in Update : life'[u] > 0 => u <= next
<1>. USE CommandPollingAssumption
     DEF IInv, TypeOK, Act, AtUpdate, AnswerOK, Update, Running
<1>1. next \in Update
  OBVIOUS
<1>2. /\ handled' \in [Update -> Nat]
      /\ life' \in [Update -> Nat]
      /\ handled'[next] = handled[next] + 1
      /\ life'[next] = life[next] + 1
      /\ \A u \in Update \ {next} : handled'[u] = handled[u] /\ life'[u] = life[u]
  <2>1. /\ handled' \in [Update -> Nat]
        /\ handled'[next] = handled[next] + 1
        /\ \A u \in Update \ {next} : handled'[u] = handled[u]
    BY <1>1
  <2>2. /\ life' \in [Update -> Nat]
        /\ life'[next] = life[next] + 1
        /\ \A u \in Update \ {next} : life'[u] = life[u]
    BY <1>1
  <2>. QED  BY <2>1, <2>2
<1>3. ~(life[next] > 0)
  BY <1>1 DEF OffsetBehind
<1>4. \A u \in Update : life[u] > 0 => u <= next
  BY <1>1 DEF OffsetBehind
<1>5. \A u \in Update : u < next => handled[u] > 0
  BY DEF NothingPassedOver, ActedBelow
<1>6. \A u \in Update : u <= next => handled'[u] > 0
  BY <1>1, <1>2, <1>5
<1>7. \A v \in Update : handled'[v] > 0
        => (\A u \in Update : u < v => handled'[u] > 0)
  BY <1>1, <1>2, <1>6 DEF NothingPassedOver, ActedBelow
<1>8. \A u \in Update : life'[u] <= 1
  BY <1>1, <1>2, <1>3 DEF OncePerLife
<1>9. \A u \in Update : life'[u] > 0 => u <= next
  BY <1>1, <1>2, <1>4
<1>. QED  BY <1>2, <1>6, <1>7, <1>8, <1>9

\* Having acted on the update the task moves past it.
LEMMA AdvanceKeeps ==
  ASSUME IInv, AtUpdate, task = "replying" => next \in Stops,
         Act(next), Advance, stopping' \in BOOLEAN, UNCHANGED <<server, last, starts>>
  PROVE  IInv'
<1>. USE CommandPollingAssumption DEF IInv, TypeOK, Advance, server, Update
<1>1. next \in Update
  BY DEF AnswerOK
<1>2. TypeOK' /\ OncePerLife'
  BY <1>1, ActKeeps DEF OncePerLife, AtUpdate
<1>3. AnswerOK'
  BY <1>1 DEF AnswerOK, AtUpdate
<1>4. NothingPassedOver'
  BY <1>1, ActKeeps DEF NothingPassedOver, ActedBelow, AtUpdate, Act
<1>5. OffsetBehind'
  BY <1>1, ActKeeps DEF OffsetBehind, AtUpdate, Running
<1>. QED  BY <1>2, <1>3, <1>4, <1>5

LEMMA HandleKeeps == ASSUME IInv, Handle PROVE IInv'
<1>. USE CommandPollingAssumption DEF IInv, TypeOK, Handle, server, history, Update
<1>1. CASE next \in Foreign
  <2>1. Act(next) /\ Advance /\ UNCHANGED <<server, last, stopping, starts>>
    BY <1>1
  <2>. QED  BY <2>1, AdvanceKeeps DEF AtUpdate
<1>2. CASE next \in Stops
  <2>1. /\ task' = "replying"
        /\ UNCHANGED <<server, last, stopping, starts, offset, next, history>>
    BY <1>2
  <2>. QED
    BY <1>2, <2>1
    DEF AnswerOK, NothingPassedOver, ActedBelow, OffsetBehind, OncePerLife, AtUpdate, Running
<1>3. CASE next \notin Foreign /\ next \notin Stops
  <2>1. /\ Act(next)
        /\ task' = "replying"
        /\ UNCHANGED <<server, last, stopping, starts, offset, next>>
    BY <1>3
  <2>2. AtUpdate /\ (task = "replying" => next \in Stops)
    BY DEF AtUpdate
  <2>3. next \in Update
    BY <2>2 DEF AnswerOK
  <2>4. TypeOK' /\ OncePerLife'
    BY <2>1, <2>2, ActKeeps DEF OncePerLife
  <2>5. AnswerOK'
    BY <2>1, <2>2 DEF AnswerOK, AtUpdate
  <2>6. NothingPassedOver'
    <3>1. ActedBelow(confirmed)' /\ ActedBelow(offset)' /\ ActedBelow(next)'
      BY <2>1, <2>2, <2>3, ActKeeps DEF NothingPassedOver, ActedBelow, OffsetBehind, Act
    <3>2. handled'[next] > 0
      BY <2>2, <2>1, <2>3, ActKeeps
    <3>3. (\A v \in Update : handled[v] > 0 => ActedBelow(v))'
      BY <2>1, <2>2, ActKeeps DEF ActedBelow
    <3>. QED  BY <2>1, <3>1, <3>2, <3>3 DEF NothingPassedOver
  <2>7. OffsetBehind'
    <3>1. offset' <= next'
      BY <2>1, <2>2 DEF OffsetBehind
    <3>2. \A u \in Update : life'[u] > 0 => u < offset' \/ u = next'
      BY <1>3, <2>1, <2>2, <2>3 DEF OffsetBehind, Act, Running
    <3>. QED  BY <1>3, <2>1, <3>1, <3>2 DEF OffsetBehind
  <2>. QED  BY <2>4, <2>5, <2>6, <2>7
<1>. QED  BY <1>1, <1>2, <1>3

LEMMA RepliedKeeps == ASSUME IInv, Replied PROVE IInv'
<1>. USE CommandPollingAssumption DEF IInv, TypeOK, Replied, server, history, Update
<1>1. CASE next \in Stops
  <2>1. /\ Act(next) /\ Advance /\ stopping' = TRUE
        /\ UNCHANGED <<server, last, starts>>
    BY <1>1
  <2>. QED  BY <1>1, <2>1, AdvanceKeeps DEF AtUpdate
<1>2. CASE next \notin Stops
  <2>1. Advance /\ UNCHANGED <<server, last, starts, history, stopping>>
    BY <1>2
  <2>2. next \in Update /\ handled[next] > 0
    BY <1>2 DEF AnswerOK, NothingPassedOver, AtUpdate
  <2>3. TypeOK' /\ AnswerOK' /\ OncePerLife'
    BY <2>1, <2>2 DEF Advance, AnswerOK, OncePerLife, AtUpdate
  <2>4. NothingPassedOver'
    BY <2>1, <2>2 DEF Advance, NothingPassedOver, ActedBelow, AtUpdate
  <2>5. OffsetBehind'
    BY <2>1, <2>2 DEF Advance, OffsetBehind, AtUpdate, Running
  <2>. QED  BY <2>3, <2>4, <2>5
<1>. QED  BY <1>1, <1>2

\* A process that ends keeps nothing, and one that starts has acted on nothing.
LEMMA StartKeeps ==
  ASSUME IInv, NEW ended \in {"exited", "crashed"}, Start(ended) PROVE IInv'
<1>1. /\ life' \in [Update -> Nat]
      /\ \A u \in Update : life'[u] = 0
  BY DEF Start, Fresh, Never
<1>. USE CommandPollingAssumption DEF IInv, TypeOK, Start, Fresh, server
<1>2. TypeOK'
  <2>1. sent' \in 0 .. N /\ confirmed' \in 0 .. N + 1
    OBVIOUS
  <2>2. starts' \in 1 .. MaxStarts
    OBVIOUS
  <2>3. offset' \in 0 .. N + 1 /\ next' \in 1 .. N + 1 /\ last' \in 0 .. N
    OBVIOUS
  <2>4. /\ stopping' \in BOOLEAN
        /\ task' \in {"polling", "handling", "replying", "sleeping", "exited", "crashed"}
    OBVIOUS
  <2>5. handled' \in [Update -> Nat]
    OBVIOUS
  <2>. QED  BY <1>1, <2>1, <2>2, <2>3, <2>4, <2>5 DEF TypeOK
<1>3. AnswerOK' /\ OncePerLife'
  BY <1>1 DEF AnswerOK, AtUpdate, OncePerLife
<1>4. NothingPassedOver'
  BY DEF NothingPassedOver, ActedBelow, AtUpdate, Update
<1>5. OffsetBehind'
  BY <1>1 DEF OffsetBehind, AtUpdate
<1>. QED  BY <1>2, <1>3, <1>4, <1>5

\* Only the task's place changes, or what users sent.
LEMMA OthersKeep ==
  ASSUME IInv, Send \/ Wake \/ Signal \/ Exit \/ Crash \/ UNCHANGED vars PROVE IInv'
<1>. USE CommandPollingAssumption
     DEF IInv, TypeOK, server, history, AnswerOK, NothingPassedOver, ActedBelow,
         OffsetBehind, OncePerLife, AtUpdate, Running, Update
<1>1. CASE Send   BY <1>1 DEF Send
<1>2. CASE Wake   BY <1>2 DEF Wake
<1>3. CASE Signal BY <1>3 DEF Signal
<1>4. CASE Exit   BY <1>4 DEF Exit
<1>5. CASE Crash  BY <1>5 DEF Crash
<1>6. CASE UNCHANGED vars BY <1>6 DEF vars
<1>. QED  BY <1>1, <1>2, <1>3, <1>4, <1>5, <1>6

LEMMA Inductive == IInv /\ [Next]_vars => IInv'
<1>. SUFFICES ASSUME IInv, [Next]_vars PROVE IInv'
  OBVIOUS
<1>1. CASE Polled     BY <1>1, PolledKeeps
<1>2. CASE PollFails  BY <1>2, PollFailsKeeps
<1>3. CASE Handle     BY <1>3, HandleKeeps
<1>4. CASE Replied    BY <1>4, RepliedKeeps
<1>5. CASE \E ended \in {"exited", "crashed"} : Start(ended)
  BY <1>5, StartKeeps
<1>6. CASE Send \/ Wake \/ Signal \/ Exit \/ Crash \/ UNCHANGED vars
  BY <1>6, OthersKeep
<1>. QED  BY <1>1, <1>2, <1>3, <1>4, <1>5, <1>6 DEF Next

LEMMA Invariance == Spec => []IInv
BY InitInvariant, Inductive, PTL DEF Spec

-----------------------------------------------------------------------------
\* CommandPolling: the variables have their types, for any number of updates.
THEOREM TypeCorrect == Spec => []TypeOK
<1>1. IInv => TypeOK
  BY DEF IInv
<1>. QED  BY <1>1, Invariance, PTL

\* No command is skipped, however often the process crashes or is restarted.
THEOREM NoCommandIsSkipped == Spec => []NoCommandSkipped
<1>1. IInv => NoCommandSkipped
  BY DEF IInv, NothingPassedOver, ActedBelow, NoCommandSkipped
<1>. QED  BY <1>1, Invariance, PTL

\* A process acts on no update twice, however many answers are lost.
THEOREM ActedOnOncePerLife == Spec => []OncePerLife
<1>1. IInv => OncePerLife
  BY DEF IInv
<1>. QED  BY <1>1, Invariance, PTL

-----------------------------------------------------------------------------
(* The composed system implements CommandPolling.                          *)

LEMMA StepPolls == [BotNext]_botVars => [Next]_vars
<1>. SUFFICES ASSUME [BotNext]_botVars PROVE [Next]_vars
  OBVIOUS
<1>1. CASE Record \/ LoopSends \/ LoopResets
  BY <1>1 DEF Record, LoopSends, LoopResets
<1>2. CASE HandleCommand  BY <1>2 DEF HandleCommand, Next
<1>3. CASE ReplySent      BY <1>3 DEF ReplySent, Next
<1>4. CASE ProcessEnds    BY <1>4 DEF ProcessEnds, Next
<1>5. CASE ProcessStarts  BY <1>5 DEF ProcessStarts, Next
<1>6. CASE (Send \/ Polled \/ PollFails \/ Wake \/ Signal) /\ UNCHANGED reports
  BY <1>6 DEF Next
<1>7. CASE UNCHANGED botVars
  BY <1>7 DEF botVars
<1>. QED  BY <1>1, <1>2, <1>3, <1>4, <1>5, <1>6, <1>7 DEF BotNext

\* Whatever the hourly task and the trading loop do next to it, the bot receives
\* commands as CommandPolling says: every step of it is one of that module or a
\* stutter.
THEOREM BotPolls == BotSpec => Spec
<1>1. BotInit => Init
  BY DEF BotInit
<1>. QED  BY <1>1, StepPolls, PTL DEF BotSpec, Spec

\* In the composed system too no command is skipped across crashes and restarts.
THEOREM BotSkipsNoCommand == BotSpec => []NoCommandSkipped
BY BotPolls, NoCommandIsSkipped, PTL

\* In the composed system too no process acts on a command twice.
THEOREM BotActsOncePerLife == BotSpec => []OncePerLife
BY BotPolls, ActedOnOncePerLife, PTL

-----------------------------------------------------------------------------
(* The reports.                                                            *)

Messages == stats \union hourly \union manual

ReportsTypeOK ==
  /\ events \in 0 .. MaxEvents
  /\ loop \in {"sleeping", "sending", "ended"}
  /\ \A s \in {stats, hourly, manual, told, late, missed} : s \subseteq 1 .. events

\* A message exists only while it is awaited, the hourly task only while there is a
\* process, and what came into the window since its message was built is late.
WindowsOK ==
  /\ (~Running => loop = "ended")
  /\ (loop # "sending" => hourly = {})
  /\ (loop = "sending" => stats \subseteq hourly \union late)
  /\ (task # "replying" => manual = {})

RInv == ReportsTypeOK /\ WindowsOK /\ LostOnlyWhileSending /\ NothingToldAgain

LEMMA ReportsInit == BotInit => RInv
BY TelegramBotAssumption
DEF BotInit, Init, Running, RInv, ReportsTypeOK, WindowsOK, LostOnlyWhileSending,
    NothingToldAgain

\* A new event is in no message yet.
LEMMA RecordKeeps == ASSUME RInv, Record PROVE RInv'
<1>. USE TelegramBotAssumption DEF RInv, ReportsTypeOK, Record, vars
<1>1. events' = events + 1 /\ events' \in 0 .. MaxEvents /\ events \in Nat
  OBVIOUS
<1>2. /\ stats' = stats \union {events'}
      /\ late' \in {late, late \union {events'}}
      /\ (loop = "sending" => late' = late \union {events'})
      /\ UNCHANGED <<task, loop, hourly, manual, told, missed>>
  OBVIOUS
<1>3. ReportsTypeOK'
  <2>1. \A e \in 1 .. events : e \in 1 .. events'
    BY <1>1
  <2>2. events' \in 1 .. events'
    BY <1>1
  <2>3. \A s \in {stats, hourly, manual, told, late, missed} : s \subseteq 1 .. events'
    BY <2>1
  <2>4. stats' \subseteq 1 .. events' /\ late' \subseteq 1 .. events'
    BY <1>2, <2>2, <2>3
  <2>5. /\ hourly' \subseteq 1 .. events' /\ manual' \subseteq 1 .. events'
        /\ told' \subseteq 1 .. events' /\ missed' \subseteq 1 .. events'
    BY <1>2, <2>3
  <2>. QED  BY <1>1, <1>2, <2>4, <2>5
<1>4. WindowsOK'
  BY <1>2 DEF WindowsOK, Running
<1>5. LostOnlyWhileSending'
  BY <1>1, <1>2 DEF LostOnlyWhileSending
<1>6. NothingToldAgain'
  <2>1. events' \notin manual \union told
    BY <1>1
  <2>. QED  BY <1>2, <2>1 DEF NothingToldAgain
<1>. QED  BY <1>3, <1>4, <1>5, <1>6

LEMMA LoopSendsKeeps == ASSUME RInv, LoopSends PROVE RInv'
BY DEF RInv, Running, ReportsTypeOK, WindowsOK, LostOnlyWhileSending, NothingToldAgain, LoopSends, vars

\* The window thrown away held nothing but the message and what came late.
LEMMA LoopResetsKeeps == ASSUME RInv, LoopResets PROVE RInv'
<1>. USE DEF LoopResets, RInv
<1>1. UNCHANGED <<task, events, manual, late>>
  BY DEF vars
<1>2. told \subseteq told' /\ missed \subseteq missed' /\ hourly \subseteq told' \union missed'
  BY DEF Outcome
<1>3. told' \subseteq told \union hourly /\ missed' \subseteq missed \union hourly
  BY DEF Outcome
<1>4. ReportsTypeOK'
  BY <1>1, <1>3 DEF ReportsTypeOK
<1>5. WindowsOK' /\ NothingToldAgain'
  BY <1>1 DEF WindowsOK, Running, NothingToldAgain
<1>6. LostOnlyWhileSending'
  BY <1>1, <1>2 DEF WindowsOK, LostOnlyWhileSending
<1>. QED  BY <1>4, <1>5, <1>6

\* /briefing finds no other message of its kind on its way.
LEMMA HandleCommandKeeps == ASSUME RInv, HandleCommand PROVE RInv'
<1>. USE DEF HandleCommand, RInv
<1>1. task = "handling" /\ manual = {}
  BY DEF Handle, WindowsOK
<1>2. CASE next \in Briefings
  <2>1. next \notin Foreign
    BY <1>2, TelegramBotAssumption
  <2>2. task' = "replying"
    BY <2>1 DEF Handle
  <2>3. manual' = stats /\ stats' = {} /\ UNCHANGED <<events, loop, hourly, told, late, missed>>
    BY <1>2 DEF SwapWindow
  <2>4. ReportsTypeOK'
    BY <2>3 DEF ReportsTypeOK
  <2>5. WindowsOK' /\ NothingToldAgain'
    BY <2>2, <2>3 DEF WindowsOK, Running, NothingToldAgain
  <2>6. LostOnlyWhileSending'
    BY <1>1, <2>3 DEF LostOnlyWhileSending
  <2>. QED  BY <2>4, <2>5, <2>6
<1>3. CASE next \notin Briefings
  BY <1>1, <1>3
  DEF ReportsTypeOK, WindowsOK, Running, Handle, Advance, LostOnlyWhileSending,
      NothingToldAgain, reports
<1>. QED  BY <1>2, <1>3

LEMMA ReplySentKeeps == ASSUME RInv, ReplySent PROVE RInv'
<1>. USE DEF ReplySent, RInv
<1>1. manual' = {} /\ UNCHANGED <<events, stats, loop, hourly, late>>
  OBVIOUS
<1>2. told \subseteq told' /\ missed \subseteq missed' /\ manual \subseteq told' \union missed'
  BY DEF Outcome
<1>3. told' \subseteq told \union manual /\ missed' \subseteq missed \union manual
  BY DEF Outcome
<1>4. ReportsTypeOK'
  BY <1>1, <1>3 DEF ReportsTypeOK
<1>5. WindowsOK' /\ NothingToldAgain'
  BY <1>1, <1>3 DEF WindowsOK, Running, Replied, Advance, NothingToldAgain
<1>6. LostOnlyWhileSending'
  BY <1>1, <1>2 DEF LostOnlyWhileSending
<1>. QED  BY <1>4, <1>5, <1>6

LEMMA ProcessEndsKeeps == ASSUME RInv, ProcessEnds PROVE RInv'
<1>. USE DEF ProcessEnds, RInv
<1>1. /\ missed' = missed \union stats \union hourly \union manual
      /\ stats' = {} /\ hourly' = {} /\ manual' = {} /\ loop' = "ended"
      /\ UNCHANGED <<events, told, late>>
  OBVIOUS
<1>2. ReportsTypeOK'
  BY <1>1 DEF ReportsTypeOK
<1>3. WindowsOK' /\ NothingToldAgain'
  BY <1>1 DEF WindowsOK, Running, NothingToldAgain
<1>4. LostOnlyWhileSending'
  BY <1>1 DEF LostOnlyWhileSending
<1>. QED  BY <1>2, <1>3, <1>4

\* The remaining steps leave the reports alone and reply to nothing.
LEMMA OtherStepsKeep ==
  ASSUME RInv,
         \/ ProcessStarts
         \/ (Send \/ Polled \/ PollFails \/ Wake \/ Signal) /\ UNCHANGED reports
         \/ UNCHANGED botVars
  PROVE  RInv'
<1>1. UNCHANGED <<events, stats, hourly, manual, told, late, missed>>
  BY DEF ProcessStarts, reports, botVars
<1>2. loop' = loop \/ (loop' = "sleeping" /\ ProcessStarts)
  BY DEF ProcessStarts, reports, botVars
<1>3. task' = task \/ task \in {"polling", "sleeping", "exited", "crashed"}
  BY DEF ProcessStarts, Start, Send, Polled, PollFails, Wake, Signal, botVars, vars
<1>4. ~ProcessStarts => (Running' = Running)
  BY DEF Running, Send, Polled, PollFails, Wake, Signal, botVars, vars
<1>5. ReportsTypeOK' /\ LostOnlyWhileSending' /\ NothingToldAgain'
  BY <1>1, <1>2 DEF RInv, ReportsTypeOK, LostOnlyWhileSending, NothingToldAgain
<1>6. CASE ~ProcessStarts
  BY <1>1, <1>2, <1>3, <1>4, <1>5, <1>6 DEF RInv, WindowsOK
<1>7. CASE ProcessStarts
  <2>1. task' = "polling" /\ loop' = "sleeping"
    BY <1>7 DEF ProcessStarts, Start, Fresh
  <2>2. task \in {"exited", "crashed"}
    BY <1>7 DEF ProcessStarts, Start
  <2>3. hourly = {} /\ manual = {}
    BY <2>2 DEF RInv, WindowsOK, Running
  <2>. QED  BY <1>1, <1>5, <2>1, <2>3 DEF RInv, WindowsOK, Running
<1>. QED  BY <1>6, <1>7

LEMMA ReportsInductive == RInv /\ [BotNext]_botVars => RInv'
<1>. SUFFICES ASSUME RInv, [BotNext]_botVars PROVE RInv'
  OBVIOUS
<1>1. CASE Record         BY <1>1, RecordKeeps
<1>2. CASE LoopSends      BY <1>2, LoopSendsKeeps
<1>3. CASE LoopResets     BY <1>3, LoopResetsKeeps
<1>4. CASE HandleCommand  BY <1>4, HandleCommandKeeps
<1>5. CASE ReplySent      BY <1>5, ReplySentKeeps
<1>6. CASE ProcessEnds    BY <1>6, ProcessEndsKeeps
<1>7. CASE \/ ProcessStarts
           \/ (Send \/ Polled \/ PollFails \/ Wake \/ Signal) /\ UNCHANGED reports
           \/ UNCHANGED botVars
  BY <1>7, OtherStepsKeep
<1>. QED  BY <1>1, <1>2, <1>3, <1>4, <1>5, <1>6, <1>7 DEF BotNext

LEMMA ReportsInvariance == BotSpec => []RInv
BY ReportsInit, ReportsInductive, PTL DEF BotSpec

-----------------------------------------------------------------------------
\* TelegramBot: the variables have their types, for any number of updates, events
\* and starts of the process.
THEOREM BotTypeCorrect == BotSpec => []BotTypeOK
<1>1. TypeOK /\ RInv => BotTypeOK
  BY DEF RInv, ReportsTypeOK, BotTypeOK
<1>. QED  BY <1>1, BotPolls, TypeCorrect, ReportsInvariance, PTL

\* No event leaves the window untold, but for those recorded while the hourly
\* message was sent, those in a message that failed and those a process took with
\* it, however the tasks and the crashes interleave.
THEOREM EventsLostOnlyWhileSending == BotSpec => []LostOnlyWhileSending
<1>1. RInv => LostOnlyWhileSending
  BY DEF RInv
<1>. QED  BY <1>1, ReportsInvariance, PTL

\* What was told or is being told by /briefing is not in the current window.
THEOREM NoEventToldAgain == BotSpec => []NothingToldAgain
<1>1. RInv => NothingToldAgain
  BY DEF RInv
<1>. QED  BY <1>1, ReportsInvariance, PTL

=============================================================================
