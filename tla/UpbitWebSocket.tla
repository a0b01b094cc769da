---------------------------- MODULE UpbitWebSocket ----------------------------
(***************************************************************************)
(* src/src/api/upbit_websocket.py: a reader task in run(), which connects, *)
(* subscribes, hands every message to a callback and reconnects with a     *)
(* growing delay when the connection is lost, and another task that calls  *)
(* close().  pc names the await the reader is suspended in:                *)
(*   "connecting", "subscribing"      connect() at the start of run()      *)
(*   "receiving"                      recv() of the current connection     *)
(*   "handling"                       the callback                         *)
(*   "sleeping"                       the delay before a reconnection      *)
(*   "reconnecting", "resubscribing"  connect() in _try_reconnect()        *)
(*   "ended", "raised"                run() returned or raised             *)
(***************************************************************************)
EXTENDS Integers, FiniteSetsExt, Loops

CONSTANTS
  MaxDelay,  \* _MAX_RECONNECT_DELAY in units of _RECONNECT_BASE_DELAY (60)
  MaxStray,  \* bound on the connections left behind
  MaxTries   \* bound on the attempts counted

\* The base delay after n doublings.
Doubled(n) == LoopTo([i \in Nat |-> [d \in Nat |-> 2 * d]], 1, n)

\* Attempts are counted until the delay has reached its limit, at least.
ASSUME UpbitWebSocketAssumption ==
  /\ MaxDelay \in Nat \ {0}
  /\ MaxStray \in Nat
  /\ MaxTries \in Nat
  /\ Doubled(MaxTries) >= MaxDelay

VARIABLES
  pc,      \* the await of the reader
  ws,      \* what _ws refers to: "none", or a connection, "open" or "lost"
  delay,   \* _reconnect_delay
  closed,  \* _closed
  closer,  \* the other task: "ready", "closing" (in ws.close()) or "done"
  stray,   \* open connections that nothing refers to
  tries,   \* history: attempts to reconnect since the last subscription
  caught,  \* history: what the reader did when close() was called
  found    \* history: the stray connections there were then

vars == <<pc, ws, delay, closed, closer, stray, tries, caught, found>>

Init ==
  /\ pc = "connecting"
  /\ ws = "none"
  /\ delay = 1
  /\ closed = FALSE
  /\ closer = "ready"
  /\ stray = 0
  /\ tries = 0
  /\ caught = "nothing"
  /\ found = 0

\* Mutant: the loop does not look at _closed.
Resume_Endless(connection) ==
  pc' = IF connection = "none" THEN "sleeping" ELSE "receiving"

\* Mutant: the loop ends with the first attempt to reconnect that failed.
Resume_GivesUp(connection) ==
  pc' = IF closed \/ connection = "none" THEN "ended" ELSE "receiving"

\* Where the loop of receive() goes on with what _ws refers to now.
Resume(connection) ==
  pc' = IF closed THEN "ended" ELSE IF connection = "none" THEN "sleeping" ELSE "receiving"

-----------------------------------------------------------------------------
(* connect().                                                              *)

Connected ==
  /\ pc \in {"connecting", "reconnecting"}
  /\ ws' = "open"
  /\ pc' = IF pc = "connecting" THEN "subscribing" ELSE "resubscribing"
  /\ UNCHANGED <<delay, closed, closer, stray, tries, caught, found>>

\* Mutant: the delay starts anew although the subscription failed.
ConnectFails_Resets ==
  /\ \/ pc \in {"connecting", "reconnecting"}
     \/ pc \in {"subscribing", "resubscribing"} /\ ws # "open"
  /\ IF pc \in {"connecting", "subscribing"}
     THEN pc' = "raised" /\ UNCHANGED ws
     ELSE ws' = "none" /\ Resume("none")
  /\ delay' = 1
  /\ UNCHANGED <<closed, closer, stray, tries, caught, found>>

\* An exception of either await leaves run() at the start; later it is logged
\* and the loop goes on.
ConnectFails ==
  /\ \/ pc \in {"connecting", "reconnecting"}
     \/ pc \in {"subscribing", "resubscribing"} /\ ws # "open"
  /\ IF pc \in {"connecting", "subscribing"}
     THEN pc' = "raised" /\ UNCHANGED ws
     ELSE ws' = "none" /\ Resume("none")
  /\ UNCHANGED <<delay, closed, closer, stray, tries, caught, found>>

Subscribed ==
  /\ pc \in {"subscribing", "resubscribing"}
  /\ ws = "open"
  /\ delay' = 1
  /\ tries' = 0
  /\ Resume(ws)
  /\ UNCHANGED <<ws, closed, closer, stray, caught, found>>

-----------------------------------------------------------------------------
(* receive().                                                              *)

Received ==
  /\ pc = "receiving"
  /\ ws = "open"
  /\ pc' = "handling"
  /\ UNCHANGED <<ws, delay, closed, closer, stray, tries, caught, found>>

\* A message that is no JSON: the connection is left behind as it is.
Unreadable ==
  /\ pc = "receiving"
  /\ ws = "open"
  /\ stray < MaxStray
  /\ IF closed
     THEN pc' = "ended" /\ UNCHANGED <<ws, stray>>
     ELSE pc' = "sleeping" /\ ws' = "none" /\ stray' = stray + 1
  /\ UNCHANGED <<delay, closed, closer, tries, caught, found>>

ConnectionClosed ==
  /\ pc = "receiving"
  /\ ws # "open"
  /\ IF closed
     THEN pc' = "ended" /\ UNCHANGED ws
     ELSE pc' = "sleeping" /\ ws' = "none"
  /\ UNCHANGED <<delay, closed, closer, stray, tries, caught, found>>

\* The callback returned or raised.
Handled ==
  /\ pc = "handling"
  /\ Resume(ws)
  /\ UNCHANGED <<ws, delay, closed, closer, stray, tries, caught, found>>

\* Mutant: the delay grows without a limit.
Wake_Unlimited ==
  /\ pc = "sleeping"
  /\ delay' = 2 * delay
  /\ tries' = Min({tries + 1, MaxTries})
  /\ pc' = "reconnecting"
  /\ UNCHANGED <<ws, closed, closer, stray, caught, found>>

\* The delay is over: whether close() was called meanwhile is not looked at.
Wake ==
  /\ pc = "sleeping"
  /\ delay' = Min({2 * delay, MaxDelay})
  /\ tries' = Min({tries + 1, MaxTries})
  /\ pc' = "reconnecting"
  /\ UNCHANGED <<ws, closed, closer, stray, caught, found>>

-----------------------------------------------------------------------------
(* close(), called once.                                                   *)

\* Mutant: close() leaves the connection to the reader.
Close_OnlyFlag ==
  /\ closer = "ready"
  /\ closed' = TRUE
  /\ caught' = pc
  /\ found' = stray
  /\ closer' = "done"
  /\ UNCHANGED <<pc, ws, delay, stray, tries>>

Close ==
  /\ closer = "ready"
  /\ closed' = TRUE
  /\ caught' = pc
  /\ found' = stray
  /\ closer' = IF ws = "none" THEN "done" ELSE "closing"
  /\ UNCHANGED <<pc, ws, delay, stray, tries>>

Closed ==
  /\ closer = "closing"
  /\ ws' = "none"
  /\ closer' = "done"
  /\ UNCHANGED <<pc, delay, closed, stray, tries, caught, found>>

-----------------------------------------------------------------------------
(* Upbit and the network end a connection.                                 *)

Lost ==
  /\ ws = "open"
  /\ ws' = "lost"
  /\ UNCHANGED <<pc, delay, closed, closer, stray, tries, caught, found>>

StrayLost ==
  /\ stray > 0
  /\ stray' = stray - 1
  /\ UNCHANGED <<pc, ws, delay, closed, closer, tries, caught, found>>

-----------------------------------------------------------------------------
Connect == Connected \/ ConnectFails

Reader ==
  \/ Connect \/ Subscribed \/ Wake \/ Handled
  \/ Received \/ Unreadable \/ ConnectionClosed

Next == Reader \/ Close \/ Closed \/ Lost \/ StrayLost

Spec == Init /\ [][Next]_vars

\* asyncio resumes the reader: an attempt to connect succeeds, fails or times out,
\* a delay ends, recv() of a lost connection raises; but a quiet feed need not send
\* anything.  A closing handshake ends.  Upbit can be reached now and then: not
\* every attempt to connect and subscribe fails.
FairSpec ==
  /\ Spec
  /\ WF_vars(Connect) /\ WF_vars(Wake) /\ WF_vars(Handled)
  /\ WF_vars(ConnectionClosed) /\ WF_vars(Closed)
  /\ SF_vars(Connected) /\ SF_vars(Subscribed)

-----------------------------------------------------------------------------
TypeOK ==
  /\ pc \in {"connecting", "subscribing", "receiving", "handling", "sleeping",
             "reconnecting", "resubscribing", "ended", "raised"}
  /\ ws \in {"none", "open", "lost"}
  /\ delay \in 1 .. MaxDelay
  /\ closed \in BOOLEAN
  /\ closer \in {"ready", "closing", "done"}
  /\ stray \in 0 .. MaxStray
  /\ tries \in 0 .. MaxTries
  /\ caught \in {"nothing", "connecting", "subscribing", "receiving", "handling",
                 "sleeping", "reconnecting", "resubscribing", "ended", "raised"}
  /\ found \in 0 .. MaxStray

\* The delay doubles with every attempt that did not end in a subscription, up to
\* its limit, and starts again from the base after one that did.
BackoffGrows == pc = "sleeping" => delay = Min({Doubled(tries), MaxDelay})

\* What is still open once close() and the reader are through: the stray
\* connections there were when close() was called, which unreadable messages left
\* behind and nothing refers to any more, and one connection besides if close()
\* came while there was none because the reader was about to connect, which it
\* then did.  (Either is less than upbit_websocket.py:129 promises, "Gracefully
\* shut down the WebSocket connection"; close() adds no third way.)
ClosesWhatItKnows ==
  closer = "done" /\ pc \in {"ended", "raised"} =>
    /\ ws = "open" => caught \in {"connecting", "sleeping", "reconnecting"}
    /\ stray <= found

\* The reader ends when close() is called, whatever it is doing then.
ReaderEnds == closed ~> pc \in {"ended", "raised"}

\* A feed that lost its connection is received again, or closed.
FeedResumes == pc = "sleeping" ~> pc = "receiving" \/ closed

=============================================================================
