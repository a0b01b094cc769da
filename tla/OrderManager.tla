----------------------------- MODULE OrderManager -----------------------------
(***************************************************************************)
(* src/src/execution/order_manager.py on top of UpbitClient: traders that  *)
(* place an order, track it and wait for its fill, and closers that cancel *)
(* whatever is tracked, while Upbit fills and cancels orders and the       *)
(* network loses, delays and garbles requests and answers.                 *)
(* Tasks switch only where one of them awaits: pc names the await, and     *)
(* what follows an answer up to the next await belongs to its step.        *)
(***************************************************************************)
EXTENDS UpbitClient

CONSTANTS
  Trader,  \* execute_order, track, wait_for_fill
  Closer,  \* cancel_all_pending
  None,    \* "no order"
  Faults   \* the faults a run injects

ASSUME OrderManagerAssumption ==
  /\ Trader \intersect Closer = {}
  /\ Task = Trader \union Closer
  /\ None \notin Trader \X Nat
  /\ "order" \in Sem
  /\ Faults \subseteq {"request", "late", "reply", "garbled"}

\* The order Upbit makes of an attempt of a trader: it knows its uuid.
Order == Trader \X (1 .. MaxRetries)

VARIABLES
  (* Upbit and the network *)
  state,    \* order -> "none", "wait", "done" or "cancel"
  reply,    \* task -> what Upbit answered to its request; "none": nothing yet
  late,     \* requests a task has given up and Upbit has not seen yet
  (* the order manager and its callers *)
  pending,  \* _pending
  pc,       \* task -> "start", "placing", "watching", "polling", "closing",
            \* "cancelling" or "end"
  mine,     \* task -> the order it waits for or cancels
  expired,  \* the traders whose deadline has passed
  todo,     \* closer -> the rest of its copy of _pending
  filled    \* the traders whose wait_for_fill returned the order

upbit   == <<state, reply, late>>
manager == <<pending, pc, mine, expired, todo, filled>>
vars    == <<client, upbit, manager>>

Init ==
  /\ ClientInit
  /\ state = [o \in Order |-> "none"]
  /\ reply = [t \in Task |-> "none"]
  /\ late = {}
  /\ pending = {}
  /\ pc = [t \in Task |-> "start"]
  /\ mine = [t \in Task |-> None]
  /\ expired = {}
  /\ todo = [c \in Closer |-> {}]
  /\ filled = {}

Goto(t, label) == pc' = [pc EXCEPT ![t] = label]

-----------------------------------------------------------------------------
(* Upbit.                                                                  *)

\* The order a create request of t would make.
Made(t) == <<t, request[t].attempt>>

Answer(t, what) == reply' = [reply EXCEPT ![t] = what]

\* Upbit answers a request: an order is made or refused (no funds), looked up,
\* or cancelled, which it refuses for an order that is closed.
Served(t) ==
  /\ Sent(t)
  /\ reply[t] = "none"
  /\ \/ /\ pc[t] = "placing"
        /\ \/ state' = [state EXCEPT ![Made(t)] = "wait"] /\ Answer(t, "ok")
           \/ UNCHANGED state /\ Answer(t, "refused")
     \/ /\ pc[t] = "polling"
        /\ Answer(t, state[mine[t]])
        /\ UNCHANGED state
     \/ /\ pc[t] = "cancelling"
        /\ IF state[mine[t]] = "wait"
           THEN state' = [state EXCEPT ![mine[t]] = "cancel"] /\ Answer(t, "ok")
           ELSE UNCHANGED state /\ Answer(t, "refused")
  /\ UNCHANGED <<client, late, manager>>

\* An order is filled, or cancelled by somebody else.
Closes(o, how) ==
  /\ state[o] = "wait"
  /\ state' = [state EXCEPT ![o] = how]
  /\ UNCHANGED <<client, reply, late, manager>>

\* A request its task has given up arrives after all.
Arrives(what, o) ==
  /\ <<what, o>> \in late
  /\ late' = late \ {<<what, o>>}
  /\ state' = [state EXCEPT ![o] = CASE what = "create" -> "wait"
                                     [] what = "cancel" /\ @ = "wait" -> "cancel"
                                     [] OTHER -> @]
  /\ UNCHANGED <<client, reply, manager>>

-----------------------------------------------------------------------------
(* What a task does with the outcome of its call.                          *)

Forget(o) == pending' = pending \ {o}

\* execute_order returns the uuid; the caller tracks it and starts to wait.
Placed(t) ==
  /\ pc[t] = "placing"
  /\ mine' = [mine EXCEPT ![t] = Made(t)]
  /\ pending' = pending \union {Made(t)}
  /\ Goto(t, "watching")
  /\ UNCHANGED filled

Polled(t) ==
  /\ pc[t] = "polling"
  /\ \/ reply[t] = "wait" /\ Goto(t, "watching") /\ UNCHANGED <<pending, filled>>
     \/ /\ reply[t] = "done"
        /\ Forget(mine[t])
        /\ filled' = filled \union {t}
        /\ Goto(t, "end")
     \/ /\ reply[t] = "cancel"
        /\ Forget(mine[t])
        /\ Goto(t, "end")
        /\ UNCHANGED filled
  /\ UNCHANGED mine

\* Where a cancel_order returns to.
Back(t) == Goto(t, IF t \in Closer THEN "closing" ELSE "end")

Cancelled(t) ==
  /\ pc[t] = "cancelling"
  /\ Forget(mine[t])
  /\ Back(t)
  /\ UNCHANGED <<mine, filled>>

\* Mutant: a cancellation that failed forgets the order as well.
Raised_Forgets(t) ==
  /\ \/ pc[t] = "placing" /\ Goto(t, "end") /\ UNCHANGED pending
     \/ pc[t] = "polling" /\ Goto(t, "watching") /\ UNCHANGED pending
     \/ pc[t] = "cancelling" /\ Back(t) /\ Forget(mine[t])
  /\ UNCHANGED <<mine, filled>>

\* Every exception is swallowed where it arrives: execute_order fails, a poll
\* is repeated, a cancellation gives None and leaves the order tracked.
Raised(t) ==
  /\ \/ pc[t] = "placing" /\ Goto(t, "end")
     \/ pc[t] = "polling" /\ Goto(t, "watching")
     \/ pc[t] = "cancelling" /\ Back(t)
  /\ UNCHANGED <<pending, mine, filled>>

-----------------------------------------------------------------------------
(* The outcomes of a request.                                              *)

Answered(t) ==
  /\ reply[t] \notin {"none", "refused"}
  /\ Returns(t)
  /\ Answer(t, "none")
  /\ Placed(t) \/ Polled(t) \/ Cancelled(t)
  /\ UNCHANGED <<state, late, expired, todo>>

\* The answer of Upbit cannot be read: not an HTTP error, so no retry.
Garbled(t) ==
  /\ "garbled" \in Faults
  /\ reply[t] \notin {"none", "refused"}
  /\ Returns(t)
  /\ Answer(t, "none")
  /\ Raised(t)
  /\ UNCHANGED <<state, late, expired, todo>>

\* The request on the wire, if it would change anything.
OnTheWire(t) ==
  CASE pc[t] = "placing" -> {<<"create", Made(t)>>}
    [] pc[t] = "cancelling" -> {<<"cancel", mine[t]>>}
    [] OTHER -> {}

\* An attempt fails: refused, or lost or late on its way there, or its answer
\* is lost on its way back.
Unanswered(t) ==
  \/ reply[t] = "refused" /\ UNCHANGED late
  \/ reply[t] = "none" /\ "request" \in Faults /\ UNCHANGED late
  \/ reply[t] = "none" /\ "late" \in Faults /\ late' = late \union OnTheWire(t)
  \/ reply[t] \notin {"none", "refused"} /\ "reply" \in Faults /\ UNCHANGED late

Error(t) ==
  /\ Sent(t)
  /\ Unanswered(t)
  /\ Answer(t, "none")
  /\ \/ Fails(t) /\ UNCHANGED <<pending, pc, mine, filled>>
     \/ GivesUp(t) /\ Raised(t)
  /\ UNCHANGED <<state, expired, todo>>

Again(t) == Retry(t) /\ UNCHANGED <<upbit, manager>>

-----------------------------------------------------------------------------
(* The tasks.                                                              *)

Place(t) ==
  /\ t \in Trader
  /\ pc[t] = "start"
  /\ Request(t, "order")
  /\ Goto(t, "placing")
  /\ UNCHANGED <<upbit, pending, mine, expired, todo, filled>>

\* Mutant: the deadline is taken anew in every round of the loop.
Poll_NewDeadline(t) ==
  /\ pc[t] = "watching"
  /\ Request(t, "order")
  /\ Goto(t, "polling")
  /\ expired' = expired \ {t}
  /\ UNCHANGED <<upbit, pending, mine, todo, filled>>

\* The first round of wait_for_fill, or the next after its sleep.
Poll(t) ==
  /\ pc[t] = "watching"
  /\ t \notin expired
  /\ Request(t, "order")
  /\ Goto(t, "polling")
  /\ UNCHANGED <<upbit, pending, mine, expired, todo, filled>>

\* Time passes the deadline of a wait_for_fill.
Deadline(t) ==
  /\ pc[t] \in {"watching", "polling"}
  /\ t \notin expired
  /\ expired' = expired \union {t}
  /\ UNCHANGED <<client, upbit, pending, pc, mine, todo, filled>>

\* Mutant: an order is no longer tracked once its cancellation is sent.
TimedOut_Forgets(t) ==
  /\ pc[t] = "watching"
  /\ t \in expired
  /\ Request(t, "order")
  /\ Goto(t, "cancelling")
  /\ Forget(mine[t])
  /\ UNCHANGED <<upbit, mine, expired, todo, filled>>

TimedOut(t) ==
  /\ pc[t] = "watching"
  /\ t \in expired
  /\ Request(t, "order")
  /\ Goto(t, "cancelling")
  /\ UNCHANGED <<upbit, pending, mine, expired, todo, filled>>

\* cancel_all_pending copies the keys of _pending ...
CancelAll(c) ==
  /\ c \in Closer
  /\ pc[c] = "start"
  /\ todo' = [todo EXCEPT ![c] = pending]
  /\ Goto(c, "closing")
  /\ UNCHANGED <<client, upbit, pending, mine, expired, filled>>

\* ... and cancels them one after the other.
CancelNext(c) ==
  /\ pc[c] = "closing"
  /\ \E o \in todo[c] :
       /\ mine' = [mine EXCEPT ![c] = o]
       /\ todo' = [todo EXCEPT ![c] = @ \ {o}]
  /\ Request(c, "order")
  /\ Goto(c, "cancelling")
  /\ UNCHANGED <<upbit, pending, expired, filled>>

AllCancelled(c) ==
  /\ pc[c] = "closing"
  /\ todo[c] = {}
  /\ Goto(c, "end")
  /\ UNCHANGED <<client, upbit, pending, mine, expired, todo, filled>>

-----------------------------------------------------------------------------
\* What moves a task on.
Step(t) ==
  \/ Place(t) \/ Poll(t) \/ TimedOut(t)
  \/ CancelAll(t) \/ CancelNext(t) \/ AllCancelled(t)
  \/ Answered(t) \/ Garbled(t) \/ Error(t) \/ Again(t)

Next ==
  \/ \E t \in Task : Step(t) \/ Served(t) \/ Deadline(t)
  \/ \E o \in Order : \/ \E how \in {"done", "cancel"} : Closes(o, how)
                      \/ \E what \in {"create", "cancel"} : Arrives(what, o)

Spec == Init /\ [][Next]_vars

\* asyncio resumes a task whose await is done; a request is answered or times
\* out after ten seconds; time passes every deadline.
FairSpec ==
  /\ Spec
  /\ \A t \in Task : WF_vars(Step(t)) /\ WF_vars(Served(t)) /\ WF_vars(Deadline(t))

-----------------------------------------------------------------------------
TypeOK ==
  /\ ClientTypeOK
  /\ state \in [Order -> {"none", "wait", "done", "cancel"}]
  /\ reply \in [Task -> {"none", "ok", "refused", "wait", "done", "cancel"}]
  /\ late \subseteq {"create", "cancel"} \X Order
  /\ pending \subseteq Order
  /\ pc \in [Task -> {"start", "placing", "watching", "polling", "closing",
                      "cancelling", "end"}]
  /\ mine \in [Task -> Order \union {None}]
  /\ expired \subseteq Trader
  /\ todo \in [Closer -> SUBSET Order]
  /\ filled \subseteq Trader

\* The order manager implements the ledger: whichever task polls or cancels,
\* however answers are lost, late or out of date, an order is forgotten only
\* when Upbit has closed it, and nobody is told of a fill that did not happen.
Ledger == INSTANCE OrderLedger
            WITH tracked <- pending, told <- {mine[t] : t \in filled}

KeepsLedger == Ledger!Spec

\* "The filled order dict, or None if timeout was reached" (order_manager.py:45):
\* None is also what a caller gets whose order was filled after the last poll.
\* Such a fill is never lost: the order stays in _pending.
UntoldFillTracked ==
  \A t \in Trader :
    mine[t] # None /\ state[mine[t]] \in {"wait", "done"} /\ t \notin filled
      => mine[t] \in pending

\* wait_for_fill and cancel_all_pending come to an end, whatever fails.
TasksEnd == \A t \in Task : <>(pc[t] = "end")

=============================================================================
