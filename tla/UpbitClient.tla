----------------------------- MODULE UpbitClient -----------------------------
(***************************************************************************)
(* _request of src/src/api/upbit_client.py, as called by several asyncio   *)
(* tasks: a semaphore bounds the requests in flight, a request that fails  *)
(* is repeated after a back-off in which its permit is given back, and the *)
(* last failure is raised.  asyncio's semaphore serves its waiters in the  *)
(* order they came and hands a permit that is given back to the first one. *)
(***************************************************************************)
EXTENDS Integers, Sequences, FiniteSets

CONSTANTS
  Task,       \* the asyncio tasks that call the client
  Sem,        \* its semaphores (_market_sem and _order_sem)
  Permits,    \* how many requests each lets through (10 and 8)
  MaxRetries  \* _MAX_RETRIES

ASSUME UpbitClientAssumption ==
  /\ IsFiniteSet(Task)
  /\ Permits \in [Sem -> Nat \ {0}]
  /\ "none" \notin Sem
  /\ MaxRetries \in Nat \ {0}

VARIABLES
  request,  \* task -> its call of _request: "idle" when there is none,
            \* "waiting" for a permit, "sent" while it holds one, "backoff"
  free,     \* semaphore -> permits nobody holds
  waiters   \* semaphore -> the tasks that wait for one, first come first

client == <<request, free, waiters>>

Idle == [at |-> "idle", sem |-> "none", attempt |-> 0]

Call(at, s, n) == [at |-> at, sem |-> s, attempt |-> n]

ClientInit ==
  /\ request = [t \in Task |-> Idle]
  /\ free = Permits
  /\ waiters = [s \in Sem |-> <<>>]

-----------------------------------------------------------------------------
(* async with sem                                                          *)

Enter(t, s, n) ==
  \/ /\ free[s] > 0 /\ waiters[s] = <<>>
     /\ request' = [request EXCEPT ![t] = Call("sent", s, n)]
     /\ free' = [free EXCEPT ![s] = @ - 1]
     /\ UNCHANGED waiters
  \/ /\ free[s] = 0 \/ waiters[s] # <<>>
     /\ request' = [request EXCEPT ![t] = Call("waiting", s, n)]
     /\ waiters' = [waiters EXCEPT ![s] = Append(@, t)]
     /\ UNCHANGED free

\* Mutant: a permit that is given back while others wait goes to nobody.
Leave_Lost(t, after) ==
  LET s == request[t].sem IN
  /\ request' = [request EXCEPT ![t] = after]
  /\ free' = [free EXCEPT ![s] = IF waiters[s] = <<>> THEN @ + 1 ELSE @]
  /\ UNCHANGED waiters

\* The permit is given back; the call of t is then as said by after.
Leave(t, after) ==
  LET s == request[t].sem IN
  \/ /\ waiters[s] = <<>>
     /\ request' = [request EXCEPT ![t] = after]
     /\ free' = [free EXCEPT ![s] = @ + 1]
     /\ UNCHANGED waiters
  \/ /\ waiters[s] # <<>>
     /\ request' = [request EXCEPT ![t] = after, ![Head(waiters[s])].at = "sent"]
     /\ waiters' = [waiters EXCEPT ![s] = Tail(@)]
     /\ UNCHANGED free

-----------------------------------------------------------------------------
(* The steps of a call.                                                    *)

Sent(t) == request[t].at = "sent"

Request(t, s) == request[t].at = "idle" /\ Enter(t, s, 1)

\* A readable answer is returned, an unreadable one is raised at once.
Returns(t) == Sent(t) /\ Leave(t, Idle)

LastAttempt(t) == request[t].attempt = MaxRetries

\* Mutant: the last attempt is repeated as well.
Fails_NotLast(t) ==
  Sent(t) /\ Leave(t, [request[t] EXCEPT !.at = "backoff"])

\* An error status, a network error or a timeout that is not the last.
Fails(t) ==
  /\ Sent(t)
  /\ ~LastAttempt(t)
  /\ Leave(t, [request[t] EXCEPT !.at = "backoff"])

\* The last attempt fails as well: the error is raised.
GivesUp(t) == Sent(t) /\ LastAttempt(t) /\ Leave(t, Idle)

\* The back-off is over.
Retry(t) ==
  /\ request[t].at = "backoff"
  /\ Enter(t, request[t].sem, request[t].attempt + 1)

ClientNext ==
  \E t \in Task :
    \/ \E s \in Sem : Request(t, s)
    \/ Returns(t) \/ Fails(t) \/ GivesUp(t) \/ Retry(t)

ClientSpec == ClientInit /\ [][ClientNext]_client

-----------------------------------------------------------------------------
Calls == {Idle} \union
         [at : {"waiting", "sent", "backoff"}, sem : Sem, attempt : 1 .. MaxRetries]

ClientTypeOK ==
  /\ request \in [Task -> Calls]
  /\ free \in [Sem -> Nat]
  /\ waiters \in [Sem -> Seq(Task)]

InFlight(s) == {t \in Task : Sent(t) /\ request[t].sem = s}

\* However calls fail, sleep and queue up, no permit is lost or made: those in
\* flight and those free are what the semaphore was made with, and nobody waits
\* while one is free, so a semaphore never lets more requests through than it
\* says and never fewer than it could.
PermitsKept ==
  \A s \in Sem :
    /\ free[s] + Cardinality(InFlight(s)) = Permits[s]
    /\ waiters[s] # <<>> => free[s] = 0

=============================================================================
