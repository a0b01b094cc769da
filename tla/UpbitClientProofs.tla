--------------------------- MODULE UpbitClientProofs ---------------------------
(***************************************************************************)
(* Proofs about UpbitClient: whatever fails, sleeps and queues up, every   *)
(* semaphore lets through exactly as many requests as it was made for.     *)
(***************************************************************************)
EXTENDS UpbitClient, FiniteSetTheorems, SequenceTheorems, TLAPS

-----------------------------------------------------------------------------
(* The inductive invariant.                                                *)

\* A queue holds every task once, and only tasks that wait for its semaphore.
QueueOK(s) ==
  /\ \A i \in 1 .. Len(waiters[s]) :
       request[waiters[s][i]].at = "waiting" /\ request[waiters[s][i]].sem = s
  /\ \A i, j \in 1 .. Len(waiters[s]) : waiters[s][i] = waiters[s][j] => i = j

\* A call that backs off has an attempt left.
BackoffOK ==
  \A t \in Task : request[t].at = "backoff" => request[t].attempt < MaxRetries

Balanced(s) == free[s] + Cardinality(InFlight(s)) = Permits[s]

NoneWaitsInVain(s) == waiters[s] # <<>> => free[s] = 0

CInv ==
  /\ ClientTypeOK /\ BackoffOK
  /\ \A s \in Sem : QueueOK(s) /\ Balanced(s) /\ NoneWaitsInVain(s)

LEMMA InFlightFinite == \A s \in Sem : IsFiniteSet(InFlight(s))
<1>1. \A s \in Sem : InFlight(s) \subseteq Task
  BY DEF InFlight
<1>. QED  BY <1>1, FS_Subset, UpbitClientAssumption

LEMMA ClientInitInvariant == ClientInit => CInv
<1>. SUFFICES ASSUME ClientInit PROVE CInv
  OBVIOUS
<1>. USE UpbitClientAssumption DEF ClientInit, Idle
<1>1. ClientTypeOK
  <2>1. request \in [Task -> Calls]  BY DEF Calls
  <2>2. free \in [Sem -> Nat]        OBVIOUS
  <2>3. waiters \in [Sem -> Seq(Task)]
    <3>1. <<>> \in Seq(Task)  BY EmptySeq
    <3>. QED  BY <3>1
  <2>. QED  BY <2>1, <2>2, <2>3 DEF ClientTypeOK
<1>2. BackoffOK
  BY DEF BackoffOK
<1>3. ASSUME NEW s \in Sem PROVE QueueOK(s) /\ Balanced(s) /\ NoneWaitsInVain(s)
  <2>1. waiters[s] = <<>> /\ Len(waiters[s]) = 0 /\ free[s] = Permits[s]
    BY EmptySeq
  <2>2. InFlight(s) = {} /\ Cardinality(InFlight(s)) = 0
    BY FS_EmptySet DEF InFlight, Sent
  <2>3. Permits[s] \in Nat
    OBVIOUS
  <2>. QED  BY <2>1, <2>2, <2>3 DEF QueueOK, Balanced, NoneWaitsInVain
<1>. QED  BY <1>1, <1>2, <1>3 DEF CInv

-----------------------------------------------------------------------------
\* A task that enters and finds a permit takes it.
LEMMA EnterTakes ==
  ASSUME CInv, NEW t \in Task, NEW s \in Sem, NEW n \in 1 .. MaxRetries,
         request[t].at \in {"idle", "backoff"}, free[s] > 0, waiters[s] = <<>>,
         request' = [request EXCEPT ![t] = Call("sent", s, n)],
         free' = [free EXCEPT ![s] = @ - 1], UNCHANGED waiters
  PROVE  CInv'
<1>t. /\ request \in [Task -> Calls] /\ free \in [Sem -> Nat]
      /\ waiters \in [Sem -> Seq(Task)]
  BY DEF CInv, ClientTypeOK
<1>1. ClientTypeOK'
  <2>1. request' \in [Task -> Calls]  BY <1>t DEF Call, Calls
  <2>2. free' \in [Sem -> Nat]        BY <1>t
  <2>. QED  BY <1>t, <2>1, <2>2 DEF ClientTypeOK
<1>2. /\ request'[t].at = "sent" /\ request'[t].sem = s
      /\ \A u \in Task \ {t} : request'[u] = request[u]
  BY <1>t DEF Call
<1>3. BackoffOK'
  BY <1>2 DEF CInv, BackoffOK
<1>4. ASSUME NEW r \in Sem PROVE QueueOK(r)'
  <2>1. waiters'[r] = waiters[r] /\ waiters[r] \in Seq(Task)
    BY <1>t
  <2>2. \A i \in 1 .. Len(waiters[r]) : waiters[r][i] \in Task \ {t}
    BY <2>1, ElementOfSeq DEF CInv, QueueOK
  <2>. QED  BY <1>2, <2>1, <2>2 DEF CInv, QueueOK
<1>5. Balanced(s)' /\ NoneWaitsInVain(s)'
  <2>1. InFlight(s)' = InFlight(s) \union {t} /\ t \notin InFlight(s)
    BY <1>2 DEF InFlight, Sent
  <2>2. Cardinality(InFlight(s)') = Cardinality(InFlight(s)) + 1
    BY <2>1, InFlightFinite, FS_AddElement
  <2>3. free'[s] = free[s] - 1 /\ free[s] \in Nat /\ Cardinality(InFlight(s)) \in Nat
    BY <1>t, InFlightFinite, FS_CardinalityType
  <2>4. Cardinality(InFlight(s))' = Cardinality(InFlight(s)')
    OBVIOUS
  <2>5. free[s] + Cardinality(InFlight(s)) = Permits[s]
    BY DEF CInv, Balanced
  <2>6. free'[s] + Cardinality(InFlight(s)') = Permits[s]
    BY <2>2, <2>3, <2>5
  <2>. QED  BY <2>6 DEF Balanced, NoneWaitsInVain
<1>6. ASSUME NEW r \in Sem \ {s} PROVE Balanced(r)' /\ NoneWaitsInVain(r)'
  <2>1. InFlight(r)' = InFlight(r)
    BY <1>2 DEF InFlight, Sent
  <2>2. free'[r] = free[r] /\ waiters'[r] = waiters[r]
    BY <1>t
  <2>. QED  BY <2>1, <2>2 DEF CInv, Balanced, NoneWaitsInVain
<1>. QED  BY <1>1, <1>3, <1>4, <1>5, <1>6 DEF CInv

\* A task that enters and finds none takes the last place of the queue.
LEMMA EnterQueues ==
  ASSUME CInv, NEW t \in Task, NEW s \in Sem, NEW n \in 1 .. MaxRetries,
         request[t].at \in {"idle", "backoff"}, free[s] = 0 \/ waiters[s] # <<>>,
         request' = [request EXCEPT ![t] = Call("waiting", s, n)],
         waiters' = [waiters EXCEPT ![s] = Append(@, t)], UNCHANGED free
  PROVE  CInv'
<1>t. /\ request \in [Task -> Calls] /\ free \in [Sem -> Nat]
      /\ waiters \in [Sem -> Seq(Task)]
  BY DEF CInv, ClientTypeOK
<1>1. /\ Append(waiters[s], t) \in Seq(Task)
      /\ Len(Append(waiters[s], t)) = Len(waiters[s]) + 1
      /\ \A i \in 1 .. Len(waiters[s]) : Append(waiters[s], t)[i] = waiters[s][i]
      /\ Append(waiters[s], t)[Len(waiters[s]) + 1] = t
  BY <1>t, AppendProperties
<1>2. ClientTypeOK'
  <2>1. request' \in [Task -> Calls]      BY <1>t DEF Call, Calls
  <2>2. waiters' \in [Sem -> Seq(Task)]   BY <1>t, <1>1
  <2>. QED  BY <1>t, <2>1, <2>2 DEF ClientTypeOK
<1>3. /\ request'[t].at = "waiting" /\ request'[t].sem = s
      /\ \A u \in Task \ {t} : request'[u] = request[u]
  BY <1>t DEF Call
<1>4. BackoffOK'
  BY <1>3 DEF CInv, BackoffOK
<1>5. ASSUME NEW r \in Sem
      PROVE  \A i \in 1 .. Len(waiters[r]) : waiters[r][i] \in Task \ {t}
  BY <1>t, ElementOfSeq DEF CInv, QueueOK
<1>6. ASSUME NEW r \in Sem PROVE InFlight(r)' = InFlight(r)
  BY <1>3 DEF InFlight, Sent
<1>7. Balanced(s)' /\ NoneWaitsInVain(s)'
  <2>1. free[s] = 0
    BY DEF CInv, NoneWaitsInVain
  <2>. QED  BY <1>6, <2>1 DEF CInv, Balanced, NoneWaitsInVain
<1>8. QueueOK(s)'
  <2>1. waiters'[s] = Append(waiters[s], t)
    BY <1>t
  <2>2. Len(waiters[s]) \in Nat /\ Len(waiters'[s]) = Len(waiters[s]) + 1
    BY <1>t, <1>1, <2>1
  <2>3. /\ \A k \in 1 .. Len(waiters[s]) : waiters'[s][k] = waiters[s][k] /\ waiters'[s][k] # t
        /\ waiters'[s][Len(waiters[s]) + 1] = t
    BY <1>1, <1>5, <2>1
  <2>4. ASSUME NEW i \in 1 .. Len(waiters'[s])
        PROVE  request'[waiters'[s][i]].at = "waiting" /\ request'[waiters'[s][i]].sem = s
    <3>1. CASE i = Len(waiters[s]) + 1
      BY <1>3, <2>3, <3>1
    <3>2. CASE i \in 1 .. Len(waiters[s])
      BY <1>3, <1>5, <2>3, <3>2 DEF CInv, QueueOK
    <3>. QED  BY <2>2, <3>1, <3>2
  <2>5. ASSUME NEW i \in 1 .. Len(waiters'[s]), NEW j \in 1 .. Len(waiters'[s]),
               waiters'[s][i] = waiters'[s][j]
        PROVE  i = j
    <3>1. CASE i \in 1 .. Len(waiters[s]) /\ j \in 1 .. Len(waiters[s])
      BY <2>3, <2>5, <3>1 DEF CInv, QueueOK
    <3>2. CASE i = Len(waiters[s]) + 1 \/ j = Len(waiters[s]) + 1
      BY <2>2, <2>3, <2>5, <3>2
    <3>. QED  BY <2>2, <3>1, <3>2
  <2>. QED  BY <2>4, <2>5 DEF QueueOK
<1>9. ASSUME NEW r \in Sem \ {s} PROVE QueueOK(r)' /\ Balanced(r)' /\ NoneWaitsInVain(r)'
  <2>1. waiters'[r] = waiters[r]
    BY <1>t
  <2>2. QueueOK(r)'
    BY <1>3, <1>5, <2>1 DEF CInv, QueueOK
  <2>. QED  BY <1>6, <2>1, <2>2 DEF CInv, Balanced, NoneWaitsInVain
<1>. QED  BY <1>2, <1>4, <1>7, <1>8, <1>9 DEF CInv

LEMMA EnterKeeps ==
  ASSUME CInv, NEW t \in Task, NEW s \in Sem, NEW n \in 1 .. MaxRetries,
         request[t].at \in {"idle", "backoff"}, Enter(t, s, n)
  PROVE  CInv'
BY EnterTakes, EnterQueues DEF Enter

-----------------------------------------------------------------------------
\* A permit that is given back while nobody waits is free.
LEMMA LeaveFrees ==
  ASSUME CInv, NEW t \in Task, Sent(t), NEW s \in Sem, request[t].sem = s,
         NEW after \in Calls, after.at \in {"idle", "backoff"},
         after.at = "backoff" => after.attempt < MaxRetries,
         waiters[s] = <<>>,
         request' = [request EXCEPT ![t] = after],
         free' = [free EXCEPT ![s] = @ + 1], UNCHANGED waiters
  PROVE  CInv'
<1>t. /\ request \in [Task -> Calls] /\ free \in [Sem -> Nat]
      /\ waiters \in [Sem -> Seq(Task)]
  BY DEF CInv, ClientTypeOK
<1>1. ClientTypeOK'
  <2>1. request' \in [Task -> Calls]  BY <1>t
  <2>2. free' \in [Sem -> Nat]        BY <1>t
  <2>. QED  BY <1>t, <2>1, <2>2 DEF ClientTypeOK
<1>2. request'[t] = after /\ \A u \in Task \ {t} : request'[u] = request[u]
  BY <1>t
<1>3. BackoffOK'
  BY <1>2 DEF CInv, BackoffOK
<1>4. ASSUME NEW r \in Sem PROVE QueueOK(r)'
  <2>1. waiters'[r] = waiters[r] /\ waiters[r] \in Seq(Task)
    BY <1>t
  <2>2. \A i \in 1 .. Len(waiters[r]) : waiters[r][i] \in Task \ {t}
    BY <2>1, ElementOfSeq DEF CInv, QueueOK, Sent
  <2>. QED  BY <1>2, <2>1, <2>2 DEF CInv, QueueOK
<1>5. Balanced(s)' /\ NoneWaitsInVain(s)'
  <2>1. InFlight(s)' = InFlight(s) \ {t} /\ t \in InFlight(s)
    BY <1>2 DEF InFlight, Sent
  <2>2. Cardinality(InFlight(s)') = Cardinality(InFlight(s)) - 1
    BY <2>1, InFlightFinite, FS_RemoveElement
  <2>3. free'[s] = free[s] + 1 /\ free[s] \in Nat /\ Cardinality(InFlight(s)) \in Nat
    BY <1>t, InFlightFinite, FS_CardinalityType
  <2>4. free[s] + Cardinality(InFlight(s)) = Permits[s]
    BY DEF CInv, Balanced
  <2>5. free'[s] + Cardinality(InFlight(s)') = Permits[s]
    BY <2>2, <2>3, <2>4
  <2>. QED  BY <2>5 DEF Balanced, NoneWaitsInVain
<1>6. ASSUME NEW r \in Sem \ {s} PROVE Balanced(r)' /\ NoneWaitsInVain(r)'
  <2>1. InFlight(r)' = InFlight(r)
    BY <1>2 DEF InFlight, Sent
  <2>2. free'[r] = free[r] /\ waiters'[r] = waiters[r]
    BY <1>t
  <2>. QED  BY <2>1, <2>2 DEF CInv, Balanced, NoneWaitsInVain
<1>. QED  BY <1>1, <1>3, <1>4, <1>5, <1>6 DEF CInv

\* What a call of t that leaves s to the head h of its queue q does, task by task.
Passes(t, s, h, q, after) ==
  /\ Sent(t) /\ request[t].sem = s
  /\ q = waiters[s] /\ q # <<>> /\ h = q[1]
  /\ request' \in [Task -> Calls]
  /\ request'[t] = after /\ after.at \in {"idle", "backoff"}
  /\ (after.at = "backoff" => after.attempt < MaxRetries)
  /\ request'[h].at = "sent" /\ request'[h].sem = s
  /\ \A u \in Task \ {t, h} : request'[u] = request[u]
  /\ waiters' \in [Sem -> Seq(Task)] /\ waiters'[s] = Tail(q)
  /\ \A r \in Sem \ {s} : waiters'[r] = waiters[r]
  /\ UNCHANGED free

\* A permit that is given back while others wait is the first one's.
LEMMA LeavePasses ==
  ASSUME CInv, NEW t \in Task, NEW s \in Sem, NEW h \in Task, NEW q \in Seq(Task),
         NEW after \in Calls, Passes(t, s, h, q, after)
  PROVE  CInv'
<1>. USE DEF Passes
<1>1. /\ Len(q) \in Nat \ {0} /\ Len(Tail(q)) = Len(q) - 1
      /\ \A i \in 1 .. Len(Tail(q)) : Tail(q)[i] = q[i + 1]
  BY HeadTailProperties, EmptySeq
<1>2. /\ \A i \in 1 .. Len(q) : request[q[i]].at = "waiting" /\ request[q[i]].sem = s
      /\ \A i, j \in 1 .. Len(q) : q[i] = q[j] => i = j
      /\ \A i \in 1 .. Len(q) : q[i] \in Task
  BY ElementOfSeq DEF CInv, QueueOK
<1>3. request[h].at = "waiting" /\ request[h].sem = s /\ h # t
  BY <1>1, <1>2 DEF Sent
<1>4. ClientTypeOK'
  BY DEF CInv, ClientTypeOK
<1>5. BackoffOK'
  BY DEF CInv, BackoffOK
<1>6. Balanced(s)' /\ NoneWaitsInVain(s)'
  <2>1. t \in InFlight(s) /\ h \notin InFlight(s)
    BY <1>3 DEF InFlight, Sent
  <2>2. \A u \in Task : u \in InFlight(s)' <=> (u \in InFlight(s) /\ u # t) \/ u = h
    BY <1>3, <2>1 DEF InFlight, Sent
  <2>3. InFlight(s)' = (InFlight(s) \ {t}) \union {h}
    BY <2>2 DEF InFlight
  <2>4. /\ IsFiniteSet(InFlight(s) \ {t})
        /\ Cardinality(InFlight(s) \ {t}) = Cardinality(InFlight(s)) - 1
    BY <2>1, InFlightFinite, FS_RemoveElement
  <2>5. Cardinality((InFlight(s) \ {t}) \union {h}) = Cardinality(InFlight(s) \ {t}) + 1
    BY <2>1, <2>4, FS_AddElement
  <2>6. Cardinality(InFlight(s)) \in Nat
    BY InFlightFinite, FS_CardinalityType
  <2>7. Cardinality(InFlight(s)') = Cardinality(InFlight(s))
    BY <2>3, <2>4, <2>5, <2>6
  <2>. QED  BY <2>7 DEF CInv, Balanced, NoneWaitsInVain
<1>7. QueueOK(s)'
  <2>1. \A i \in 1 .. Len(Tail(q)) : i + 1 \in 1 .. Len(q) /\ i + 1 # 1 /\ Tail(q)[i] = q[i + 1]
    BY <1>1
  <2>2. ASSUME NEW i \in 1 .. Len(Tail(q))
        PROVE  request'[Tail(q)[i]].at = "waiting" /\ request'[Tail(q)[i]].sem = s
    <3>1. i + 1 \in 1 .. Len(q) /\ i + 1 # 1 /\ 1 \in 1 .. Len(q) /\ Tail(q)[i] = q[i + 1]
      BY <1>1, <2>1
    <3>2. /\ q[i + 1] \in Task /\ q[i + 1] # q[1]
          /\ request[q[i + 1]].at = "waiting" /\ request[q[i + 1]].sem = s
      BY <1>2, <3>1
    <3>3. q[i + 1] # t
      BY <3>2 DEF Sent
    <3>. QED  BY <3>1, <3>2, <3>3
  <2>3. ASSUME NEW i \in 1 .. Len(Tail(q)), NEW j \in 1 .. Len(Tail(q)), Tail(q)[i] = Tail(q)[j]
        PROVE  i = j
    <3>1. i + 1 = j + 1
      BY <1>2, <2>1, <2>3
    <3>. QED  BY <3>1
  <2>. QED  BY <2>2, <2>3 DEF QueueOK
<1>8. ASSUME NEW r \in Sem \ {s} PROVE QueueOK(r)' /\ Balanced(r)' /\ NoneWaitsInVain(r)'
  <2>1. \A i \in 1 .. Len(waiters[r]) : waiters[r][i] \in Task \ {t, h}
    <3>1. waiters[r] \in Seq(Task)
      BY DEF CInv, ClientTypeOK
    <3>. QED  BY <1>3, <3>1, ElementOfSeq DEF CInv, QueueOK, Sent
  <2>2. QueueOK(r)'
    <3>1. waiters'[r] = waiters[r]
      OBVIOUS
    <3>2. \A i \in 1 .. Len(waiters[r]) : request'[waiters[r][i]] = request[waiters[r][i]]
      BY <2>1
    <3>3. QueueOK(r)
      BY DEF CInv
    <3>. HIDE DEF Passes
    <3>. QED  BY <3>1, <3>2, <3>3 DEF QueueOK
  <2>3. \A u \in Task : u \in InFlight(r)' <=> u \in InFlight(r)
    BY <1>3 DEF InFlight, Sent
  <2>4. InFlight(r)' = InFlight(r)
    BY <2>3 DEF InFlight
  <2>. QED  BY <2>2, <2>4 DEF CInv, Balanced, NoneWaitsInVain
<1>. QED  BY <1>4, <1>5, <1>6, <1>7, <1>8 DEF CInv

LEMMA LeaveKeeps ==
  ASSUME CInv, NEW t \in Task, Sent(t), NEW after \in Calls,
         after.at \in {"idle", "backoff"},
         after.at = "backoff" => after.attempt < MaxRetries,
         Leave(t, after)
  PROVE  CInv'
<1>1. /\ request \in [Task -> Calls] /\ waiters \in [Sem -> Seq(Task)]
  BY DEF CInv, ClientTypeOK
<1>2. PICK s \in Sem : s = request[t].sem
  BY <1>1 DEF Sent, Calls, Idle
<1>3. CASE waiters[s] = <<>>
  BY <1>2, <1>3, LeaveFrees DEF Leave
<1>4. CASE waiters[s] # <<>>
  <2>1. PICK q \in Seq(Task) : q = waiters[s] /\ q # <<>>
    BY <1>1, <1>4
  <2>2. PICK h \in Task : h = Head(q)
    BY <2>1, HeadTailProperties
  <2>3. h = q[1] /\ Tail(q) \in Seq(Task) /\ Len(q) \in Nat \ {0}
    BY <2>1, <2>2, HeadTailProperties, EmptySeq
  <2>4. /\ request' = [request EXCEPT ![t] = after, ![h].at = "sent"]
        /\ waiters' = [waiters EXCEPT ![s] = Tail(@)] /\ UNCHANGED free
    BY <1>2, <1>4, <2>1, <2>2 DEF Leave
  <2>5. request[h].at = "waiting" /\ request[h].sem = s /\ h # t
    BY <2>1, <2>3 DEF CInv, QueueOK, Sent
  <2>6. request[h] \in [at : {"waiting", "sent", "backoff"}, sem : Sem, attempt : 1 .. MaxRetries]
    BY <1>1, <2>5 DEF Calls, Idle
  <2>7. /\ [request[h] EXCEPT !.at = "sent"] \in Calls
        /\ [request[h] EXCEPT !.at = "sent"].at = "sent"
        /\ [request[h] EXCEPT !.at = "sent"].sem = s
    BY <2>5, <2>6 DEF Calls
  <2>8. /\ request'[t] = after /\ request'[h] = [request[h] EXCEPT !.at = "sent"]
        /\ \A u \in Task \ {t, h} : request'[u] = request[u]
    BY <1>1, <2>4, <2>5
  <2>9. request' \in [Task -> Calls]
    <3>1. request' = [u \in Task |-> request'[u]]
      BY <1>1, <2>4
    <3>2. \A u \in Task : request'[u] \in Calls
      BY <1>1, <2>7, <2>8
    <3>. QED  BY <3>1, <3>2
  <2>10. /\ waiters' \in [Sem -> Seq(Task)] /\ waiters'[s] = Tail(q)
         /\ \A r \in Sem \ {s} : waiters'[r] = waiters[r]
    BY <1>1, <2>1, <2>3, <2>4
  <2>11. request'[h].at = "sent" /\ request'[h].sem = s
    BY <2>7, <2>8
  <2>12. UNCHANGED free
    BY <2>4
  <2>13. Passes(t, s, h, q, after)
    BY <1>2, <2>1, <2>3, <2>8, <2>9, <2>10, <2>11, <2>12 DEF Passes
  <2>. QED  BY <2>13, LeavePasses
<1>. QED  BY <1>3, <1>4

-----------------------------------------------------------------------------
LEMMA ClientInductive == CInv /\ [ClientNext]_client => CInv'
<1>. SUFFICES ASSUME CInv, [ClientNext]_client PROVE CInv'
  OBVIOUS
<1>. USE UpbitClientAssumption
<1>t. request \in [Task -> Calls]
  BY DEF CInv, ClientTypeOK
<1>1. ASSUME NEW t \in Task, NEW s \in Sem, Request(t, s) PROVE CInv'
  <2>1. request[t].at = "idle" /\ Enter(t, s, 1) /\ 1 \in 1 .. MaxRetries
    BY <1>1 DEF Request
  <2>. QED  BY <2>1, EnterKeeps
<1>2. ASSUME NEW t \in Task, Returns(t) \/ GivesUp(t) PROVE CInv'
  <2>1. Idle \in Calls /\ Idle.at = "idle"
    BY DEF Calls, Idle
  <2>2. Sent(t) /\ Leave(t, Idle)
    BY <1>2 DEF Returns, GivesUp
  <2>. QED  BY <2>1, <2>2, LeaveKeeps
<1>3. ASSUME NEW t \in Task, Fails(t) PROVE CInv'
  <2>. DEFINE after == [request[t] EXCEPT !.at = "backoff"]
  <2>1. request[t] \in Calls /\ request[t].at = "sent"
    BY <1>t, <1>3 DEF Fails, Sent
  <2>2. after \in Calls /\ after.at = "backoff" /\ after.attempt = request[t].attempt
    BY <2>1 DEF Calls, Idle
  <2>3. request[t].attempt \in 1 .. MaxRetries /\ request[t].attempt # MaxRetries
    BY <1>3, <2>1 DEF Fails, LastAttempt, Calls, Idle
  <2>4. after.attempt < MaxRetries
    BY <2>2, <2>3
  <2>5. Sent(t) /\ Leave(t, after)
    BY <1>3 DEF Fails
  <2>. QED  BY <2>2, <2>4, <2>5, LeaveKeeps
<1>4. ASSUME NEW t \in Task, Retry(t) PROVE CInv'
  <2>1. request[t] \in Calls /\ request[t].at = "backoff" /\ request[t].attempt < MaxRetries
    BY <1>t, <1>4 DEF Retry, CInv, BackoffOK
  <2>2. request[t].sem \in Sem /\ request[t].attempt + 1 \in 1 .. MaxRetries
    BY <2>1 DEF Calls, Idle
  <2>. QED  BY <1>4, <2>1, <2>2, EnterKeeps DEF Retry
<1>5. CASE UNCHANGED client
  <2>1. request' = request /\ free' = free /\ waiters' = waiters
    BY <1>5 DEF client
  <2>2. ClientTypeOK' /\ BackoffOK'
    BY <2>1 DEF CInv, ClientTypeOK, BackoffOK
  <2>3. \A s \in Sem : InFlight(s)' = InFlight(s)
    BY <2>1 DEF InFlight, Sent
  <2>4. \A s \in Sem : QueueOK(s)' /\ Balanced(s)' /\ NoneWaitsInVain(s)'
    BY <2>1, <2>3 DEF CInv, QueueOK, Balanced, NoneWaitsInVain
  <2>. QED  BY <2>2, <2>4 DEF CInv
<1>. QED  BY <1>1, <1>2, <1>3, <1>4, <1>5 DEF ClientNext

LEMMA ClientInvariance == ClientSpec => []CInv
BY ClientInitInvariant, ClientInductive, PTL DEF ClientSpec

\* UpbitClient: the variables have their types, for any number of tasks and retries.
THEOREM ClientTypeCorrect == ClientSpec => []ClientTypeOK
<1>1. CInv => ClientTypeOK
  BY DEF CInv
<1>. QED  BY <1>1, ClientInvariance, PTL

\* No permit of a semaphore is lost or made, and nobody waits while one is free,
\* for any number of tasks, semaphores and permits and however often calls fail,
\* back off and come again.
THEOREM PermitsAreKept == ClientSpec => []PermitsKept
<1>1. CInv => PermitsKept
  BY DEF CInv, PermitsKept, Balanced, NoneWaitsInVain
<1>. QED  BY <1>1, ClientInvariance, PTL

=============================================================================
