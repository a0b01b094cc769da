--------------------------- MODULE OrderManagerProofs ---------------------------
(***************************************************************************)
(* Proofs about OrderManager: it uses the client as UpbitClient says, so   *)
(* that no permit is lost, and it implements OrderLedger: for any number   *)
(* of traders, closers and retries and any faults no order that is open    *)
(* is forgotten, and every fill is told or stays tracked.                  *)
(***************************************************************************)
EXTENDS OrderManager, UpbitClientProofs

-----------------------------------------------------------------------------
(* The calls of the order manager are calls of the client.                 *)

LEMMA StepCalls == [Next]_vars => [ClientNext]_client
<1>. SUFFICES ASSUME [Next]_vars PROVE [ClientNext]_client
  OBVIOUS
<1>. USE OrderManagerAssumption
<1>1. ASSUME NEW t \in Task, Place(t) \/ Poll(t) \/ TimedOut(t) \/ CancelNext(t)
      PROVE  ClientNext
  <2>1. Request(t, "order")
    BY <1>1 DEF Place, Poll, TimedOut, CancelNext
  <2>. QED  BY <2>1 DEF ClientNext
<1>2. ASSUME NEW t \in Task, Answered(t) \/ Garbled(t) \/ Error(t) \/ Again(t)
      PROVE  ClientNext
  <2>1. Returns(t) \/ Fails(t) \/ GivesUp(t) \/ Retry(t)
    BY <1>2 DEF Answered, Garbled, Error, Again
  <2>. QED  BY <2>1 DEF ClientNext
<1>3. ASSUME NEW t \in Task,
             Served(t) \/ Deadline(t) \/ CancelAll(t) \/ AllCancelled(t)
      PROVE  UNCHANGED client
  BY <1>3 DEF Served, Deadline, CancelAll, AllCancelled
<1>4. ASSUME NEW o \in Order, \/ \E how \in {"done", "cancel"} : Closes(o, how)
                              \/ \E what \in {"create", "cancel"} : Arrives(what, o)
      PROVE  UNCHANGED client
  BY <1>4 DEF Closes, Arrives
<1>5. CASE UNCHANGED vars
  BY <1>5 DEF vars
<1>. QED  BY <1>1, <1>2, <1>3, <1>4, <1>5 DEF Next, Step

\* Traders and closers use the client as its specification allows.
THEOREM OrdersUseTheClient == Spec => ClientSpec
<1>1. Init => ClientInit
  BY DEF Init
<1>. QED  BY <1>1, StepCalls, PTL DEF Spec, ClientSpec

\* Whatever traders, closers, Upbit and the network do, no permit is lost.
THEOREM OrdersKeepPermits == Spec => []PermitsKept
BY OrdersUseTheClient, PermitsAreKept, PTL

-----------------------------------------------------------------------------
(* The inductive invariant.                                                *)

States == {"none", "wait", "done", "cancel"}
Labels == {"start", "placing", "watching", "polling", "closing", "cancelling", "end"}

ManagerTypeOK ==
  /\ state \in [Order -> States]
  /\ reply \in [Task -> {"none", "ok", "refused", "wait", "done", "cancel"}]
  /\ late \subseteq {"create", "cancel"} \X Order
  /\ pending \subseteq Order
  /\ pc \in [Task -> Labels]
  /\ mine \in [Task -> Order \union {None}]
  /\ expired \subseteq Trader
  /\ todo \in [Closer -> SUBSET Order]
  /\ filled \subseteq Trader

\* Only traders place and wait, only closers close, and who polls or cancels has
\* an order, which exists; a trader's is its own.
RoleOK(t) ==
  /\ (pc[t] \in {"placing", "watching", "polling"} => t \in Trader)
  /\ (pc[t] = "closing" => t \in Closer)
  /\ (pc[t] \in {"watching", "polling", "cancelling"} => mine[t] # None)
  /\ (mine[t] # None => state[mine[t]] # "none")
  /\ (t \in Trader /\ mine[t] # None => \E n \in 1 .. MaxRetries : mine[t] = <<t, n>>)
  /\ (t \in filled => pc[t] = "end")

\* What Upbit answered is still true when the task hears of it.
ReplyOK(t) ==
  /\ (reply[t] # "none" => Sent(t) /\ pc[t] \in {"placing", "polling", "cancelling"})
  /\ (pc[t] = "placing" /\ reply[t] \notin {"none", "refused"} => state[Made(t)] # "none")
  /\ (pc[t] = "polling" /\ reply[t] \in {"done", "cancel"} => state[mine[t]] = reply[t])
  /\ (pc[t] = "cancelling" /\ reply[t] \notin {"none", "refused"} => state[mine[t]] = "cancel")

\* The n-th attempt of t to place its order has not reached Upbit, and never will
\* if it is not made.
Untried(t, n) ==
  \/ pc[t] = "start"
  \/ pc[t] = "placing" /\ request[t].attempt < n
  \/ /\ pc[t] = "placing" /\ request[t].attempt = n
     /\ request[t].at # "backoff" /\ reply[t] \in {"none", "refused"}

FreshOK(t) ==
  \A n \in 1 .. MaxRetries :
    t \in Trader /\ Untried(t, n)
      => state[<<t, n>>] = "none" /\ <<"create", <<t, n>>>> \notin late

\* An order that is still on its way does not exist.
LateOK == \A o \in Order : <<"create", o>> \in late => state[o] = "none"

\* What is tracked, or was copied from what is tracked, exists.
TrackedOK ==
  /\ \A o \in pending : state[o] # "none"
  /\ \A c \in Closer : \A o \in todo[c] : state[o] # "none"

TaskOK(t) == RoleOK(t) /\ ReplyOK(t) /\ FreshOK(t)

OInv ==
  /\ ManagerTypeOK /\ LateOK /\ TrackedOK /\ UntoldFillTracked
  /\ \A t \in Task : TaskOK(t)

LEMMA OrderFacts ==
  /\ None \notin Order
  /\ Trader \subseteq Task /\ Closer \subseteq Task
  /\ \A t \in Trader : \A n \in 1 .. MaxRetries : <<t, n>> \in Order
<1>1. MaxRetries \in Nat
  BY UpbitClientAssumption
<1>. QED  BY <1>1, OrderManagerAssumption DEF Order

LEMMA OrderInit == Init => OInv
<1>. SUFFICES ASSUME Init PROVE OInv
  OBVIOUS
<1>. USE OrderFacts DEF Init
<1>1. ManagerTypeOK
  BY DEF ManagerTypeOK, States, Labels
<1>2. LateOK /\ TrackedOK /\ UntoldFillTracked
  BY DEF LateOK, TrackedOK, UntoldFillTracked
<1>3. ASSUME NEW t \in Task PROVE TaskOK(t)
  <2>1. pc[t] = "start" /\ mine[t] = None /\ reply[t] = "none" /\ t \notin filled
    OBVIOUS
  <2>2. RoleOK(t) /\ ReplyOK(t)
    BY <2>1 DEF RoleOK, ReplyOK
  <2>3. FreshOK(t)
    BY DEF FreshOK
  <2>. QED  BY <2>2, <2>3 DEF TaskOK
<1>. QED  BY <1>1, <1>2, <1>3 DEF OInv

-----------------------------------------------------------------------------
(* What a step of one task leaves of the others.                           *)

\* The call of u is the same, but that it may have got its permit.
CallKept(u) ==
  /\ request'[u].attempt = request[u].attempt
  /\ (Sent(u) => request'[u].at = "sent")
  /\ (request'[u].at = "backoff" <=> request[u].at = "backoff")

\* A call of t, whatever becomes of it.
ClientStep(t) ==
  \/ Request(t, "order") \/ Returns(t) \/ Fails(t) \/ GivesUp(t) \/ Retry(t)

LEMMA CallsKept ==
  ASSUME CInv, NEW t \in Task, ClientStep(t)
  PROVE  \A u \in Task \ {t} : CallKept(u)
<1>. SUFFICES ASSUME NEW u \in Task \ {t} PROVE CallKept(u)
  OBVIOUS
<1>1. request \in [Task -> Calls] /\ waiters \in [Sem -> Seq(Task)]
  BY DEF CInv, ClientTypeOK
<1>2. ASSUME NEW s, NEW n, Enter(t, s, n) PROVE CallKept(u)
  <2>1. request'[u] = request[u]
    BY <1>1, <1>2 DEF Enter
  <2>. QED  BY <2>1 DEF CallKept, Sent
<1>3. ASSUME NEW after, Sent(t), Leave(t, after) PROVE CallKept(u)
  <2>1. PICK s \in Sem : s = request[t].sem
    BY <1>1, <1>3 DEF Sent, Calls, Idle
  <2>2. CASE waiters[s] = <<>>
    <3>1. request'[u] = request[u]
      BY <1>1, <1>3, <2>1, <2>2 DEF Leave
    <3>. QED  BY <3>1 DEF CallKept, Sent
  <2>3. CASE waiters[s] # <<>>
    <3>1. PICK h \in Task : h = Head(waiters[s]) /\ h = waiters[s][1]
      BY <1>1, <2>3, HeadTailProperties
    <3>2. request[h].at = "waiting"
      <4>1. 1 \in 1 .. Len(waiters[s])
        BY <1>1, <2>3, EmptySeq
      <4>. QED  BY <3>1, <4>1 DEF CInv, QueueOK
    <3>3. request' = [request EXCEPT ![t] = after, ![h].at = "sent"]
      BY <1>3, <2>1, <2>3, <3>1 DEF Leave
    <3>4. CASE u # h
      <4>1. request'[u] = request[u]
        BY <1>1, <3>3, <3>4
      <4>. QED  BY <4>1 DEF CallKept, Sent
    <3>5. CASE u = h
      <4>1. request'[u] = [request[u] EXCEPT !.at = "sent"]
        BY <1>1, <3>3, <3>5
      <4>2. request[u] \in [at : {"waiting", "sent", "backoff"}, sem : Sem, attempt : 1 .. MaxRetries]
        BY <1>1, <3>2, <3>5 DEF Calls, Idle
      <4>. QED  BY <3>2, <3>5, <4>1, <4>2 DEF CallKept, Sent
    <3>. QED  BY <3>4, <3>5
  <2>. QED  BY <2>2, <2>3
<1>. QED  BY <1>2, <1>3 DEF ClientStep, Request, Returns, Fails, GivesUp, Retry

LEMMA LeaveSets ==
  ASSUME CInv, NEW t \in Task, NEW after, Sent(t), Leave(t, after)
  PROVE  request'[t] = after
<1>1. request \in [Task -> Calls] /\ waiters \in [Sem -> Seq(Task)]
  BY DEF CInv, ClientTypeOK
<1>2. PICK s \in Sem : s = request[t].sem
  BY <1>1 DEF Sent, Calls, Idle
<1>3. CASE waiters[s] = <<>>
  BY <1>1, <1>2, <1>3 DEF Leave
<1>4. CASE waiters[s] # <<>>
  <2>1. PICK h \in Task : h = Head(waiters[s]) /\ h = waiters[s][1]
    BY <1>1, <1>4, HeadTailProperties
  <2>2. h # t
    <3>1. 1 \in 1 .. Len(waiters[s])
      BY <1>1, <1>4, EmptySeq
    <3>. QED  BY <2>1, <3>1 DEF CInv, QueueOK, Sent
  <2>3. request' = [request EXCEPT ![t] = after, ![h].at = "sent"]
    BY <1>2, <1>4, <2>1 DEF Leave
  <2>. QED  BY <1>1, <2>2, <2>3
<1>. QED  BY <1>3, <1>4

\* A step of t that leaves Upbit's orders alone and no order of another trader late.
Local(t) ==
  /\ UNCHANGED state
  /\ \A u \in Task \ {t} :
       /\ pc'[u] = pc[u] /\ mine'[u] = mine[u] /\ reply'[u] = reply[u]
       /\ CallKept(u)
       /\ (u \in filled' => u \in filled)
       /\ \A n \in 1 .. MaxRetries :
            <<"create", <<u, n>>>> \in late' => <<"create", <<u, n>>>> \in late

LEMMA OthersUndisturbed ==
  ASSUME OInv, NEW t \in Task, Local(t)
  PROVE  \A u \in Task \ {t} : TaskOK(u)'
<1>. SUFFICES ASSUME NEW u \in Task \ {t} PROVE TaskOK(u)'
  OBVIOUS
<1>1. /\ pc'[u] = pc[u] /\ mine'[u] = mine[u] /\ reply'[u] = reply[u]
      /\ CallKept(u) /\ state' = state /\ (u \in filled' => u \in filled)
      /\ \A n \in 1 .. MaxRetries :
           <<"create", <<u, n>>>> \in late' => <<"create", <<u, n>>>> \in late
  BY DEF Local
<1>2. RoleOK(u) /\ ReplyOK(u) /\ FreshOK(u)
  BY DEF OInv, TaskOK
<1>3. RoleOK(u)'
  BY <1>1, <1>2 DEF RoleOK
<1>4. ReplyOK(u)'
  <2>1. Made(u)' = Made(u) /\ (Sent(u) => Sent(u)')
    BY <1>1 DEF Made, CallKept, Sent
  <2>. QED  BY <1>1, <1>2, <2>1 DEF ReplyOK
<1>5. FreshOK(u)'
  <2>1. \A n \in 1 .. MaxRetries : Untried(u, n)' => Untried(u, n)
    BY <1>1 DEF Untried, CallKept
  <2>. QED  BY <1>1, <1>2, <2>1 DEF FreshOK
<1>. QED  BY <1>3, <1>4, <1>5 DEF TaskOK

-----------------------------------------------------------------------------
(* Steps of Upbit and the network.                                         *)

\* Orders only ever go forward.
Forward ==
  \A o \in Order :
    \/ state'[o] = state[o]
    \/ state[o] = "none" /\ state'[o] = "wait"
    \/ state[o] = "wait" /\ state'[o] \in {"done", "cancel"}

\* Upbit moves on, and creates no order whose attempt is still to come.
UpbitStep ==
  /\ Forward
  /\ state' \in [Order -> States]
  /\ UNCHANGED <<client, manager>>
  /\ late' \subseteq late
  /\ \A o \in Order : <<"create", o>> \in late' => state'[o] = "none"

\* Upbit's progress does not hurt a task whose answer stays what it is.
LEMMA UpbitKeepsTask ==
  ASSUME ClientTypeOK, OInv, UpbitStep, NEW u \in Task, reply'[u] = reply[u],
         \A n \in 1 .. MaxRetries :
           u \in Trader /\ Untried(u, n) => state'[<<u, n>>] = state[<<u, n>>]
  PROVE  TaskOK(u)'
<1>1. /\ request' = request /\ pc' = pc /\ mine' = mine /\ filled' = filled
  BY DEF UpbitStep, client, manager
<1>2. RoleOK(u) /\ ReplyOK(u) /\ FreshOK(u) /\ mine[u] \in Order \union {None}
  BY DEF OInv, TaskOK, ManagerTypeOK
<1>3. mine[u] # None => mine[u] \in Order
  BY <1>2
<1>4. RoleOK(u)'
  BY <1>1, <1>2, <1>3 DEF RoleOK, UpbitStep, Forward
<1>5. ReplyOK(u)'
  <2>1. pc[u] = "placing" /\ Sent(u) => Made(u) \in Order
    <3>1. Sent(u) => request[u].attempt \in 1 .. MaxRetries
      BY DEF ClientTypeOK, Calls, Idle, Sent
    <3>. QED  BY <1>2, <3>1, OrderFacts DEF RoleOK, Made
  <2>2. Made(u)' = Made(u) /\ Sent(u)' = Sent(u)
    BY <1>1 DEF Made, Sent
  <2>3. pc[u] = "placing" /\ reply[u] \notin {"none", "refused"} => state'[Made(u)] # "none"
    BY <1>2, <2>1 DEF ReplyOK, UpbitStep, Forward
  <2>4. pc[u] = "polling" /\ reply[u] \in {"done", "cancel"} => state'[mine[u]] = reply[u]
    BY <1>2, <1>3 DEF ReplyOK, RoleOK, UpbitStep, Forward
  <2>5. pc[u] = "cancelling" /\ reply[u] \notin {"none", "refused"} => state'[mine[u]] = "cancel"
    BY <1>2, <1>3 DEF ReplyOK, RoleOK, UpbitStep, Forward
  <2>. QED  BY <1>1, <1>2, <2>2, <2>3, <2>4, <2>5 DEF ReplyOK
<1>6. FreshOK(u)'
  <2>1. \A n \in 1 .. MaxRetries : Untried(u, n)' => Untried(u, n)
    BY <1>1 DEF Untried
  <2>. QED  BY <1>2, <2>1 DEF FreshOK, UpbitStep
<1>. QED  BY <1>4, <1>5, <1>6 DEF TaskOK

\* Nor does it hurt what is tracked.
LEMMA UpbitKeepsBooks ==
  ASSUME OInv, UpbitStep
  PROVE  LateOK' /\ TrackedOK' /\ UntoldFillTracked'
<1>1. /\ pending' = pending /\ todo' = todo /\ mine' = mine /\ filled' = filled
  BY DEF UpbitStep, manager
<1>2. LateOK'
  BY DEF UpbitStep, LateOK
<1>3. TrackedOK'
  <2>1. pending \subseteq Order /\ \A c \in Closer : todo[c] \subseteq Order
    BY DEF OInv, ManagerTypeOK
  <2>. QED  BY <1>1, <2>1 DEF OInv, TrackedOK, UpbitStep, Forward
<1>4. UntoldFillTracked'
  <2>1. \A t \in Trader : mine[t] # None => mine[t] \in Order /\ state[mine[t]] # "none"
    BY OrderFacts DEF OInv, ManagerTypeOK, TaskOK, RoleOK
  <2>2. \A t \in Trader : mine[t] # None /\ state'[mine[t]] \in {"wait", "done"}
                            => state[mine[t]] \in {"wait", "done"}
    BY <2>1 DEF UpbitStep, Forward
  <2>. QED  BY <1>1, <2>2 DEF OInv, UntoldFillTracked
<1>. QED  BY <1>2, <1>3, <1>4

LEMMA ServedKeeps == ASSUME ClientTypeOK, OInv, NEW t \in Task, Served(t) PROVE OInv'
<1>1. /\ Sent(t) /\ reply[t] = "none" /\ UNCHANGED <<client, late, manager>>
  BY DEF Served
<1>2. RoleOK(t) /\ ReplyOK(t) /\ FreshOK(t) /\ mine[t] \in Order \union {None}
  BY DEF OInv, TaskOK, ManagerTypeOK
<1>3. /\ state \in [Order -> States] /\ state' \in [Order -> States]
      /\ reply \in [Task -> {"none", "ok", "refused", "wait", "done", "cancel"}]
      /\ reply' \in [Task -> {"none", "ok", "refused", "wait", "done", "cancel"}]
  <2>1. /\ state \in [Order -> States]
        /\ reply \in [Task -> {"none", "ok", "refused", "wait", "done", "cancel"}]
    BY DEF OInv, ManagerTypeOK
  <2>2. state' \in [Order -> States]
    BY <2>1 DEF Served, States
  <2>3. pc[t] = "polling" => state[mine[t]] \in States
    BY <1>2, <2>1 DEF RoleOK
  <2>4. reply' \in [Task -> {"none", "ok", "refused", "wait", "done", "cancel"}]
    BY <2>1, <2>3 DEF Served, Answer, States
  <2>. QED  BY <2>1, <2>2, <2>4
<1>4. ManagerTypeOK'
  BY <1>1, <1>3 DEF OInv, ManagerTypeOK, manager
<1>5. \A u \in Task \ {t} : reply'[u] = reply[u]
  BY <1>3 DEF Served, Answer
<1>6. pc[t] = "placing" => t \in Trader /\ request[t].attempt \in 1 .. MaxRetries
                            /\ Made(t) \in Order /\ Untried(t, request[t].attempt)
  <2>1. request[t].attempt \in 1 .. MaxRetries /\ request[t].at # "backoff"
    BY <1>1 DEF ClientTypeOK, Calls, Idle, Sent
  <2>. QED  BY <1>1, <1>2, <2>1, OrderFacts DEF RoleOK, Made, Untried
<1>7. pc[t] = "placing" => state[Made(t)] = "none" /\ <<"create", Made(t)>> \notin late
  BY <1>2, <1>6 DEF FreshOK, Made
<1>8. CASE pc[t] = "placing" /\ state' = [state EXCEPT ![Made(t)] = "wait"] /\ Answer(t, "ok")
  <2>1. /\ state'[Made(t)] = "wait" /\ reply'[t] = "ok"
        /\ \A o \in Order : o # Made(t) => state'[o] = state[o]
    BY <1>3, <1>6, <1>8 DEF Answer
  <2>2. Forward
    BY <1>7, <1>8, <2>1 DEF Forward
  <2>3. UpbitStep
    BY <1>1, <1>3, <1>7, <1>8, <2>1, <2>2 DEF UpbitStep, OInv, LateOK
  <2>4. ASSUME NEW u \in Task \ {t} PROVE TaskOK(u)'
    <3>1. \A n \in 1 .. MaxRetries : u \in Trader => <<u, n>> \in Order /\ <<u, n>> # Made(t)
      BY OrderFacts DEF Made
    <3>2. \A n \in 1 .. MaxRetries : u \in Trader => state'[<<u, n>>] = state[<<u, n>>]
      BY <2>1, <3>1
    <3>. QED  BY <1>5, <2>3, <3>2, UpbitKeepsTask
  <2>5. TaskOK(t)'
    <3>1. /\ request' = request /\ pc' = pc /\ mine' = mine /\ filled' = filled
      BY <1>1 DEF client, manager
    <3>2. RoleOK(t)'
      BY <1>2, <2>2, <3>1 DEF RoleOK, Forward
    <3>3. Made(t)' = Made(t) /\ Sent(t)'
      BY <1>1, <3>1 DEF Made, Sent
    <3>4. ReplyOK(t)'
      BY <1>8, <2>1, <3>1, <3>3 DEF ReplyOK
    <3>5. FreshOK(t)'
      <4>1. ASSUME NEW n \in 1 .. MaxRetries, Untried(t, n)' PROVE n # request[t].attempt /\ Untried(t, n)
        <5>1. request[t].attempt \in Nat /\ request[t].attempt < n
          BY <1>6, <1>8, <2>1, <3>1, <4>1 DEF Untried
        <5>. QED  BY <1>8, <5>1 DEF Untried
      <4>2. ASSUME NEW n \in 1 .. MaxRetries, Untried(t, n)' PROVE state'[<<t, n>>] = state[<<t, n>>]
        <5>1. <<t, n>> # Made(t) /\ <<t, n>> \in Order
          BY <1>6, <1>8, <4>1, <4>2, OrderFacts DEF Made
        <5>. QED  BY <2>1, <5>1
      <4>. QED  BY <1>1, <1>2, <4>1, <4>2 DEF FreshOK
    <3>. QED  BY <3>2, <3>4, <3>5 DEF TaskOK
  <2>. QED  BY <1>4, <2>3, <2>4, <2>5, UpbitKeepsBooks DEF OInv
<1>9. CASE \/ pc[t] = "placing" /\ UNCHANGED state /\ Answer(t, "refused")
           \/ pc[t] = "polling" /\ UNCHANGED state /\ Answer(t, state[mine[t]])
           \/ pc[t] = "cancelling" /\ state[mine[t]] # "wait" /\ UNCHANGED state /\ Answer(t, "refused")
  <2>1. state' = state
    BY <1>9
  <2>2. UpbitStep
    BY <1>1, <1>3, <2>1 DEF UpbitStep, Forward, OInv, LateOK
  <2>3. \A u \in Task \ {t} : TaskOK(u)'
    BY <1>5, <2>1, <2>2, UpbitKeepsTask
  <2>4. TaskOK(t)'
    <3>1. /\ request' = request /\ pc' = pc /\ mine' = mine /\ filled' = filled
      BY <1>1 DEF client, manager
    <3>2. RoleOK(t)'
      BY <1>2, <2>1, <3>1 DEF RoleOK
    <3>3. Sent(t)'
      BY <1>1, <3>1 DEF Sent
    <3>4. /\ (pc[t] = "placing" => reply'[t] = "refused")
          /\ (pc[t] = "polling" => reply'[t] = state[mine[t]])
          /\ (pc[t] = "cancelling" => reply'[t] = "refused")
          /\ pc[t] \in {"placing", "polling", "cancelling"}
      BY <1>3, <1>9 DEF Answer
    <3>5. ReplyOK(t)'
      BY <2>1, <3>1, <3>3, <3>4 DEF ReplyOK
    <3>6. FreshOK(t)'
      <4>1. \A n \in 1 .. MaxRetries : Untried(t, n)' => Untried(t, n)
        BY <1>1, <3>1 DEF Untried
      <4>. QED  BY <1>1, <1>2, <2>1, <4>1 DEF FreshOK
    <3>. QED  BY <3>2, <3>5, <3>6 DEF TaskOK
  <2>. QED  BY <1>4, <2>2, <2>3, <2>4, UpbitKeepsBooks DEF OInv
<1>10. CASE /\ pc[t] = "cancelling" /\ state[mine[t]] = "wait"
            /\ state' = [state EXCEPT ![mine[t]] = "cancel"] /\ Answer(t, "ok")
  <2>1. mine[t] \in Order
    BY <1>2, <1>10 DEF RoleOK
  <2>2. /\ state'[mine[t]] = "cancel" /\ reply'[t] = "ok"
        /\ \A o \in Order : o # mine[t] => state'[o] = state[o]
    BY <1>3, <1>10, <2>1 DEF Answer
  <2>3. Forward
    BY <1>10, <2>2 DEF Forward
  <2>4. UpbitStep
    BY <1>1, <1>3, <1>10, <2>2, <2>3 DEF UpbitStep, OInv, LateOK
  <2>5. ASSUME NEW u \in Task, NEW n \in 1 .. MaxRetries, u \in Trader, Untried(u, n)
        PROVE  state'[<<u, n>>] = state[<<u, n>>]
    <3>1. state[<<u, n>>] = "none" /\ <<u, n>> \in Order
      BY <2>5, OrderFacts DEF OInv, TaskOK, FreshOK
    <3>. QED  BY <1>10, <2>2, <3>1
  <2>6. \A u \in Task \ {t} : TaskOK(u)'
    BY <1>5, <2>4, <2>5, UpbitKeepsTask
  <2>7. TaskOK(t)'
    <3>1. /\ request' = request /\ pc' = pc /\ mine' = mine /\ filled' = filled
      BY <1>1 DEF client, manager
    <3>2. RoleOK(t)'
      BY <1>2, <2>1, <2>3, <3>1 DEF RoleOK, Forward
    <3>3. Sent(t)'
      BY <1>1, <3>1 DEF Sent
    <3>4. ReplyOK(t)'
      BY <1>10, <2>2, <3>1, <3>3 DEF ReplyOK
    <3>5. FreshOK(t)'
      BY <1>10, <3>1 DEF FreshOK, Untried
    <3>. QED  BY <3>2, <3>4, <3>5 DEF TaskOK
  <2>. QED  BY <1>4, <2>4, <2>6, <2>7, UpbitKeepsBooks DEF OInv
<1>. QED  BY <1>8, <1>9, <1>10 DEF Served

\* An order is closed, or a request that was given up arrives.
LEMMA OrderMovesKeeps ==
  ASSUME ClientTypeOK, OInv, NEW o \in Order,
         \/ \E how \in {"done", "cancel"} : Closes(o, how)
         \/ \E what \in {"create", "cancel"} : Arrives(what, o)
  PROVE  OInv'
<1>1. /\ UNCHANGED <<client, reply, manager>> /\ late' \subseteq late
      /\ state \in [Order -> States] /\ state' \in [Order -> States]
      /\ \A p \in Order \ {o} : state'[p] = state[p]
  BY DEF Closes, Arrives, OInv, ManagerTypeOK, States
<1>2. \/ state'[o] = state[o]
      \/ state[o] = "wait" /\ state'[o] \in {"done", "cancel"}
      \/ state[o] = "none" /\ state'[o] = "wait" /\ <<"create", o>> \in late \ late'
  <2>1. CASE \E how \in {"done", "cancel"} : Closes(o, how)
    BY <1>1, <2>1 DEF Closes
  <2>2. CASE Arrives("create", o)
    <3>1. state'[o] = "wait" /\ <<"create", o>> \in late \ late'
      BY <1>1, <2>2 DEF Arrives
    <3>2. state[o] = "none"
      BY <3>1 DEF OInv, LateOK
    <3>. QED  BY <3>1, <3>2
  <2>3. CASE Arrives("cancel", o)
    BY <1>1, <2>3 DEF Arrives
  <2>. QED  BY <2>1, <2>2, <2>3
<1>3. UpbitStep
  <2>1. Forward
    BY <1>1, <1>2 DEF Forward
  <2>2. \A p \in Order : <<"create", p>> \in late' => state'[p] = "none"
    BY <1>1, <1>2 DEF OInv, LateOK
  <2>. QED  BY <1>1, <2>1, <2>2 DEF UpbitStep
<1>4. ASSUME NEW u \in Task, NEW n \in 1 .. MaxRetries, u \in Trader, Untried(u, n)
      PROVE  state'[<<u, n>>] = state[<<u, n>>]
  <2>1. /\ state[<<u, n>>] = "none" /\ <<"create", <<u, n>>>> \notin late
        /\ <<u, n>> \in Order
    BY <1>4, OrderFacts DEF OInv, TaskOK, FreshOK
  <2>. QED  BY <1>1, <1>2, <2>1
<1>5. \A u \in Task : TaskOK(u)'
  BY <1>1, <1>3, <1>4, UpbitKeepsTask
<1>6. ManagerTypeOK'
  BY <1>1 DEF OInv, ManagerTypeOK, manager
<1>. QED  BY <1>3, <1>5, <1>6, UpbitKeepsBooks DEF OInv

-----------------------------------------------------------------------------
(* Steps of a task.                                                        *)

LEMMA StepsAreLocal ==
  ASSUME CInv, OInv, NEW t \in Task, Step(t) \/ Deadline(t)
  PROVE  Local(t)
<1>t. /\ reply \in [Task -> {"none", "ok", "refused", "wait", "done", "cancel"}]
      /\ pc \in [Task -> Labels] /\ mine \in [Task -> Order \union {None}]
  BY DEF OInv, ManagerTypeOK
<1>1. state' = state
  BY DEF Step, Place, Poll, TimedOut, CancelAll, CancelNext, AllCancelled, Answered, Garbled,
         Error, Again, Deadline, upbit
<1>2. \A u \in Task \ {t} : reply'[u] = reply[u]
  BY <1>t DEF Step, Place, Poll, TimedOut, CancelAll, CancelNext, AllCancelled, Answered,
         Garbled, Error, Again, Deadline, upbit, Answer
<1>3. \A u \in Task \ {t} : pc'[u] = pc[u] /\ mine'[u] = mine[u] /\ (u \in filled' => u \in filled)
  <2>1. CASE Place(t) \/ Poll(t) \/ TimedOut(t) \/ Deadline(t)
    BY <1>t, <2>1 DEF Place, Poll, TimedOut, Deadline, Goto
  <2>2. CASE CancelAll(t) \/ CancelNext(t) \/ AllCancelled(t)
    BY <1>t, <2>2 DEF CancelAll, CancelNext, AllCancelled, Goto
  <2>3. CASE Answered(t)
    BY <1>t, <2>3 DEF Answered, Placed, Polled, Cancelled, Goto, Back
  <2>4. CASE Garbled(t)
    BY <1>t, <2>4 DEF Garbled, Raised, Goto, Back
  <2>5. CASE Error(t)
    BY <1>t, <2>5 DEF Error, Raised, Goto, Back
  <2>6. CASE Again(t)
    BY <2>6 DEF Again, manager
  <2>. QED  BY <2>1, <2>2, <2>3, <2>4, <2>5, <2>6 DEF Step
<1>4. \A u \in Task \ {t} : CallKept(u)
  <2>1. CASE ClientStep(t)
    BY <2>1, CallsKept
  <2>2. CASE UNCHANGED client
    BY <2>2 DEF client, CallKept, Sent
  <2>3. ClientStep(t) \/ UNCHANGED client
    BY DEF Step, Place, Poll, TimedOut, CancelAll, CancelNext, AllCancelled, Answered,
           Garbled, Error, Again, Deadline, ClientStep
  <2>. QED  BY <2>1, <2>2, <2>3
<1>5. ASSUME NEW u \in Task \ {t}, NEW n \in 1 .. MaxRetries, <<"create", <<u, n>>>> \in late'
      PROVE  <<"create", <<u, n>>>> \in late
  <2>1. late' = late \/ late' = late \union OnTheWire(t)
    BY DEF Step, Place, Poll, TimedOut, CancelAll, CancelNext, AllCancelled, Answered,
           Garbled, Error, Unanswered, Again, Deadline, upbit
  <2>2. <<"create", <<u, n>>>> \notin OnTheWire(t)
    BY DEF OnTheWire, Made
  <2>. QED  BY <1>5, <2>1, <2>2
<1>. QED  BY <1>1, <1>2, <1>3, <1>4, <1>5 DEF Local

\* A task begins a call: for its first attempt, or to poll or cancel its order.
LEMMA CallBegins ==
  ASSUME CInv, OInv, NEW t \in Task, Place(t) \/ Poll(t) \/ TimedOut(t) \/ CancelNext(t)
  PROVE  OInv'
<1>. USE OrderFacts, OrderManagerAssumption
<1>1. Local(t) /\ \A u \in Task \ {t} : TaskOK(u)'
  BY StepsAreLocal, OthersUndisturbed DEF Step
<1>2. RoleOK(t) /\ ReplyOK(t) /\ FreshOK(t)
  BY DEF OInv, TaskOK
<1>3. Request(t, "order") /\ UNCHANGED <<upbit, pending, expired, filled>>
  BY DEF Place, Poll, TimedOut, CancelNext
<1>4. reply'[t] = "none" /\ UNCHANGED <<state, reply, late>>
  <2>1. ~Sent(t)
    BY <1>3 DEF Request, Sent
  <2>. QED  BY <1>2, <1>3, <2>1 DEF ReplyOK, upbit
<1>5. /\ pc' \in [Task -> Labels]
      /\ \/ pc[t] = "start" /\ pc'[t] = "placing" /\ t \in Trader
         \/ pc[t] = "watching" /\ pc'[t] \in {"polling", "cancelling"}
         \/ pc[t] = "closing" /\ pc'[t] = "cancelling"
  BY DEF Place, Poll, TimedOut, CancelNext, Goto, Labels, OInv, ManagerTypeOK
<1>6. \/ mine' = mine /\ todo' = todo /\ pc[t] # "closing"
      \/ /\ pc[t] = "closing" /\ t \in Closer
         /\ mine'[t] \in todo[t]
         /\ mine' \in [Task -> Order \union {None}]
         /\ \A u \in Task \ {t} : mine'[u] = mine[u]
         /\ todo' \in [Closer -> SUBSET Order]
         /\ \A c \in Closer : todo'[c] \subseteq todo[c]
  <2>1. CASE Place(t) \/ Poll(t) \/ TimedOut(t)
    BY <2>1 DEF Place, Poll, TimedOut
  <2>2. CASE CancelNext(t)
    <3>1. pc[t] = "closing" /\ t \in Closer
      BY <1>2, <2>2 DEF CancelNext, RoleOK
    <3>2. PICK o \in todo[t] : /\ mine' = [mine EXCEPT ![t] = o]
                               /\ todo' = [todo EXCEPT ![t] = @ \ {o}]
      BY <2>2 DEF CancelNext
    <3>3. mine \in [Task -> Order \union {None}] /\ todo \in [Closer -> SUBSET Order]
      BY DEF OInv, ManagerTypeOK
    <3>4. o \in Order
      BY <3>1, <3>2, <3>3
    <3>5. /\ mine'[t] \in todo[t]
          /\ mine' \in [Task -> Order \union {None}]
          /\ \A u \in Task \ {t} : mine'[u] = mine[u]
      BY <3>2, <3>3, <3>4
    <3>6. /\ todo' \in [Closer -> SUBSET Order]
          /\ \A c \in Closer : todo'[c] \subseteq todo[c]
      BY <3>1, <3>2, <3>3
    <3>. QED  BY <3>1, <3>5, <3>6
  <2>. QED  BY <2>1, <2>2
<1>7. ManagerTypeOK'
  BY <1>3, <1>4, <1>5, <1>6 DEF OInv, ManagerTypeOK, upbit
<1>8. LateOK' /\ TrackedOK'
  BY <1>3, <1>4, <1>6 DEF OInv, LateOK, TrackedOK
<1>9. UntoldFillTracked'
  <2>1. \A u \in Trader : mine'[u] = mine[u]
    BY <1>6
  <2>. QED  BY <1>3, <1>4, <2>1 DEF OInv, UntoldFillTracked
<1>10. TaskOK(t)'
  <2>1. RoleOK(t)'
    <3>1. CASE mine' = mine /\ pc[t] # "closing"
      BY <1>2, <1>3, <1>4, <1>5, <3>1 DEF RoleOK
    <3>2. CASE t \in Closer /\ pc[t] = "closing" /\ mine'[t] \in todo[t]
      <4>1. mine'[t] \in Order /\ state[mine'[t]] # "none"
        BY <3>2 DEF OInv, ManagerTypeOK, TrackedOK
      <4>. QED  BY <1>2, <1>3, <1>4, <1>5, <3>2, <4>1 DEF RoleOK
    <3>. QED  BY <1>6, <3>1, <3>2
  <2>2. ReplyOK(t)'
    BY <1>4 DEF ReplyOK
  <2>3. FreshOK(t)'
    <3>1. \A n \in 1 .. MaxRetries : Untried(t, n)' => Untried(t, n)
      BY <1>5 DEF Untried
    <3>. QED  BY <1>2, <1>4, <3>1 DEF FreshOK
  <2>. QED  BY <2>1, <2>2, <2>3 DEF TaskOK
<1>. QED  BY <1>1, <1>7, <1>8, <1>9, <1>10 DEF OInv

\* A deadline passes, or a closer begins or ends.
LEMMA TurnKeeps ==
  ASSUME CInv, OInv, NEW t \in Task, Deadline(t) \/ CancelAll(t) \/ AllCancelled(t)
  PROVE  OInv'
<1>. USE OrderFacts, OrderManagerAssumption
<1>1. Local(t) /\ \A u \in Task \ {t} : TaskOK(u)'
  BY StepsAreLocal, OthersUndisturbed DEF Step
<1>2. RoleOK(t) /\ ReplyOK(t) /\ FreshOK(t)
  BY DEF OInv, TaskOK
<1>3. UNCHANGED <<client, upbit, pending, mine, filled>>
  BY DEF Deadline, CancelAll, AllCancelled
<1>4. /\ pc' \in [Task -> Labels]
      /\ \/ pc'[t] = pc[t]
         \/ pc[t] = "start" /\ pc'[t] = "closing" /\ t \in Closer
         \/ pc[t] = "closing" /\ pc'[t] = "end"
  BY DEF Deadline, CancelAll, AllCancelled, Goto, Labels, OInv, ManagerTypeOK
<1>5. expired' \subseteq Trader
  BY <1>2 DEF Deadline, CancelAll, AllCancelled, RoleOK, OInv, ManagerTypeOK
<1>6. /\ todo' \in [Closer -> SUBSET Order]
      /\ \A c \in Closer : todo'[c] = todo[c] \/ todo'[c] = pending
  BY DEF Deadline, CancelAll, AllCancelled, OInv, ManagerTypeOK
<1>7. ManagerTypeOK'
  BY <1>3, <1>4, <1>5, <1>6 DEF OInv, ManagerTypeOK, upbit
<1>8. LateOK' /\ TrackedOK' /\ UntoldFillTracked'
  BY <1>3, <1>6 DEF OInv, LateOK, TrackedOK, UntoldFillTracked, upbit
<1>9. TaskOK(t)'
  <2>1. RoleOK(t)'
    BY <1>2, <1>3, <1>4 DEF RoleOK, upbit
  <2>2. ReplyOK(t)'
    BY <1>2, <1>3, <1>4 DEF ReplyOK, Sent, Made, upbit, client
  <2>3. FreshOK(t)'
    BY <1>2, <1>3, <1>4 DEF FreshOK, Untried, upbit, client
  <2>. QED  BY <2>1, <2>2, <2>3 DEF TaskOK
<1>. QED  BY <1>1, <1>7, <1>8, <1>9 DEF OInv

-----------------------------------------------------------------------------
(* The outcome of a call.                                                  *)

\* A call ends: what its task believes of its order is true, and an order is
\* forgotten only when it is closed, and when its trader was told if it is filled.
Concludes(t) ==
  /\ UNCHANGED <<state, expired, todo>>
  /\ reply' = [reply EXCEPT ![t] = "none"]
  /\ late' \subseteq late \union OnTheWire(t)
  /\ (late' # late => reply[t] = "none")
  /\ Sent(t)
  /\ pc[t] \in {"placing", "polling", "cancelling"}
  /\ \/ Placed(t) /\ reply[t] \notin {"none", "refused"}
     \/ Polled(t)
     \/ Cancelled(t) /\ reply[t] \notin {"none", "refused"}
     \/ Raised(t)

LEMMA OutcomesConclude ==
  ASSUME OInv, NEW t \in Task, Answered(t) \/ Garbled(t) \/ (Error(t) /\ GivesUp(t) /\ Raised(t))
  PROVE  Concludes(t)
<1>1. Sent(t)
  BY DEF Answered, Garbled, Error, Returns
<1>2. UNCHANGED <<state, expired, todo>> /\ reply' = [reply EXCEPT ![t] = "none"]
  BY DEF Answered, Garbled, Error, Answer
<1>3. pc[t] \in {"placing", "polling", "cancelling"}
  BY DEF Answered, Garbled, Error, Placed, Polled, Cancelled, Raised
<1>4. late' \subseteq late \union OnTheWire(t) /\ (late' # late => reply[t] = "none")
  BY DEF Answered, Garbled, Error, Unanswered
<1>. QED  BY <1>1, <1>2, <1>3, <1>4 DEF Answered, Garbled, Concludes

\* What is on the wire is a request about an order, and a create request that Upbit
\* has not answered has made none.
LEMMA WireOK ==
  ASSUME CInv, OInv, NEW t \in Task, Sent(t), reply[t] = "none",
         late' \subseteq late \union OnTheWire(t), state' = state
  PROVE  late' \subseteq {"create", "cancel"} \X Order /\ LateOK'
<1>1. RoleOK(t) /\ FreshOK(t) /\ mine[t] \in Order \union {None} /\ LateOK
      /\ late \subseteq {"create", "cancel"} \X Order
  BY DEF OInv, TaskOK, ManagerTypeOK
<1>2. CASE pc[t] = "placing"
  <2>1. request[t].attempt \in 1 .. MaxRetries /\ request[t].at # "backoff"
    BY DEF CInv, ClientTypeOK, Calls, Idle, Sent
  <2>2. t \in Trader /\ Untried(t, request[t].attempt)
    BY <1>1, <1>2, <2>1 DEF RoleOK, Untried
  <2>3. Made(t) \in Order /\ state[Made(t)] = "none"
    BY <1>1, <2>1, <2>2, OrderFacts DEF FreshOK, Made
  <2>4. OnTheWire(t) = {<<"create", Made(t)>>}
    BY <1>2 DEF OnTheWire
  <2>. QED  BY <1>1, <2>3, <2>4 DEF LateOK
<1>3. CASE pc[t] = "cancelling"
  <2>1. OnTheWire(t) = {<<"cancel", mine[t]>>} /\ mine[t] \in Order
    BY <1>1, <1>3 DEF OnTheWire, RoleOK
  <2>. QED  BY <1>1, <2>1 DEF LateOK
<1>4. CASE pc[t] \notin {"placing", "cancelling"}
  <2>1. OnTheWire(t) = {}
    BY <1>4 DEF OnTheWire
  <2>. QED  BY <1>1, <2>1 DEF LateOK
<1>. QED  BY <1>2, <1>3, <1>4

LEMMA ConclusionKeeps ==
  ASSUME CInv, OInv, NEW t \in Task, Local(t), Concludes(t)
  PROVE  OInv'
<1>. USE OrderFacts, OrderManagerAssumption
<1>1. \A u \in Task \ {t} : TaskOK(u)'
  BY OthersUndisturbed
<1>2. /\ RoleOK(t) /\ ReplyOK(t) /\ FreshOK(t) /\ mine[t] \in Order \union {None}
      /\ pc \in [Task -> Labels] /\ mine \in [Task -> Order \union {None}]
      /\ pending \subseteq Order /\ filled \subseteq Trader
      /\ reply \in [Task -> {"none", "ok", "refused", "wait", "done", "cancel"}]
  BY DEF OInv, TaskOK, ManagerTypeOK
<1>3. UNCHANGED <<state, expired, todo>> /\ reply'[t] = "none" /\ Sent(t)
  BY <1>2 DEF Concludes
<1>4. late' \subseteq {"create", "cancel"} \X Order /\ LateOK'
  <2>1. CASE late' = late
    BY <1>3, <2>1 DEF OInv, ManagerTypeOK, LateOK
  <2>2. CASE late' # late
    BY <1>3, <2>2, WireOK DEF Concludes
  <2>. QED  BY <2>1, <2>2
<1>5. /\ pc' \in [Task -> Labels] /\ pc'[t] \in {"watching", "closing", "end"}
      /\ (pc'[t] = "watching" => t \in Trader)
      /\ (pc'[t] = "closing" => t \in Closer)
  BY <1>2 DEF Concludes, Placed, Polled, Cancelled, Raised, Back, Goto, Labels, RoleOK
<1>6. pc[t] = "placing" => Made(t) \in Order /\ t \in Trader
  <2>1. request[t].attempt \in 1 .. MaxRetries
    BY <1>3 DEF CInv, ClientTypeOK, Calls, Idle, Sent
  <2>. QED  BY <1>2, <2>1 DEF RoleOK, Made
<1>7. CASE Placed(t) /\ reply[t] \notin {"none", "refused"}
  <2>1. /\ Made(t) \in Order /\ t \in Trader /\ state[Made(t)] # "none"
        /\ \E n \in 1 .. MaxRetries : Made(t) = <<t, n>>
    <3>1. request[t].attempt \in 1 .. MaxRetries
      BY <1>3 DEF CInv, ClientTypeOK, Calls, Idle, Sent
    <3>. QED  BY <1>2, <1>6, <1>7, <3>1 DEF Placed, ReplyOK, Made
  <2>2. /\ mine' \in [Task -> Order \union {None}] /\ mine'[t] = Made(t)
        /\ \A u \in Task \ {t} : mine'[u] = mine[u]
        /\ pending' = pending \union {Made(t)} /\ filled' = filled /\ pc'[t] = "watching"
    BY <1>2, <1>7, <2>1 DEF Placed, Goto
  <2>3. ManagerTypeOK'
    BY <1>3, <1>4, <1>5, <2>1, <2>2 DEF OInv, ManagerTypeOK, Concludes
  <2>4. TrackedOK'
    BY <1>3, <2>1, <2>2 DEF OInv, TrackedOK
  <2>5. UntoldFillTracked'
    BY <1>3, <2>2 DEF OInv, UntoldFillTracked
  <2>6. RoleOK(t)'
    <3>1. t \notin filled
      BY <1>2 DEF RoleOK, Concludes
    <3>. QED  BY <1>3, <2>1, <2>2, <3>1 DEF RoleOK
  <2>7. ReplyOK(t)' /\ FreshOK(t)'
    BY <1>3, <2>2 DEF ReplyOK, FreshOK, Untried
  <2>. QED  BY <1>1, <1>4, <2>3, <2>4, <2>5, <2>6, <2>7 DEF OInv, TaskOK
<1>8. CASE Raised(t) \/ Polled(t) \/ (Cancelled(t) /\ reply[t] \notin {"none", "refused"})
  <2>1. /\ mine' = mine /\ pending' \subseteq pending
        /\ filled' \subseteq filled \union {t} /\ filled \subseteq filled'
        /\ (filled' # filled => Polled(t) /\ reply[t] = "done" /\ pc'[t] = "end")
    BY <1>2, <1>8 DEF Raised, Polled, Cancelled, Forget, Goto
  <2>2. filled' \subseteq Trader
    BY <1>2, <2>1 DEF Polled, RoleOK
  <2>3. ManagerTypeOK'
    BY <1>3, <1>4, <1>5, <2>1, <2>2 DEF OInv, ManagerTypeOK, Concludes
  <2>4. TrackedOK'
    BY <1>3, <2>1 DEF OInv, TrackedOK
  <2>5. ASSUME NEW u \in Trader, mine'[u] # None, state'[mine'[u]] \in {"wait", "done"},
               u \notin filled'
        PROVE  mine'[u] \in pending'
    <3>1. mine[u] \in pending /\ mine[u] # None /\ state[mine[u]] \in {"wait", "done"}
      BY <1>3, <2>1, <2>5 DEF OInv, UntoldFillTracked
    <3>2. CASE pending' = pending
      BY <2>1, <3>1, <3>2
    <3>3. CASE pending' = pending \ {mine[t]} /\ state[mine[t]] = "cancel"
      BY <2>1, <3>1, <3>3
    <3>4. CASE pending' = pending \ {mine[t]} /\ pc[t] = "polling" /\ t \in filled'
      <4>1. t \in Trader /\ mine[t] # None
        BY <1>2, <3>4 DEF RoleOK
      <4>2. PICK m \in 1 .. MaxRetries : mine[t] = <<t, m>>
        BY <1>2, <4>1 DEF RoleOK
      <4>3. PICK n \in 1 .. MaxRetries : mine[u] = <<u, n>>
        BY <3>1 DEF OInv, TaskOK, RoleOK
      <4>4. u # t
        BY <2>5, <3>4
      <4>5. mine[u] # mine[t]
        BY <4>2, <4>3, <4>4
      <4>. QED  BY <2>1, <3>1, <3>4, <4>5
    <3>5. \/ pending' = pending
          \/ pending' = pending \ {mine[t]} /\ state[mine[t]] = "cancel"
          \/ pending' = pending \ {mine[t]} /\ pc[t] = "polling" /\ t \in filled'
      BY <1>2, <1>8 DEF Raised, Polled, Cancelled, Forget, ReplyOK
    <3>. QED  BY <3>2, <3>3, <3>4, <3>5
  <2>6. UntoldFillTracked'
    BY <2>5 DEF UntoldFillTracked
  <2>7. RoleOK(t)'
    <3>1. pc'[t] = "watching" => mine[t] # None
      BY <1>2, <1>8 DEF Raised, Polled, Cancelled, Back, Goto, RoleOK
    <3>2. t \in filled' => pc'[t] = "end"
      BY <1>2, <2>1 DEF RoleOK, Concludes
    <3>. QED  BY <1>2, <1>3, <1>5, <2>1, <3>1, <3>2 DEF RoleOK
  <2>8. ReplyOK(t)' /\ FreshOK(t)'
    BY <1>3, <1>5 DEF ReplyOK, FreshOK, Untried
  <2>. QED  BY <1>1, <1>4, <2>3, <2>4, <2>6, <2>7, <2>8 DEF OInv, TaskOK
<1>. QED  BY <1>7, <1>8 DEF Concludes

\* An attempt fails and another one is to come, or comes.
LEMMA AttemptKeeps ==
  ASSUME CInv, OInv, NEW t \in Task,
         Again(t) \/ (Error(t) /\ Fails(t) /\ UNCHANGED <<pending, pc, mine, filled>>)
  PROVE  OInv'
<1>. USE OrderFacts, OrderManagerAssumption
<1>1. Local(t) /\ \A u \in Task \ {t} : TaskOK(u)'
  BY StepsAreLocal, OthersUndisturbed DEF Step
<1>2. /\ RoleOK(t) /\ ReplyOK(t) /\ FreshOK(t)
      /\ reply \in [Task -> {"none", "ok", "refused", "wait", "done", "cancel"}]
      /\ request \in [Task -> Calls]
  BY DEF OInv, TaskOK, ManagerTypeOK, CInv, ClientTypeOK
<1>3. UNCHANGED <<state, manager>>
  BY DEF Again, Error, upbit, manager
<1>4. /\ reply' \in [Task -> {"none", "ok", "refused", "wait", "done", "cancel"}]
      /\ reply'[t] = "none"
  <2>1. CASE Again(t)
    <3>1. ~Sent(t) /\ reply' = reply
      BY <2>1 DEF Again, Retry, Sent, upbit
    <3>. QED  BY <1>2, <3>1 DEF ReplyOK
  <2>2. CASE Error(t)
    BY <1>2, <2>2 DEF Error, Answer
  <2>. QED  BY <2>1, <2>2
<1>5. late' \subseteq {"create", "cancel"} \X Order /\ LateOK'
  <2>1. CASE late' = late
    BY <1>3, <2>1 DEF OInv, ManagerTypeOK, LateOK
  <2>2. CASE late' # late
    <3>1. Sent(t) /\ reply[t] = "none" /\ late' \subseteq late \union OnTheWire(t)
      BY <2>2 DEF Again, Error, Unanswered, upbit
    <3>. QED  BY <1>3, <3>1, WireOK
  <2>. QED  BY <2>1, <2>2
<1>6. ManagerTypeOK'
  BY <1>3, <1>4, <1>5 DEF OInv, ManagerTypeOK, manager
<1>7. TrackedOK' /\ UntoldFillTracked'
  BY <1>3 DEF OInv, TrackedOK, UntoldFillTracked, manager
<1>8. RoleOK(t)' /\ ReplyOK(t)'
  BY <1>2, <1>3, <1>4 DEF RoleOK, ReplyOK, manager
<1>9. FreshOK(t)'
  <2>1. CASE Again(t)
    <3>1. request[t].at = "backoff" /\ request[t].attempt \in Nat
      BY <1>2, <2>1 DEF Again, Retry, Calls, Idle
    <3>2. request'[t].attempt = request[t].attempt + 1
      BY <1>2, <2>1 DEF Again, Retry, Enter, Call
    <3>3. \A n \in 1 .. MaxRetries : Untried(t, n)' => Untried(t, n)
      BY <1>3, <3>1, <3>2 DEF Untried, manager
    <3>. QED  BY <1>2, <1>3, <2>1, <3>3 DEF FreshOK, Again, upbit
  <2>2. CASE Error(t) /\ Fails(t)
    <3>1. Sent(t) /\ Leave(t, [request[t] EXCEPT !.at = "backoff"])
      BY <2>2 DEF Fails
    <3>2. request[t].attempt \in Nat /\ request[t] \in [at : {"waiting", "sent", "backoff"}, sem : Sem, attempt : 1 .. MaxRetries]
      BY <1>2, <3>1 DEF Calls, Idle, Sent
    <3>3. request'[t].at = "backoff" /\ request'[t].attempt = request[t].attempt
      <4>. DEFINE after == [request[t] EXCEPT !.at = "backoff"]
      <4>1. after.at = "backoff" /\ after.attempt = request[t].attempt
        BY <3>2
      <4>2. request'[t] = after
        BY <1>2, <3>1, LeaveSets
      <4>. QED  BY <4>1, <4>2
    <3>4. ASSUME NEW n \in 1 .. MaxRetries, Untried(t, n)'
          PROVE  Untried(t, n) /\ (pc[t] = "placing" => n # request[t].attempt)
      BY <1>3, <3>2, <3>3, <3>4 DEF Untried, manager
    <3>5. ASSUME NEW n \in 1 .. MaxRetries, pc[t] = "placing" => n # request[t].attempt,
                 <<"create", <<t, n>>>> \in late'
          PROVE  <<"create", <<t, n>>>> \in late
      BY <2>2, <3>5 DEF Error, Unanswered, OnTheWire, Made
    <3>. QED  BY <1>2, <1>3, <3>4, <3>5 DEF FreshOK
  <2>. QED  BY <2>1, <2>2
<1>. QED  BY <1>1, <1>5, <1>6, <1>7, <1>8, <1>9 DEF OInv, TaskOK

LEMMA OrderInductive == CInv /\ OInv /\ [Next]_vars => OInv'
<1>. SUFFICES ASSUME CInv, OInv, [Next]_vars PROVE OInv'
  OBVIOUS
<1>0. ClientTypeOK
  BY DEF CInv
<1>1. ASSUME NEW t \in Task, Place(t) \/ Poll(t) \/ TimedOut(t) \/ CancelNext(t) PROVE OInv'
  BY <1>1, CallBegins
<1>2. ASSUME NEW t \in Task, Deadline(t) \/ CancelAll(t) \/ AllCancelled(t) PROVE OInv'
  BY <1>2, TurnKeeps
<1>3. ASSUME NEW t \in Task, Answered(t) \/ Garbled(t) \/ (Error(t) /\ GivesUp(t) /\ Raised(t))
      PROVE  OInv'
  BY <1>3, OutcomesConclude, ConclusionKeeps, StepsAreLocal DEF Step
<1>4. ASSUME NEW t \in Task,
             Again(t) \/ (Error(t) /\ Fails(t) /\ UNCHANGED <<pending, pc, mine, filled>>)
      PROVE  OInv'
  BY <1>4, AttemptKeeps
<1>5. ASSUME NEW t \in Task, Served(t) PROVE OInv'
  BY <1>0, <1>5, ServedKeeps
<1>6. ASSUME NEW o \in Order, \/ \E how \in {"done", "cancel"} : Closes(o, how)
                              \/ \E what \in {"create", "cancel"} : Arrives(what, o)
      PROVE  OInv'
  BY <1>0, <1>6, OrderMovesKeeps
<1>7. CASE UNCHANGED vars
  <2>1. UNCHANGED <<request, state, reply, late, pending, pc, mine, expired, todo, filled>>
    BY <1>7 DEF vars, client, upbit, manager
  <2>2. ManagerTypeOK' /\ LateOK' /\ TrackedOK' /\ UntoldFillTracked'
    BY <2>1 DEF OInv, ManagerTypeOK, LateOK, TrackedOK, UntoldFillTracked
  <2>3. ASSUME NEW t \in Task PROVE TaskOK(t)'
    BY <2>1 DEF OInv, TaskOK, RoleOK, ReplyOK, FreshOK, Untried, Sent, Made
  <2>. QED  BY <2>2, <2>3 DEF OInv
<1>. QED
  BY <1>1, <1>2, <1>3, <1>4, <1>5, <1>6, <1>7 DEF Next, Step, Error

LEMMA OrderInvariance == Spec => []OInv
<1>1. Spec => []CInv
  BY OrdersUseTheClient, ClientInvariance, PTL
<1>. QED  BY <1>1, OrderInit, OrderInductive, PTL DEF Spec

\* OrderManager: the variables have their types, whatever is lost, late or garbled.
THEOREM TypeCorrect == Spec => []TypeOK
<1>1. ClientTypeOK /\ OInv => TypeOK
  BY DEF OInv, ManagerTypeOK, States, Labels, TypeOK
<1>2. Spec => []ClientTypeOK
  BY OrdersUseTheClient, ClientTypeCorrect, PTL
<1>. QED  BY <1>1, <1>2, OrderInvariance, PTL

\* A fill that the caller of wait_for_fill was not told of stays in _pending, for
\* any number of tasks, attempts and faults.
THEOREM UntoldFillsStayTracked == Spec => []UntoldFillTracked
<1>1. OInv => UntoldFillTracked
  BY DEF OInv
<1>. QED  BY <1>1, OrderInvariance, PTL

-----------------------------------------------------------------------------
(* The refinement of OrderLedger.                                          *)

told == {mine[t] : t \in filled}

\* Unless a step says otherwise, nobody is told of anything new.
LEMMA ToldKept ==
  ASSUME OInv, UNCHANGED filled, \A t \in filled : mine'[t] = mine[t]
  PROVE  told' = told
BY DEF told

LEMMA UpbitStepsAreLedgers ==
  ASSUME OInv, CInv,
         \/ \E t \in Task : Served(t)
         \/ \E o \in Order : \/ \E how \in {"done", "cancel"} : Closes(o, how)
                             \/ \E what \in {"create", "cancel"} : Arrives(what, o)
  PROVE  [Ledger!Next]_(Ledger!ledger)
<1>1. state \in [Order -> States]
  BY DEF OInv, ManagerTypeOK
<1>2. UNCHANGED manager
  BY DEF Served, Closes, Arrives
<1>3. pending' = pending /\ told' = told
  BY <1>2 DEF manager, told
<1>4. ASSUME NEW t \in Task, Served(t), state' # state
      PROVE  Ledger!Next
  <2>1. RoleOK(t) /\ FreshOK(t) /\ mine[t] \in Order \union {None}
    BY DEF OInv, TaskOK, ManagerTypeOK
  <2>2. CASE pc[t] = "placing"
    <3>1. request[t].attempt \in 1 .. MaxRetries /\ request[t].at # "backoff" /\ reply[t] = "none"
      BY <1>4 DEF Served, CInv, ClientTypeOK, Calls, Idle, Sent
    <3>2. Made(t) \in Order /\ state[Made(t)] = "none"
      BY <2>1, <2>2, <3>1, OrderFacts DEF RoleOK, FreshOK, Untried, Made
    <3>3. state' = [state EXCEPT ![Made(t)] = "wait"]
      BY <1>4, <2>2 DEF Served
    <3>4. Ledger!Open(Made(t))
      BY <1>3, <3>2, <3>3 DEF Ledger!Open, told
    <3>. QED  BY <3>2, <3>4 DEF Ledger!Next
  <2>3. CASE pc[t] # "placing"
    <3>1. pc[t] = "cancelling" /\ state[mine[t]] = "wait"
          /\ state' = [state EXCEPT ![mine[t]] = "cancel"]
      BY <1>4, <2>3 DEF Served
    <3>2. mine[t] \in Order
      BY <2>1, <3>1 DEF RoleOK
    <3>3. Ledger!Close(mine[t], "cancel")
      BY <1>3, <3>1 DEF Ledger!Close, told
    <3>. QED  BY <3>2, <3>3 DEF Ledger!Next
  <2>. QED  BY <2>2, <2>3
<1>5. ASSUME NEW o \in Order, NEW how \in {"done", "cancel"}, Closes(o, how)
      PROVE  Ledger!Next
  <2>1. Ledger!Close(o, how)
    BY <1>3, <1>5 DEF Closes, Ledger!Close, told
  <2>. QED  BY <2>1 DEF Ledger!Next
<1>6. ASSUME NEW o \in Order, Arrives("create", o)
      PROVE  Ledger!Next
  <2>1. state[o] = "none" /\ state' = [state EXCEPT ![o] = "wait"]
    BY <1>6 DEF Arrives, OInv, LateOK
  <2>2. Ledger!Open(o)
    BY <1>3, <2>1 DEF Ledger!Open, told
  <2>. QED  BY <2>2 DEF Ledger!Next
<1>7. ASSUME NEW o \in Order, Arrives("cancel", o), state' # state
      PROVE  Ledger!Next
  <2>1. state[o] = "wait" /\ state' = [state EXCEPT ![o] = "cancel"]
    BY <1>1, <1>7 DEF Arrives
  <2>2. Ledger!Close(o, "cancel")
    BY <1>3, <2>1 DEF Ledger!Close, told
  <2>. QED  BY <2>2 DEF Ledger!Next
<1>8. CASE state' = state
  BY <1>3, <1>8 DEF Ledger!ledger, told
<1>. QED  BY <1>4, <1>5, <1>6, <1>7, <1>8

LEMMA TaskStepsAreLedgers ==
  ASSUME OInv, CInv, NEW t \in Task, Step(t) \/ Deadline(t)
  PROVE  [Ledger!Next]_(Ledger!ledger)
<1>. USE OrderManagerAssumption
<1>1. RoleOK(t) /\ ReplyOK(t) /\ mine[t] \in Order \union {None} /\ filled \subseteq Trader
      /\ mine \in [Task -> Order \union {None}]
  BY DEF OInv, TaskOK, ManagerTypeOK
<1>2. Local(t)
  BY StepsAreLocal
<1>3. state' = state /\ \A u \in Task \ {t} : mine'[u] = mine[u]
  BY <1>2 DEF Local
<1>4. CASE Answered(t) /\ Placed(t)
  <2>1. Made(t) \in Order /\ state[Made(t)] # "none" /\ t \notin filled
    <3>1. request[t].attempt \in 1 .. MaxRetries
      BY <1>4 DEF Answered, Returns, CInv, ClientTypeOK, Calls, Idle, Sent
    <3>. QED  BY <1>1, <1>4, <3>1, OrderFacts DEF Answered, Placed, ReplyOK, RoleOK, Made
  <2>2. pending' = pending \union {Made(t)} /\ told' = told
    BY <1>1, <1>3, <1>4, <2>1, OrderFacts DEF Placed, told
  <2>3. Ledger!Track(Made(t))
    BY <1>3, <2>1, <2>2 DEF Ledger!Track, told
  <2>. QED  BY <2>1, <2>3 DEF Ledger!Next
<1>5. CASE Answered(t) /\ Polled(t)
  <2>1. mine[t] \in Order
    BY <1>1, <1>5 DEF Polled, RoleOK
  <2>2. CASE reply[t] = "wait"
    <3>1. UNCHANGED <<pending, filled, mine>>
      BY <1>5, <2>2 DEF Polled
    <3>. QED  BY <1>3, <3>1 DEF Ledger!ledger, told
  <2>3. CASE reply[t] = "done"
    <3>. PICK o \in Order : o = mine[t]
      BY <2>1
    <3>1. /\ state[o] = "done" /\ pending' = pending \ {o}
          /\ filled' = filled \union {t} /\ mine' = mine
      BY <1>1, <1>5, <2>3 DEF Polled, Forget, ReplyOK
    <3>2. told' = told \union {o}
      BY <3>1 DEF told
    <3>3. Ledger!Report(o)
      BY <1>3, <3>1, <3>2 DEF Ledger!Report, told
    <3>. QED  BY <3>3 DEF Ledger!Next
  <2>4. CASE reply[t] = "cancel"
    <3>1. /\ state[mine[t]] = "cancel" /\ pending' = pending \ {mine[t]}
          /\ filled' = filled /\ mine' = mine
      BY <1>1, <1>5, <2>4 DEF Polled, Forget, ReplyOK
    <3>2. Ledger!Drop(mine[t])
      BY <1>3, <3>1 DEF Ledger!Drop, told
    <3>. QED  BY <2>1, <3>2 DEF Ledger!Next
  <2>. QED  BY <1>5, <2>2, <2>3, <2>4 DEF Polled
<1>6. CASE Answered(t) /\ Cancelled(t)
  <2>1. /\ mine[t] \in Order /\ state[mine[t]] = "cancel"
        /\ pending' = pending \ {mine[t]} /\ UNCHANGED <<filled, mine>>
    BY <1>1, <1>6 DEF Answered, Cancelled, Forget, ReplyOK, RoleOK
  <2>2. Ledger!Drop(mine[t])
    BY <1>3, <2>1 DEF Ledger!Drop, told
  <2>. QED  BY <2>1, <2>2 DEF Ledger!Next
<1>7. CASE CancelNext(t)
  <2>1. t \notin filled
    BY <1>1, <1>7 DEF CancelNext, RoleOK
  <2>2. UNCHANGED <<pending, filled>>
    BY <1>7 DEF CancelNext
  <2>3. told' = told
    BY <1>1, <1>3, <2>1, <2>2, OrderFacts, ToldKept
  <2>. QED  BY <1>3, <2>2, <2>3 DEF Ledger!ledger, told
<1>8. CASE \/ Place(t) \/ Poll(t) \/ TimedOut(t) \/ Deadline(t) \/ CancelAll(t)
           \/ AllCancelled(t) \/ Garbled(t) \/ Error(t) \/ Again(t)
  <2>1. UNCHANGED <<pending, filled, mine>>
    BY <1>8 DEF Place, Poll, TimedOut, Deadline, CancelAll, AllCancelled, Garbled, Error,
                Again, Raised, manager
  <2>. QED  BY <1>3, <2>1 DEF Ledger!ledger, told
<1>. QED  BY <1>4, <1>5, <1>6, <1>7, <1>8 DEF Step, Answered

LEMMA StepsAreLedgers == CInv /\ OInv /\ [Next]_vars => [Ledger!Next]_(Ledger!ledger)
<1>. SUFFICES ASSUME CInv, OInv, [Next]_vars PROVE [Ledger!Next]_(Ledger!ledger)
  OBVIOUS
<1>1. ASSUME NEW t \in Task, Step(t) \/ Deadline(t) PROVE [Ledger!Next]_(Ledger!ledger)
  BY <1>1, TaskStepsAreLedgers
<1>2. CASE \/ \E t \in Task : Served(t)
           \/ \E o \in Order : \/ \E how \in {"done", "cancel"} : Closes(o, how)
                               \/ \E what \in {"create", "cancel"} : Arrives(what, o)
  BY <1>2, UpbitStepsAreLedgers
<1>3. CASE UNCHANGED vars
  BY <1>3 DEF vars, upbit, manager, Ledger!ledger
<1>. QED  BY <1>1, <1>2, <1>3 DEF Next

\* The order manager implements OrderLedger for any number of traders, closers,
\* attempts and permits and any of the faults: an order is forgotten only when Upbit
\* has closed it, a filled one only when its caller is told.
THEOREM OrdersKeepTheLedger == Spec => KeepsLedger
<1>1. Init => Ledger!Init
  BY DEF Init, Ledger!Init
<1>2. Spec => []CInv
  BY OrdersUseTheClient, ClientInvariance, PTL
<1>. QED
  BY <1>1, <1>2, StepsAreLedgers, OrderInvariance, PTL DEF Spec, KeepsLedger, Ledger!Spec

=============================================================================
