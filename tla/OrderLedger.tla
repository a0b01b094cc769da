----------------------------- MODULE OrderLedger -----------------------------
(***************************************************************************)
(* What the order manager promises, without requests, retries, timeouts or *)
(* tasks: an order is forgotten only when it can change no more, and a     *)
(* filled one only when its caller is told.                                *)
(***************************************************************************)
CONSTANT Order

VARIABLES
  state,    \* order -> "none" before it exists, "wait", "done" or "cancel"
  tracked,  \* the orders the manager watches
  told      \* those it has reported as filled

ledger == <<state, tracked, told>>

Init ==
  /\ state = [o \in Order |-> "none"]
  /\ tracked = {}
  /\ told = {}

Open(o) ==
  /\ state[o] = "none"
  /\ state' = [state EXCEPT ![o] = "wait"]
  /\ UNCHANGED <<tracked, told>>

Close(o, how) ==
  /\ state[o] = "wait"
  /\ state' = [state EXCEPT ![o] = how]
  /\ UNCHANGED <<tracked, told>>

Track(o) ==
  /\ state[o] # "none"
  /\ tracked' = tracked \union {o}
  /\ UNCHANGED <<state, told>>

Report(o) ==
  /\ state[o] = "done"
  /\ tracked' = tracked \ {o}
  /\ told' = told \union {o}
  /\ UNCHANGED state

Drop(o) ==
  /\ state[o] = "cancel"
  /\ tracked' = tracked \ {o}
  /\ UNCHANGED <<state, told>>

Next ==
  \E o \in Order :
    \/ Open(o) \/ Close(o, "done") \/ Close(o, "cancel")
    \/ Track(o) \/ Report(o) \/ Drop(o)

Spec == Init /\ [][Next]_ledger

=============================================================================
