-------------------------- MODULE UpbitWebSocketProofs --------------------------
(***************************************************************************)
(* Proofs about UpbitWebSocket: how the delay grows, for any limit, and    *)
(* which connections can be open after close(), for any delay and any      *)
(* number of failures.                                                     *)
(***************************************************************************)
EXTENDS UpbitWebSocket, LoopTheorems

\* The smaller of two numbers, as the delay and the count of attempts take it.
LEMMA SmallerOfTwo ==
  ASSUME NEW a \in Int, NEW b \in Int
  PROVE  Min({a, b}) = IF a <= b THEN a ELSE b
<1>1. CASE a <= b  BY <1>1 DEF Min
<1>2. CASE a > b   BY <1>2 DEF Min
<1>. QED  BY <1>1, <1>2

-----------------------------------------------------------------------------
(* Type correctness.                                                       *)

LEMMA TypeInit == Init => TypeOK
<1>. SUFFICES ASSUME Init PROVE TypeOK
  OBVIOUS
<1>1. /\ delay \in 1 .. MaxDelay /\ tries \in 0 .. MaxTries
      /\ stray \in 0 .. MaxStray /\ found \in 0 .. MaxStray
  BY UpbitWebSocketAssumption DEF Init
<1>. QED  BY <1>1 DEF Init, TypeOK

LEMMA WakeTypes == ASSUME TypeOK, Wake PROVE TypeOK'
<1>. USE UpbitWebSocketAssumption DEF TypeOK, Wake
<1>1. delay' = IF 2 * delay <= MaxDelay THEN 2 * delay ELSE MaxDelay
  <2>1. 2 * delay \in Int /\ MaxDelay \in Int
    OBVIOUS
  <2>. QED  BY <2>1, SmallerOfTwo
<1>2. delay' \in 1 .. MaxDelay
  BY <1>1
<1>3. tries' = IF tries + 1 <= MaxTries THEN tries + 1 ELSE MaxTries
  <2>1. tries + 1 \in Int /\ MaxTries \in Int
    OBVIOUS
  <2>. QED  BY <2>1, SmallerOfTwo
<1>4. tries' \in 0 .. MaxTries
  BY <1>3
<1>. QED  BY <1>2, <1>4

LEMMA TypeInductive == TypeOK /\ [Next]_vars => TypeOK'
<1>. SUFFICES ASSUME TypeOK, [Next]_vars PROVE TypeOK'
  OBVIOUS
<1>. USE UpbitWebSocketAssumption
<1>1. CASE Connected         BY <1>1 DEF TypeOK, Connected
<1>2. CASE ConnectFails      BY <1>2 DEF TypeOK, ConnectFails, Resume
<1>3. CASE Subscribed        BY <1>3 DEF TypeOK, Subscribed, Resume
<1>4. CASE Received          BY <1>4 DEF TypeOK, Received
<1>5. CASE Unreadable        BY <1>5 DEF TypeOK, Unreadable
<1>6. CASE ConnectionClosed  BY <1>6 DEF TypeOK, ConnectionClosed
<1>7. CASE Handled           BY <1>7 DEF TypeOK, Handled, Resume
<1>8. CASE Wake              BY <1>8, WakeTypes
<1>9. CASE Close             BY <1>9 DEF TypeOK, Close
<1>10. CASE Closed           BY <1>10 DEF TypeOK, Closed
<1>11. CASE Lost             BY <1>11 DEF TypeOK, Lost
<1>12. CASE StrayLost        BY <1>12 DEF TypeOK, StrayLost
<1>13. CASE UNCHANGED vars   BY <1>13 DEF TypeOK, vars
<1>. QED
  BY <1>1, <1>2, <1>3, <1>4, <1>5, <1>6, <1>7, <1>8, <1>9, <1>10, <1>11, <1>12, <1>13
  DEF Next, Reader, Connect

\* UpbitWebSocket: the variables have their types; in particular the delay never
\* exceeds its limit, whatever the limit is.
THEOREM TypeCorrect == Spec => []TypeOK
BY TypeInit, TypeInductive, PTL DEF Spec

-----------------------------------------------------------------------------
(* The delay.                                                              *)

LEMMA DoubledGrows ==
  ASSUME NEW n \in Nat
  PROVE  Doubled(n) \in Nat \ {0} /\ Doubled(n + 1) = 2 * Doubled(n)
<1> DEFINE twice == [i \in Nat |-> [d \in Nat |-> 2 * d]]
           S == {k \in Nat : Doubled(k) \in Nat \ {0}}
<1>1. ASSUME NEW k \in Nat, k \in S
      PROVE  Doubled(k + 1) = 2 * Doubled(k)
  <2>1. Doubled(k + 1) = twice[k + 1][Doubled(k)]
    BY LoopGoesOn DEF Doubled
  <2>. QED  BY <1>1, <2>1
<1>2. 0 \in S
  BY LoopStarts DEF Doubled
<1>3. \A k \in Nat : k \in S => k + 1 \in S
  BY <1>1
<1>4. n \in S
  BY <1>2, <1>3, NatSetInduction
<1>. QED  BY <1>1, <1>4

\* The delay and the attempts grow together, wherever the reader is: only where
\* it sleeps does the delay matter.
BackoffOK == delay = Min({Doubled(tries), MaxDelay})

\* At the limit the delay stays; below it, both go on doubling.
LEMMA WakeGrows == ASSUME TypeOK, BackoffOK, Wake PROVE BackoffOK'
<1>. USE UpbitWebSocketAssumption
<1>1. /\ tries \in Nat /\ tries <= MaxTries /\ delay \in Nat
      /\ MaxTries \in Nat /\ MaxDelay \in Nat \ {0}
  BY DEF TypeOK
<1>2. /\ Doubled(tries) \in Nat \ {0} /\ Doubled(tries + 1) = 2 * Doubled(tries)
  BY <1>1, DoubledGrows
<1>3. delay = IF Doubled(tries) <= MaxDelay THEN Doubled(tries) ELSE MaxDelay
  BY <1>1, <1>2, SmallerOfTwo DEF BackoffOK
<1>4. delay' = IF 2 * delay <= MaxDelay THEN 2 * delay ELSE MaxDelay
  <2>1. 2 * delay \in Int /\ MaxDelay \in Int
    BY <1>1
  <2>. QED  BY <2>1, SmallerOfTwo DEF Wake
<1>5. tries' = IF tries + 1 <= MaxTries THEN tries + 1 ELSE MaxTries
  <2>1. tries + 1 \in Int /\ MaxTries \in Int
    BY <1>1
  <2>. QED  BY <2>1, SmallerOfTwo DEF Wake
<1>6. CASE tries < MaxTries
  <2>1. tries' = tries + 1
    BY <1>1, <1>5, <1>6
  <2>2. Doubled(tries') = 2 * Doubled(tries)
    BY <1>2, <2>1
  <2>3. delay' = IF Doubled(tries') <= MaxDelay THEN Doubled(tries') ELSE MaxDelay
    BY <1>1, <1>2, <1>3, <1>4, <2>2
  <2>4. Doubled(tries') \in Int
    BY <1>2, <2>2
  <2>. QED  BY <1>1, <2>3, <2>4, SmallerOfTwo DEF BackoffOK
<1>7. CASE tries = MaxTries
  <2>1. tries' = tries
    BY <1>1, <1>5, <1>7
  <2>2. delay = MaxDelay
    BY <1>1, <1>2, <1>3, <1>7
  <2>3. delay' = delay
    BY <1>1, <1>4, <2>2
  <2>. QED  BY <2>1, <2>3 DEF BackoffOK
<1>. QED  BY <1>1, <1>6, <1>7

LEMMA BackoffInit == Init => BackoffOK
<1>. SUFFICES ASSUME Init PROVE BackoffOK
  OBVIOUS
<1>1. Doubled(0) = 1
  BY LoopStarts DEF Doubled
<1>2. Min({1, MaxDelay}) = 1
  BY UpbitWebSocketAssumption, SmallerOfTwo
<1>. QED  BY <1>1, <1>2 DEF Init, BackoffOK

LEMMA BackoffInductive == TypeOK /\ BackoffOK /\ [Next]_vars => BackoffOK'
<1>. SUFFICES ASSUME TypeOK, BackoffOK, [Next]_vars PROVE BackoffOK'
  OBVIOUS
<1>1. CASE Wake  BY <1>1, WakeGrows
<1>2. CASE Subscribed
  <2>1. delay' = 1 /\ tries' = 0
    BY <1>2 DEF Subscribed
  <2>2. Doubled(0) = 1
    BY LoopStarts DEF Doubled
  <2>3. Min({1, MaxDelay}) = 1
    BY UpbitWebSocketAssumption, SmallerOfTwo
  <2>. QED  BY <2>1, <2>2, <2>3 DEF BackoffOK
<1>3. CASE UNCHANGED <<delay, tries>>  BY <1>3 DEF BackoffOK
<1>. QED
  BY <1>1, <1>2, <1>3
  DEF Next, Reader, Connect, Connected, ConnectFails, Received, Unreadable,
      ConnectionClosed, Handled, Close, Closed, Lost, StrayLost, vars

\* The delay before a reconnection is the base delay doubled with every attempt
\* since the last subscription, up to its limit, for any limit.
THEOREM DelayDoubles == Spec => []BackoffGrows
<1>1. BackoffOK => BackoffGrows
  BY DEF BackoffOK, BackoffGrows
<1>. QED  BY <1>1, TypeCorrect, BackoffInit, BackoffInductive, PTL DEF Spec

-----------------------------------------------------------------------------
(* What close() leaves.                                                    *)

\* The reader opens its next connection without looking at _closed first.
AboutToConnect == {"connecting", "sleeping", "reconnecting"}

\* A close() that did not come just then ends the reader before it connects again
\* and, when it is through, has left no connection the reader refers to; none of
\* the others was left after any close().
CloseOK ==
  /\ (closer = "ready" => ~closed /\ caught = "nothing")
  /\ (closer # "ready" => closed)
  /\ (closed /\ caught \notin AboutToConnect => pc \notin AboutToConnect)
  /\ (closer = "done" /\ caught \notin AboutToConnect => ws = "none")
  /\ (closed => stray <= found)

LEMMA CloseInit == Init => CloseOK
BY DEF Init, CloseOK

\* The reader never goes back to connecting once it is closed.
LEMMA ReaderKeeps == ASSUME TypeOK, CloseOK, Reader PROVE CloseOK'
<1>. USE DEF TypeOK, CloseOK, AboutToConnect
<1>1. CASE Connected         BY <1>1 DEF Connected
<1>2. CASE ConnectFails      BY <1>2 DEF ConnectFails, Resume
<1>3. CASE Subscribed        BY <1>3 DEF Subscribed, Resume
<1>4. CASE Received          BY <1>4 DEF Received
<1>5. CASE Unreadable        BY <1>5 DEF Unreadable
<1>6. CASE ConnectionClosed  BY <1>6 DEF ConnectionClosed
<1>7. CASE Handled           BY <1>7 DEF Handled, Resume
<1>8. CASE Wake              BY <1>8 DEF Wake
<1>. QED
  BY <1>1, <1>2, <1>3, <1>4, <1>5, <1>6, <1>7, <1>8 DEF Reader, Connect

LEMMA CloseInductive == TypeOK /\ CloseOK /\ [Next]_vars => CloseOK'
<1>. SUFFICES ASSUME TypeOK, CloseOK, [Next]_vars PROVE CloseOK'
  OBVIOUS
<1>1. CASE Reader          BY <1>1, ReaderKeeps
<1>2. CASE Close           BY <1>2 DEF TypeOK, CloseOK, AboutToConnect, Close
<1>3. CASE Closed          BY <1>3 DEF TypeOK, CloseOK, Closed
<1>4. CASE Lost            BY <1>4 DEF TypeOK, CloseOK, Lost
<1>5. CASE StrayLost       BY <1>5 DEF TypeOK, CloseOK, StrayLost
<1>6. CASE UNCHANGED vars  BY <1>6 DEF TypeOK, CloseOK, vars
<1>. QED  BY <1>1, <1>2, <1>3, <1>4, <1>5, <1>6 DEF Next

\* Once close() and the reader are through, no connection is open but those an
\* unreadable message had left behind before close(), and one that the reader
\* opens if close() came while it was about to connect: the only windows are those
\* three, for any number of lost connections and unreadable messages.
THEOREM OnlyTheseStayOpen == Spec => []ClosesWhatItKnows
<1>1. TypeOK /\ CloseOK => ClosesWhatItKnows
  BY DEF TypeOK, CloseOK, ClosesWhatItKnows, AboutToConnect
<1>. QED  BY <1>1, TypeCorrect, CloseInit, CloseInductive, PTL DEF Spec

=============================================================================
