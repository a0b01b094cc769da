--------------------------------- MODULE Loops ---------------------------------
(***************************************************************************)
(* What a loop of the code has computed after n passes: each pass makes a  *)
(* new value of its number and of the value before it.                     *)
(***************************************************************************)
EXTENDS Integers

LoopTo(step, start, n) ==
  LET value[i \in 0 .. n] == IF i = 0 THEN start ELSE step[i][value[i - 1]]
  IN value[n]

\* f[1] + f[2] + ... + f[n].
SumTo(f, n) == LoopTo([i \in Nat |-> [sum \in Int |-> sum + f[i]]], 0, n)

=============================================================================
