----------------------------- MODULE LoopTheorems ------------------------------
(***************************************************************************)
(* What the proofs need to know of loops and sums.  The library's          *)
(* induction theorems have an operator as parameter; NatSetInduction       *)
(* states induction for a set, so that it can be cited with the set of the *)
(* numbers a claim holds for.                                              *)
(***************************************************************************)
EXTENDS Loops, WellFoundedInduction, TLAPS

-----------------------------------------------------------------------------
(* Induction.                                                              *)

\* Every set of natural numbers that is not empty has a least element.
LEMMA LeastNumber ==
  ASSUME NEW T, T \subseteq Nat, T # {}
  PROVE  \E x \in T : \A y \in T : x <= y
<1> DEFINE R == OpToRel(<, Nat)
<1>1. IsWellFoundedOn(R, Nat)
  BY NatLessThanWellFounded
<1>2. PICK x \in T : \A y \in T : ~ (<<y, x>> \in R)
  BY <1>1, WFMin
<1>3. R = {ss \in Nat \X Nat : ss[1] < ss[2]}
  BY DEF OpToRel
<1> HIDE DEF R
<1>4. ASSUME NEW y \in T
      PROVE  x <= y
  <2>1. <<y, x>> \in R <=> y < x
    BY <1>3
  <2>2. ~ (y < x)
    BY <1>2, <2>1
  <2>. QED  BY <2>2
<1>. QED  BY <1>4

\* A set that holds 0 and with every number its successor holds all numbers.
LEMMA NatSetInduction ==
  ASSUME NEW S, 0 \in S, \A n \in Nat : n \in S => n + 1 \in S
  PROVE  \A n \in Nat : n \in S
<1> DEFINE T == {n \in Nat : n \notin S}
<1>. SUFFICES ASSUME T # {} PROVE FALSE
  OBVIOUS
<1>1. PICK x \in T : \A y \in T : x <= y
  BY LeastNumber
<1>2. x \in Nat /\ x # 0 /\ x - 1 \in Nat /\ x - 1 \notin T
  BY <1>1
<1>. QED  BY <1>1, <1>2

-----------------------------------------------------------------------------
(* LoopTo is well defined.                                                 *)

\* g gives the values of the loop up to pass n.
IsRun(g, step, start, n) ==
  g = [i \in 0 .. n |-> IF i = 0 THEN start ELSE step[i][g[i - 1]]]

LEMMA RunExists ==
  ASSUME NEW step, NEW start, NEW n \in Nat
  PROVE  \E g : IsRun(g, step, start, n)
<1> DEFINE S == {k \in Nat : \E g : IsRun(g, step, start, k)}
<1>1. 0 \in S
  <2>1. IsRun([i \in 0 .. 0 |-> start], step, start, 0)
    BY DEF IsRun
  <2>. QED  BY <2>1
<1>2. ASSUME NEW k \in Nat, k \in S
      PROVE  k + 1 \in S
  <2>1. PICK g : IsRun(g, step, start, k)
    BY <1>2
  <2> DEFINE h == [i \in 0 .. k + 1 |-> IF i = k + 1 THEN step[k + 1][g[k]] ELSE g[i]]
  <2>2. \A i \in 0 .. k : g[i] = IF i = 0 THEN start ELSE step[i][g[i - 1]]
    BY <2>1 DEF IsRun
  <2>3. \A i \in 0 .. k + 1 : h[i] = IF i = 0 THEN start ELSE step[i][h[i - 1]]
    <3>1. ASSUME NEW i \in 0 .. k + 1, i = k + 1
          PROVE  h[i] = IF i = 0 THEN start ELSE step[i][h[i - 1]]
      <4>1. k \in 0 .. k + 1 /\ k # k + 1 /\ i # 0 /\ i - 1 = k
        BY <3>1
      <4>. QED  BY <3>1, <4>1
    <3>2. ASSUME NEW i \in 0 .. k + 1, i # k + 1
          PROVE  h[i] = IF i = 0 THEN start ELSE step[i][h[i - 1]]
      <4>1. i \in 0 .. k /\ h[i] = g[i]
        BY <3>2
      <4>2. i # 0 => i - 1 \in 0 .. k + 1 /\ i - 1 # k + 1
        BY <4>1
      <4>3. i # 0 => h[i - 1] = g[i - 1]
        BY <4>2
      <4>. QED  BY <2>2, <4>1, <4>3
    <3>. QED  BY <3>1, <3>2
  <2>4. IsRun(h, step, start, k + 1)
    <3>1. h = [i \in 0 .. k + 1 |-> h[i]]
      OBVIOUS
    <3> HIDE DEF h
    <3>. QED  BY <2>3, <3>1 DEF IsRun
  <2>. QED  BY <2>4
<1>3. n \in S
  BY <1>1, <1>2, NatSetInduction
<1>. QED  BY <1>3

\* The value after i passes does not depend on how many follow.
LEMMA RunUnique ==
  ASSUME NEW step, NEW start, NEW n \in Nat, NEW k \in Nat, NEW g, NEW h,
         IsRun(g, step, start, n), IsRun(h, step, start, k),
         NEW i \in Nat, i <= n, i <= k
  PROVE  g[i] = h[i]
<1> DEFINE S == {j \in Nat : j <= n /\ j <= k => g[j] = h[j]}
<1>1. /\ \A j \in 0 .. n : g[j] = IF j = 0 THEN start ELSE step[j][g[j - 1]]
      /\ \A j \in 0 .. k : h[j] = IF j = 0 THEN start ELSE step[j][h[j - 1]]
  BY DEF IsRun
<1>2. 0 \in S
  BY <1>1
<1>3. ASSUME NEW j \in Nat, j \in S
      PROVE  j + 1 \in S
  BY <1>1, <1>3
<1>4. i \in S
  BY <1>2, <1>3, NatSetInduction
<1>. QED  BY <1>4

\* LoopTo is the value any such function has.
LEMMA RunIs ==
  ASSUME NEW step, NEW start, NEW n \in Nat, NEW k \in Nat, n <= k,
         NEW g, IsRun(g, step, start, k)
  PROVE  LoopTo(step, start, n) = g[n]
<1> DEFINE h == CHOOSE h : IsRun(h, step, start, n)
<1>1. IsRun(h, step, start, n)
  BY RunExists
<1>2. LoopTo(step, start, n) = h[n]
  BY DEF LoopTo, IsRun
<1> HIDE DEF h
<1>3. h[n] = g[n]
  BY <1>1, RunUnique
<1>. QED  BY <1>2, <1>3

\* Before its first pass a loop has the value it starts with.
LEMMA LoopStarts ==
  ASSUME NEW step, NEW start
  PROVE  LoopTo(step, start, 0) = start
<1>1. PICK g : IsRun(g, step, start, 0)
  BY RunExists
<1>2. LoopTo(step, start, 0) = g[0]
  BY <1>1, RunIs
<1>. QED  BY <1>1, <1>2 DEF IsRun

\* One more pass makes one more step.
LEMMA LoopGoesOn ==
  ASSUME NEW step, NEW start, NEW n \in Nat
  PROVE  LoopTo(step, start, n + 1) = step[n + 1][LoopTo(step, start, n)]
<1>1. PICK g : IsRun(g, step, start, n + 1)
  BY RunExists
<1>2. LoopTo(step, start, n + 1) = g[n + 1] /\ LoopTo(step, start, n) = g[n]
  BY <1>1, RunIs
<1>3. g[n + 1] = step[n + 1][g[n]]
  BY <1>1 DEF IsRun
<1>. QED  BY <1>2, <1>3

-----------------------------------------------------------------------------
(* Sums of numbers.                                                        *)

LEMMA SumOfNone ==
  ASSUME NEW f
  PROVE  SumTo(f, 0) = 0
  BY LoopStarts DEF SumTo

\* A sum of integers is one.
LEMMA SumOfInts ==
  ASSUME NEW f, NEW n \in Nat, \A i \in 1 .. n : f[i] \in Int
  PROVE  SumTo(f, n) \in Int
<1> DEFINE S == {k \in Nat : k <= n => SumTo(f, k) \in Int}
           add == [i \in Nat |-> [sum \in Int |-> sum + f[i]]]
<1>1. 0 \in S
  BY SumOfNone
<1>2. ASSUME NEW k \in Nat, k \in S
      PROVE  k + 1 \in S
  <2>. SUFFICES ASSUME k + 1 <= n PROVE SumTo(f, k + 1) \in Int
    OBVIOUS
  <2>1. SumTo(f, k) \in Int /\ f[k + 1] \in Int
    BY <1>2
  <2>2. SumTo(f, k + 1) = add[k + 1][SumTo(f, k)]
    BY LoopGoesOn DEF SumTo
  <2>. QED  BY <2>1, <2>2
<1>3. n \in S
  BY <1>1, <1>2, NatSetInduction
<1>. QED  BY <1>3

\* One more element adds its value.
LEMMA SumOfMore ==
  ASSUME NEW f, NEW n \in Nat, \A i \in 1 .. n : f[i] \in Int
  PROVE  SumTo(f, n + 1) = SumTo(f, n) + f[n + 1]
<1> DEFINE add == [i \in Nat |-> [sum \in Int |-> sum + f[i]]]
<1>1. SumTo(f, n) \in Int
  BY SumOfInts
<1>2. SumTo(f, n + 1) = add[n + 1][SumTo(f, n)]
  BY LoopGoesOn DEF SumTo
<1>. QED  BY <1>1, <1>2

LEMMA SumOfNats ==
  ASSUME NEW f, NEW n \in Nat, \A i \in 1 .. n : f[i] \in Nat
  PROVE  SumTo(f, n) \in Nat
<1> DEFINE S == {k \in Nat : k <= n => SumTo(f, k) \in Nat}
<1>1. 0 \in S
  BY SumOfNone
<1>2. ASSUME NEW k \in Nat, k \in S
      PROVE  k + 1 \in S
  BY <1>2, SumOfMore
<1>3. n \in S
  BY <1>1, <1>2, NatSetInduction
<1>. QED  BY <1>3

\* A sum depends on nothing but its elements.
LEMMA SumOfSame ==
  ASSUME NEW f, NEW g, NEW n \in Nat, \A i \in 1 .. n : f[i] \in Int /\ f[i] = g[i]
  PROVE  SumTo(f, n) = SumTo(g, n)
<1> DEFINE S == {k \in Nat : k <= n => SumTo(f, k) = SumTo(g, k)}
<1>1. 0 \in S
  BY SumOfNone
<1>2. ASSUME NEW k \in Nat, k \in S
      PROVE  k + 1 \in S
  BY <1>2, SumOfMore
<1>3. n \in S
  BY <1>1, <1>2, NatSetInduction
<1>. QED  BY <1>3

\* A sum of zeros is zero.
LEMMA SumOfZeros ==
  ASSUME NEW f, NEW n \in Nat, \A i \in 1 .. n : f[i] = 0
  PROVE  SumTo(f, n) = 0
<1> DEFINE S == {k \in Nat : k <= n => SumTo(f, k) = 0}
<1>1. 0 \in S
  BY SumOfNone
<1>2. ASSUME NEW k \in Nat, k \in S
      PROVE  k + 1 \in S
  BY <1>2, SumOfMore
<1>3. n \in S
  BY <1>1, <1>2, NatSetInduction
<1>. QED  BY <1>3

\* One element that differs makes the whole difference of two sums.
LEMMA SumOfChanged ==
  ASSUME NEW f, NEW g, NEW n \in Nat, NEW j \in 1 .. n,
         \A i \in 1 .. n : f[i] \in Int /\ g[i] \in Int,
         \A i \in 1 .. n : i # j => g[i] = f[i]
  PROVE  SumTo(g, n) = SumTo(f, n) + g[j] - f[j]
<1> DEFINE S == {k \in Nat : k <= n =>
                   SumTo(g, k) = SumTo(f, k) + (IF k >= j THEN g[j] - f[j] ELSE 0)}
<1>1. 0 \in S
  BY SumOfNone
<1>2. ASSUME NEW k \in Nat, k \in S
      PROVE  k + 1 \in S
  <2>. SUFFICES ASSUME k + 1 <= n
                PROVE  SumTo(g, k + 1) = SumTo(f, k + 1)
                                           + (IF k + 1 >= j THEN g[j] - f[j] ELSE 0)
    OBVIOUS
  <2>1. /\ SumTo(g, k + 1) = SumTo(g, k) + g[k + 1]
        /\ SumTo(f, k + 1) = SumTo(f, k) + f[k + 1]
    BY SumOfMore
  <2>2. SumTo(g, k) \in Int /\ SumTo(f, k) \in Int
    BY SumOfInts
  <2>3. SumTo(g, k) = SumTo(f, k) + (IF k >= j THEN g[j] - f[j] ELSE 0)
    BY <1>2
  <2>4. /\ k + 1 \in 1 .. n /\ f[k + 1] \in Int /\ g[k + 1] \in Int
        /\ f[j] \in Int /\ g[j] \in Int
        /\ k + 1 # j => g[k + 1] = f[k + 1]
    OBVIOUS
  <2>5. CASE k + 1 = j
    BY <2>1, <2>2, <2>3, <2>4, <2>5
  <2>6. CASE k + 1 # j
    BY <2>1, <2>2, <2>3, <2>4, <2>6
  <2>. QED  BY <2>5, <2>6
<1>3. n \in S
  BY <1>1, <1>2, NatSetInduction
<1>4. SumTo(f, n) \in Int /\ f[j] \in Int /\ g[j] \in Int
  BY SumOfInts
<1>. QED  BY <1>3, <1>4


\* A function that goes on like another adds its next element to the sum.
LEMMA SumOfAppended ==
  ASSUME NEW f, NEW g, NEW n \in Nat, \A i \in 1 .. n : f[i] \in Int /\ f[i] = g[i]
  PROVE  SumTo(g, n + 1) = SumTo(f, n) + g[n + 1]
<1>1. \A i \in 1 .. n : g[i] \in Int
  OBVIOUS
<1>2. SumTo(g, n + 1) = SumTo(g, n) + g[n + 1]
  BY <1>1, SumOfMore
<1>3. SumTo(f, n) = SumTo(g, n)
  BY SumOfSame
<1>. QED  BY <1>2, <1>3

=============================================================================
