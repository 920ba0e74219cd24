-------------------------- MODULE NaturalRecursion --------------------------
(***************************************************************************)
(* Induction on the natural numbers for the proofs of the other modules,   *)
(* stated with sets and functions, that functions defined by recursion on  *)
(* 0 .. n or on Nat exist, and what loops written as such functions give.  *)
(***************************************************************************)
EXTENDS Integers, WellFoundedInduction, TLAPS

\* Every set of natural numbers that is not empty has a least element.
THEOREM LeastNatural ==
  ASSUME NEW S, S \subseteq Nat, S # {}
  PROVE  \E n \in S : \A m \in S : n <= m
<1> DEFINE R == OpToRel(<, Nat)
<1>1. IsWellFoundedOn(R, Nat)
  BY NatLessThanWellFounded, Zenon
<1> HIDE DEF R
<1>2. PICK n \in S : \A m \in S : ~ (<<m, n>> \in R)
  BY <1>1, WFMin
<1>3. \A m \in S : m < n => <<m, n>> \in R
  BY Zenon DEF R, OpToRel
<1> SUFFICES ASSUME NEW m \in S PROVE n <= m
  OBVIOUS
<1>4. ~ (m < n)
  BY <1>2, <1>3
<1>5. m \in Nat /\ n \in Nat
  OBVIOUS
<1> QED BY <1>4, <1>5

\* A set that holds 0, and with every number the next, holds all of them.
THEOREM SetInduction ==
  ASSUME NEW S, 0 \in S, \A n \in Nat : n \in S => n + 1 \in S
  PROVE  Nat \subseteq S
<1> SUFFICES ASSUME Nat \ S # {} PROVE FALSE
  OBVIOUS
<1>1. PICK n \in Nat \ S : \A m \in Nat \ S : n <= m
  BY LeastNatural
<1>2. n # 0 /\ n - 1 \in Nat
  BY <1>1
<1>3. n - 1 \in S
  BY <1>1, <1>2
<1> QED BY <1>1, <1>2, <1>3

\* What a recursion on 0 .. n may do at each step, and its result.
Steps(n, V) == [1 .. n -> [V -> V]]

IsRecursion(f, base, step, n, V) ==
  /\ f \in [0 .. n -> V]
  /\ f[0] = base
  /\ \A k \in 1 .. n : f[k] = step[k][f[k - 1]]

\* The function that starts with base and goes on with step exists, so that
\* the CHOOSE behind "f[k \in 0 .. n] == ..." finds one.
THEOREM RecursionExists ==
  ASSUME NEW V, NEW base \in V, NEW n \in Nat, NEW step \in Steps(n, V)
  PROVE  \E f : IsRecursion(f, base, step, n, V)
<1> USE DEF Steps, IsRecursion
<1> DEFINE Solves(f, m) == IsRecursion(f, base, step, m, V)
           S == {m \in Nat : m <= n => \E f : Solves(f, m)}
<1>1. 0 \in S
  <2>1. Solves([k \in 0 .. 0 |-> base], 0)
    OBVIOUS
  <2> HIDE DEF Solves
  <2> QED BY <2>1
<1>2. ASSUME NEW m \in Nat, m \in S PROVE m + 1 \in S
  <2>1. CASE m + 1 <= n
    <3>1. PICK f : Solves(f, m)
      BY <1>2, <2>1
    <3>2. f[m] \in V /\ step[m + 1][f[m]] \in V
      BY <2>1, <3>1
    <3> DEFINE g == [k \in 0 .. m + 1 |-> IF k = m + 1 THEN step[m + 1][f[m]] ELSE f[k]]
    <3>3. g \in [0 .. m + 1 -> V]
      BY <3>1, <3>2
    <3>4. g[0] = base
      BY <3>1
    <3>5. ASSUME NEW k \in 1 .. m + 1 PROVE g[k] = step[k][g[k - 1]]
      <4>1. CASE k = m + 1
        BY <4>1
      <4>2. CASE k \in 1 .. m
        <5>1. k \in 0 .. m + 1 /\ k - 1 \in 0 .. m + 1 /\ k # m + 1 /\ k - 1 # m + 1
          BY <4>2
        <5>2. g[k] = f[k] /\ g[k - 1] = f[k - 1]
          BY <5>1
        <5> QED BY <3>1, <4>2, <5>2
      <4> QED BY <4>1, <4>2
    <3>6. Solves(g, m + 1)
      BY <3>3, <3>4, <3>5
    <3> HIDE DEF Solves
    <3> QED BY <3>6
  <2>2. CASE ~ (m + 1 <= n)
    BY <2>2
  <2> QED BY <2>1, <2>2
<1> HIDE DEF S
<1>3. n \in S
  BY <1>1, <1>2, SetInduction
<1>4. PICK f : Solves(f, n)
  BY <1>3 DEF S
<1> QED BY <1>4

IsSequence(f, base, step, V) ==
  f \in [Nat -> V] /\ f[0] = base /\ \A k \in Nat : f[k + 1] = step[f[k]]

\* The sequence that starts with base and goes on with step exists, so that
\* the CHOOSE behind "f[k \in Nat] == ..." finds it.
THEOREM SequenceExists ==
  ASSUME NEW V, NEW base \in V, NEW step \in [V -> V]
  PROVE  \E f : IsSequence(f, base, step, V)
<1> DEFINE Solves(g, n) == IsRecursion(g, base, [k \in 1 .. n |-> step], n, V)
           part == [n \in Nat |-> CHOOSE g : Solves(g, n)]
           f == [n \in Nat |-> part[n][n]]
<1>1. ASSUME NEW n \in Nat PROVE Solves(part[n], n)
  <2>1. [k \in 1 .. n |-> step] \in Steps(n, V)
    BY DEF Steps
  <2>2. \E g : Solves(g, n)
    BY <2>1, RecursionExists
  <2> HIDE DEF Solves
  <2> QED BY <2>2
<1>2. ASSUME NEW n \in Nat
      PROVE  /\ part[n] \in [0 .. n -> V] /\ part[n][0] = base
             /\ \A k \in 1 .. n : part[n][k] = step[part[n][k - 1]]
  <2> DEFINE g == part[n]
  <2>1. IsRecursion(g, base, [k \in 1 .. n |-> step], n, V)
    BY <1>1
  <2> HIDE DEF g, part
  <2>2. /\ g \in [0 .. n -> V] /\ g[0] = base
        /\ \A k \in 1 .. n : g[k] = [j \in 1 .. n |-> step][k][g[k - 1]]
    BY <2>1 DEF IsRecursion
  <2>3. \A k \in 1 .. n : [j \in 1 .. n |-> step][k] = step
    OBVIOUS
  <2> QED BY <2>2, <2>3 DEF g
<1> HIDE DEF part
<1>3. ASSUME NEW n \in Nat PROVE part[n][n] = part[n + 1][n]
  <2> DEFINE S == {k \in Nat : k <= n => part[n][k] = part[n + 1][k]}
  <2>1. 0 \in S
    <3>1. part[n][0] = base /\ part[n + 1][0] = base
      BY <1>2
    <3> QED BY <3>1
  <2>2. ASSUME NEW k \in Nat, k \in S PROVE k + 1 \in S
    <3> SUFFICES ASSUME k + 1 <= n PROVE part[n][k + 1] = part[n + 1][k + 1]
      OBVIOUS
    <3>1. k + 1 \in 1 .. n /\ k + 1 \in 1 .. n + 1 /\ k + 1 - 1 = k /\ n + 1 \in Nat
      OBVIOUS
    <3>2. part[n][k + 1] = step[part[n][k]]
      BY <1>2, <3>1
    <3>3. part[n + 1][k + 1] = step[part[n + 1][k]]
      BY <1>2, <3>1
    <3> QED BY <2>2, <3>2, <3>3
  <2>3. Nat \subseteq S
    <3> HIDE DEF S
    <3> QED BY <2>1, <2>2, SetInduction
  <2> QED BY <2>3
<1>4. f \in [Nat -> V]
  <2>1. ASSUME NEW n \in Nat PROVE part[n][n] \in V
    <3>1. n \in 0 .. n
      OBVIOUS
    <3> QED BY <1>2, <3>1
  <2> QED BY <2>1
<1>5. f[0] = base
  BY <1>2
<1>6. ASSUME NEW k \in Nat PROVE f[k + 1] = step[f[k]]
  <2>1. k + 1 \in Nat /\ k + 1 \in 1 .. k + 1 /\ k + 1 - 1 = k
    OBVIOUS
  <2>2. part[k + 1][k + 1] = step[part[k + 1][k]]
    BY <1>2, <2>1
  <2> QED BY <1>3, <2>1, <2>2
<1> HIDE DEF f
<1>7. IsSequence(f, base, step, V)
  BY <1>4, <1>5, <1>6 DEF IsSequence
<1> QED BY <1>7

-----------------------------------------------------------------------------
(* Loops that count up until they meet a number of a set.                  *)

\* f[k] is the number such a loop ends with that has come to k.
IsSearch(f, ends) == f = [k \in Nat |-> IF k \in ends THEN k ELSE f[k + 1]]

\* Such a function exists if the loop ends wherever it starts.
THEOREM SearchExists ==
  ASSUME NEW ends, ends \subseteq Nat, \A k \in Nat : \E e \in ends : k <= e
  PROVE  \E f : IsSearch(f, ends)
<1> DEFINE Next(k, e) == e \in ends /\ k <= e /\ \A d \in ends : k <= d => e <= d
           f == [k \in Nat |-> CHOOSE e : Next(k, e)]
<1>1. ASSUME NEW k \in Nat PROVE Next(k, f[k])
  <2> DEFINE S == {e \in ends : k <= e}
  <2>1. S \subseteq Nat /\ S # {}
    OBVIOUS
  <2>2. PICK e \in S : \A d \in S : e <= d
    <3> HIDE DEF S
    <3> QED BY <2>1, LeastNatural
  <2>3. Next(k, e)
    BY <2>2
  <2> HIDE DEF Next
  <2> QED BY <2>3
<1>2. ASSUME NEW k \in Nat, NEW e, Next(k, e)
      PROVE  e \in Nat /\ k <= e /\ (k \in ends => e = k)
  BY <1>2
<1>3. ASSUME NEW k \in Nat, k \notin ends, NEW e, Next(k, e), NEW d, Next(k + 1, d)
      PROVE  e = d
  <2>1. e \in Nat /\ d \in Nat /\ k <= e /\ k + 1 <= d /\ e \in ends /\ d \in ends
    BY <1>3
  <2>2. e # k
    BY <1>3
  <2>3. k + 1 <= e /\ k <= d
    BY <2>1, <2>2
  <2>4. e <= d /\ d <= e
    BY <1>3, <2>1, <2>3
  <2> QED BY <2>1, <2>4
<1> HIDE DEF Next
<1>4. ASSUME NEW k \in Nat PROVE f[k] = IF k \in ends THEN k ELSE f[k + 1]
  <2>1. Next(k, f[k]) /\ Next(k + 1, f[k + 1])
    <3>1. k + 1 \in Nat
      OBVIOUS
    <3> HIDE DEF f
    <3> QED BY <1>1, <3>1
  <2> HIDE DEF f
  <2> QED BY <1>2, <1>3, <2>1
<1>5. f = [k \in Nat |-> f[k]]
  OBVIOUS
<1> HIDE DEF f
<1>6. f = [k \in Nat |-> IF k \in ends THEN k ELSE f[k + 1]]
  BY <1>4, <1>5
<1> QED BY <1>6 DEF IsSearch

\* From 0 it ends with the least number of the set.
THEOREM SearchResult ==
  ASSUME NEW ends, ends \subseteq Nat, ends # {}, NEW f, IsSearch(f, ends)
  PROVE  f[0] \in ends /\ \A k \in ends : f[0] <= k
<1>1. \A k \in Nat : f[k] = IF k \in ends THEN k ELSE f[k + 1]
  BY Zenon DEF IsSearch
<1>2. PICK e \in ends : \A d \in ends : e <= d
  BY LeastNatural
<1> DEFINE S == {k \in Nat : k <= e => f[k] = f[0]}
<1>3. 0 \in S
  OBVIOUS
<1>4. ASSUME NEW k \in Nat, k \in S PROVE k + 1 \in S
  BY <1>1, <1>2, <1>4
<1>5. Nat \subseteq S
  <2> HIDE DEF S
  <2> QED BY <1>3, <1>4, SetInduction
<1> QED BY <1>1, <1>2, <1>5

-----------------------------------------------------------------------------
(* Loops that end at the first bad one of n elements.                      *)

\* f[j] is what the loop gives from element j on: found[j] if that one is bad,
\* last if all elements have been gone through.
IsLoop(f, n, bad, found, last) ==
  f = [j \in 0 .. n |->
         IF j = n THEN last ELSE IF j \in bad THEN found[j] ELSE f[j + 1]]

\* Such a function exists.
THEOREM LoopExists ==
  ASSUME NEW n \in Nat, NEW bad, NEW found, NEW last
  PROVE  \E f : IsLoop(f, n, bad, found, last)
<1> DEFINE At(j, rest) == IF j \in bad THEN found[j] ELSE rest
           V == {last} \cup {found[j] : j \in 0 .. n}
           step == [k \in 1 .. n |-> [v \in V |-> At(n - k, v)]]
<1>1. ASSUME NEW k \in 1 .. n, NEW v \in V
      PROVE  At(n - k, v) \in V
  <2>1. n - k \in 0 .. n
    OBVIOUS
  <2> QED BY <2>1
<1>2. step \in Steps(n, V) /\ last \in V
  <2> HIDE DEF V, At
  <2>1. step \in Steps(n, V)
    BY <1>1 DEF Steps
  <2> QED BY <2>1 DEF V
<1> HIDE DEF V, At
<1>3. \A k \in 1 .. n, v \in V : step[k][v] = At(n - k, v)
  OBVIOUS
<1> HIDE DEF step
<1>4. PICK g : IsRecursion(g, last, step, n, V)
  BY <1>2, RecursionExists
<1> DEFINE f == [j \in 0 .. n |-> g[n - j]]
<1>5. ASSUME NEW j \in 0 .. n
      PROVE  f[j] = IF j = n THEN last ELSE At(j, f[j + 1])
  <2>1. CASE j = n
    <3>1. n - j = 0
      BY <2>1
    <3> QED BY <1>4, <2>1, <3>1 DEF IsRecursion
  <2>2. CASE j # n
    <3> DEFINE k == n - j
    <3>1. k \in 1 .. n /\ k - 1 \in 0 .. n /\ n - k = j /\ n - (j + 1) = k - 1
          /\ j + 1 \in 0 .. n
      BY <2>2
    <3>2. f[j] = g[k] /\ f[j + 1] = g[k - 1]
      BY <3>1
    <3> HIDE DEF k, f
    <3>3. g[k] = step[k][g[k - 1]] /\ g[k - 1] \in V
      BY <1>4, <3>1 DEF IsRecursion
    <3> QED BY <1>3, <2>2, <3>1, <3>2, <3>3
  <2> QED BY <2>1, <2>2
<1>6. f = [j \in 0 .. n |-> IF j = n THEN last ELSE At(j, f[j + 1])]
  <2> DEFINE h == [j \in 0 .. n |-> IF j = n THEN last ELSE At(j, f[j + 1])]
  <2>1. \A j \in 0 .. n : f[j] = h[j]
    BY <1>5
  <2> QED BY <2>1
<1> HIDE DEF f
<1>7. IsLoop(f, n, bad, found, last)
  BY <1>6 DEF IsLoop, At
<1> QED BY <1>7

\* It gives last if no element is bad, and what is found at the first bad one
\* otherwise.
THEOREM LoopResult ==
  ASSUME NEW n \in Nat, NEW bad, NEW found, NEW last,
         NEW f, IsLoop(f, n, bad, found, last)
  PROVE  \/ f[0] = last /\ \A j \in 0 .. n - 1 : j \notin bad
         \/ \E j \in 0 .. n - 1 : /\ j \in bad /\ f[0] = found[j]
                                  /\ \A k \in 0 .. j - 1 : k \notin bad
<1>1. \A j \in 0 .. n :
        f[j] = IF j = n THEN last ELSE IF j \in bad THEN found[j] ELSE f[j + 1]
  BY Zenon DEF IsLoop
<1> DEFINE ends == {j \in 0 .. n : j = n \/ j \in bad}
<1>2. PICK e \in ends : \A j \in ends : e <= j
  <2>1. n \in ends /\ ends \subseteq Nat
    OBVIOUS
  <2> QED BY <2>1, LeastNatural
<1> DEFINE S == {k \in Nat : k <= e => f[k] = f[0]}
<1>3. 0 \in S
  OBVIOUS
<1>4. ASSUME NEW k \in Nat, k \in S PROVE k + 1 \in S
  <2> SUFFICES ASSUME k + 1 <= e PROVE f[k + 1] = f[0]
    OBVIOUS
  <2>1. k \in 0 .. n /\ k # n /\ k \notin bad /\ f[k] = f[0]
    BY <1>2, <1>4
  <2> QED BY <1>1, <2>1
<1>5. e \in S
  <2> HIDE DEF S
  <2>1. Nat \subseteq S
    BY <1>3, <1>4, SetInduction
  <2> QED BY <2>1
<1>6. f[0] = f[e]
  BY <1>5
<1>7. \A k \in 0 .. e - 1 : k \notin bad
  BY <1>2
<1> QED BY <1>1, <1>2, <1>6, <1>7
=============================================================================
