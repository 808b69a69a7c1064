----------------------------- MODULE Induction ------------------------------
(***************************************************************************)
(* Induction over the natural numbers and the existence of functions that  *)
(* are defined by recursion, both stated for sets: the provers can         *)
(* instantiate these, which they cannot do with theorems that have an      *)
(* operator as a parameter.                                                *)
(***************************************************************************)
EXTENDS Integers, WellFoundedInduction, TLAPS

\* A set of natural numbers that is not empty has a least element.
LEMMA LeastNatural ==
  ASSUME NEW T, T \subseteq Nat, T # {}
  PROVE  \E m \in T : \A n \in T : m <= n
<1> DEFINE R == OpToRel(<, Nat)
<1>1. R = {p \in Nat \X Nat : p[1] < p[2]}
  BY DEF OpToRel
<1>2. IsWellFoundedOn(R, Nat)
  BY NatLessThanWellFounded
<1> HIDE DEF R
<1>3. PICK m \in T : \A n \in T : <<n, m>> \notin R
  BY <1>2, WFMin
<1>4. \A n \in T : ~(n < m)
  BY <1>1, <1>3
<1> QED
  BY <1>4

\* A set with 0 in it and with the successor of each of its elements has every natural
\* number in it.
LEMMA NatSetInduction ==
  ASSUME NEW T, 0 \in T, \A n \in Nat : n \in T => n + 1 \in T
  PROVE  Nat \subseteq T
<1> SUFFICES ASSUME Nat \ T # {} PROVE FALSE
  OBVIOUS
<1>1. PICK m \in Nat \ T : \A n \in Nat \ T : m <= n
  BY LeastNatural
<1>2. m # 0 /\ m - 1 \in Nat /\ m - 1 \in T
  BY <1>1
<1> QED
  BY <1>2

-----------------------------------------------------------------------------
\* g does on 0 .. n what the recursion asks for.
Approximates(g, base, step, n) ==
  /\ g[0] = base
  /\ \A k \in 0 .. n - 1 : g[k + 1] = step[k][g[k]]

\* There is such a g for every n.
LEMMA ApproximationExists ==
  ASSUME NEW V, NEW base \in V, NEW step \in [Nat -> [V -> V]]
  PROVE  \A n \in Nat : \E g \in [0 .. n -> V] : Approximates(g, base, step, n)
<1> DEFINE T == {n \in Nat : \E g \in [0 .. n -> V] : Approximates(g, base, step, n)}
<1>1. 0 \in T
  <2> DEFINE g == [k \in 0 .. 0 |-> base]
  <2>1. g \in [0 .. 0 -> V] /\ Approximates(g, base, step, 0)
    BY DEF Approximates
  <2> QED
    BY <2>1
<1>2. ASSUME NEW n \in Nat, n \in T PROVE n + 1 \in T
  <2>1. PICK g \in [0 .. n -> V] : Approximates(g, base, step, n)
    BY <1>2
  <2> DEFINE h == [k \in 0 .. n + 1 |-> IF k = n + 1 THEN step[n][g[n]] ELSE g[k]]
  <2>2. h \in [0 .. n + 1 -> V]
    OBVIOUS
  <2>3. Approximates(h, base, step, n + 1)
    <3>1. h[0] = base
      BY <2>1 DEF Approximates
    <3>2. ASSUME NEW k \in 0 .. n PROVE h[k + 1] = step[k][h[k]]
      BY <2>1 DEF Approximates
    <3> HIDE DEF h
    <3> QED
      BY <3>1, <3>2, (n + 1) - 1 = n DEF Approximates
  <2> QED
    BY <2>2, <2>3
<1> HIDE DEF T
<1>3. Nat \subseteq T
  BY <1>1, <1>2, NatSetInduction
<1> QED
  BY <1>3 DEF T

\* Two of them agree where both are defined.
LEMMA ApproximationsAgree ==
  ASSUME NEW base, NEW step, NEW m \in Nat, NEW n \in Nat, m <= n, NEW g, NEW h,
         Approximates(g, base, step, m), Approximates(h, base, step, n)
  PROVE  g[m] = h[m]
<1> DEFINE T == {k \in Nat : k <= m => g[k] = h[k]}
<1>1. 0 \in T
  BY DEF Approximates
<1>2. ASSUME NEW k \in Nat, k \in T PROVE k + 1 \in T
  BY <1>2 DEF Approximates
<1> HIDE DEF T
<1>3. Nat \subseteq T
  BY <1>1, <1>2, NatSetInduction
<1> QED
  BY <1>3 DEF T

\* f is defined by its value at 0 and by the step from n to n + 1.
IsRecursive(f, V, base, step) ==
  /\ f \in [Nat -> V]
  /\ f[0] = base
  /\ \A n \in Nat : f[n + 1] = step[n][f[n]]

\* There is such a function.
LEMMA Recursion ==
  ASSUME NEW V, NEW base \in V, NEW step \in [Nat -> [V -> V]]
  PROVE  \E f : IsRecursive(f, V, base, step)
<1> DEFINE G(n) == CHOOSE g \in [0 .. n -> V] : Approximates(g, base, step, n)
           f    == [n \in Nat |-> G(n)[n]]
<1>1. \A n \in Nat : G(n) \in [0 .. n -> V] /\ Approximates(G(n), base, step, n)
  BY ApproximationExists
<1> HIDE DEF G
<1>2. f \in [Nat -> V]
  BY <1>1
<1>3. f[0] = base
  BY <1>1 DEF Approximates
<1>4. ASSUME NEW n \in Nat PROVE f[n + 1] = step[n][f[n]]
  <2>1. G(n + 1)[n + 1] = step[n][G(n + 1)[n]]
    BY <1>1 DEF Approximates
  <2>2. G(n + 1)[n] = G(n)[n]
    BY <1>1, ApproximationsAgree
  <2> QED
    BY <2>1, <2>2
<1> HIDE DEF f
<1> QED
  BY <1>2, <1>3, <1>4 DEF IsRecursive

\* The same for a function on 0 .. last, as a loop over a sequence needs it.
IsLoop(f, V, base, last, step) ==
  /\ f \in [0 .. last -> V]
  /\ f[0] = base
  /\ \A n \in 1 .. last : f[n] = step[n][f[n - 1]]

LEMMA LoopRecursion ==
  ASSUME NEW V, NEW base \in V, NEW last \in Nat, NEW step \in [1 .. last -> [V -> V]]
  PROVE  \E f : IsLoop(f, V, base, last, step)
<1> DEFINE longer == [n \in Nat |-> IF n < last THEN step[n + 1] ELSE [v \in V |-> v]]
<1>1. longer \in [Nat -> [V -> V]]
  OBVIOUS
<1>2. \A n \in 1 .. last : longer[n - 1] = step[n]
  OBVIOUS
<1> HIDE DEF longer
<1>3. PICK f : IsRecursive(f, V, base, longer)
  BY <1>1, Recursion
<1> DEFINE g == [n \in 0 .. last |-> f[n]]
<1>4. g \in [0 .. last -> V] /\ g[0] = base
  BY <1>3 DEF IsRecursive
<1>5. ASSUME NEW n \in 1 .. last PROVE g[n] = step[n][g[n - 1]]
  <2>1. n - 1 \in Nat /\ (n - 1) + 1 = n
    OBVIOUS
  <2>2. f[n] = longer[n - 1][f[n - 1]]
    BY <1>3, <2>1 DEF IsRecursive
  <2> QED
    BY <1>2, <2>1, <2>2
<1> HIDE DEF g
<1> QED
  BY <1>4, <1>5 DEF IsLoop
=============================================================================
