----------------------------- MODULE Recursion -----------------------------
(***************************************************************************)
(* Induction over natural numbers for the proofs about recursive           *)
(* functions.  The property is given as the set of the numbers that have   *)
(* it, and the step of a definition as a function, so that each lemma      *)
(* quantifies over sets only.                                              *)
(***************************************************************************)
EXTENDS Integers, FiniteSetTheorems, TLAPS

\* Every set of natural numbers that is not empty has a least element.
LEMMA LeastElement ==
  ASSUME NEW T, T \subseteq Nat, T # {}
  PROVE  \E x \in T : \A y \in T : x <= y
<1> DEFINE R == {ss \in Nat \X Nat : ss[1] < ss[2]}
<1>1. IsWellFoundedOn(R, Nat)
  BY NatLessThanWellFounded DEF OpToRel
<1>2. \A x, y \in Nat : x < y => <<x, y>> \in R
  OBVIOUS
<1> HIDE DEF R
<1>3. PICK x \in T : \A y \in T : ~ (<<y, x>> \in R)
  BY <1>1, WFMin
<1>4. ASSUME NEW y \in T PROVE x <= y
  <2>1. x \in Nat /\ y \in Nat
    OBVIOUS
  <2>2. ~ (y < x)
    BY <1>2, <1>3, <2>1, Zenon
  <2>3. QED
    BY <2>1, <2>2
<1>5. QED
  BY <1>4

\* Induction up to N.
LEMMA InductionUpTo ==
  ASSUME NEW N \in Nat, NEW S, 0 \in S,
         \A n \in 0..(N - 1) : n \in S => n + 1 \in S
  PROVE  0..N \subseteq S
<1> DEFINE T == (0..N) \ S
<1>1. SUFFICES ASSUME T # {} PROVE FALSE
  OBVIOUS
<1>2. PICK x \in T : \A y \in T : x <= y
  <2>1. T \subseteq Nat
    OBVIOUS
  <2> HIDE DEF T
  <2>2. QED
    BY <1>1, <2>1, LeastElement
<1>3. x # 0 /\ x - 1 \in 0..(N - 1) /\ x - 1 \notin T
  BY <1>2
<1>4. QED
  BY <1>3

\* What a recursive function on 0..N with the step h is.
Steps(g, N, v, h) == g[0] = v /\ \A n \in 1..N : g[n] = h[<<n, g[n - 1]>>]

\* There is one.
LEMMA RecursionExists ==
  ASSUME NEW N \in Nat, NEW V, NEW v \in V, NEW h \in [(1..N) \X V -> V]
  PROVE  \E g \in [0..N -> V] : Steps(g, N, v, h)
<1> USE DEF Steps
<1> DEFINE S == {m \in 0..N : \E g \in [0..m -> V] : Steps(g, m, v, h)}
<1>1. 0 \in S
  <2> DEFINE f == [n \in 0..0 |-> v]
  <2>1. f \in [0..0 -> V]
    OBVIOUS
  <2>2. f[0] = v /\ \A n \in 1..0 : f[n] = h[<<n, f[n - 1]>>]
    OBVIOUS
  <2> HIDE DEF f
  <2>3. QED
    BY <2>1, <2>2
<1>2. ASSUME NEW m \in 0..(N - 1), m \in S PROVE m + 1 \in S
  <2>1. PICK g \in [0..m -> V] : Steps(g, m, v, h)
    BY <1>2
  <2> DEFINE w == h[<<m + 1, g[m]>>]
             f == [n \in 0..(m + 1) |-> IF n = m + 1 THEN w ELSE g[n]]
  <2>2. w \in V
    <3>1. g[m] \in V /\ m + 1 \in 1..N
      OBVIOUS
    <3>2. <<m + 1, g[m]>> \in (1..N) \X V
      BY <3>1
    <3>3. QED
      BY <3>2
  <2>3. \A n \in 0..(m + 1) : n # m + 1 => n \in 0..m
    OBVIOUS
  <2>4. f \in [0..(m + 1) -> V]
    BY <2>2, <2>3
  <2>5. f[0] = v /\ f[m + 1] = w /\ \A n \in 0..m : f[n] = g[n]
    BY <2>1
  <2> HIDE DEF f
  <2>6. ASSUME NEW n \in 1..(m + 1) PROVE f[n] = h[<<n, f[n - 1]>>]
    <3>1. n - 1 \in 0..m
      OBVIOUS
    <3>2. f[n - 1] = g[n - 1]
      BY <2>5, <3>1
    <3>3. CASE n = m + 1
      BY <2>5, <3>2, <3>3
    <3>4. CASE n # m + 1
      BY <2>1, <2>5, <3>2, <3>4
    <3>5. QED
      BY <3>3, <3>4
  <2>7. Steps(f, m + 1, v, h)
    BY <2>5, <2>6
  <2>8. QED
    BY <2>4, <2>7
<1>3. 0..N \subseteq S
  <2> HIDE DEF S
  <2>1. QED
    BY <1>1, <1>2, InductionUpTo
<1>4. N \in S
  BY <1>3
<1>5. QED
  BY <1>4
=============================================================================
