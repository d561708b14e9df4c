---------------------------- MODULE NaturalFacts ----------------------------
(***************************************************************************)
(* Facts about the natural numbers that the proofs of this project share:  *)
(* a least element, induction over a set of naturals, and the existence of *)
(* functions defined by recursion.  They speak of sets and functions where *)
(* the theorems of the standard library take an operator as a parameter.   *)
(***************************************************************************)
EXTENDS Integers, WellFoundedInduction, TLAPS

(* A set of naturals that is not empty has a least element.                *)
LEMMA LeastNatural ==
    ASSUME NEW S \in SUBSET Nat, S # {}
    PROVE  \E m \in S : \A n \in S : m <= n
<1> DEFINE less == {pair \in Nat \X Nat : pair[1] < pair[2]}
<1>1. IsWellFoundedOn(less, Nat)
  BY NatLessThanWellFounded DEF OpToRel
<1>2. PICK m \in S : \A n \in S : ~(<<n, m>> \in less)
  BY <1>1, WFMin
<1>3. SUFFICES ASSUME NEW n \in S PROVE m <= n
  BY <1>2
<1>4. ~(<<n, m>> \in less)
  BY <1>2
<1> QED
  BY <1>4

(* Induction: a set that has zero, and with every natural the next one,    *)
(* has all of them.                                                        *)
LEMMA SetInduction ==
    ASSUME NEW S, 0 \in S, \A n \in Nat : n \in S => n + 1 \in S
    PROVE  \A n \in Nat : n \in S
<1>1. SUFFICES ASSUME Nat \ S # {} PROVE FALSE
  OBVIOUS
<1>2. PICK m \in Nat \ S : \A n \in Nat \ S : m <= n
  BY <1>1, LeastNatural
<1>3. m # 0 /\ m - 1 \in Nat
  BY <1>2
<1>4. m - 1 \in S
  BY <1>2, <1>3
<1> QED
  BY <1>2, <1>3, <1>4

(* f begins with the value first and goes from each value to the next.     *)
Iterates(f, V, first, next) ==
    /\ f \in [Nat -> V]
    /\ f[0] = first
    /\ \A n \in Nat : f[n + 1] = next[n][f[n]]

(* Recursion: from a first value, and for every natural a map to the next  *)
(* value, there is the function of all values.                             *)
LEMMA Recursion ==
    ASSUME NEW V, NEW first \in V, NEW next \in [Nat -> [V -> V]]
    PROVE  \E f : Iterates(f, V, first, next)
<1> DEFINE Begins(g, n) == /\ g \in [0 .. n -> V]
                           /\ g[0] = first
                           /\ \A m \in 0 .. n - 1 : g[m + 1] = next[m][g[m]]
<1> DEFINE Some == {n \in Nat : \E g \in [0 .. n -> V] : Begins(g, n)}
<1> DEFINE Alike == {n \in Nat : \A j, k \in Nat : \A g \in [0 .. j -> V], h \in [0 .. k -> V] :
                        Begins(g, j) /\ Begins(h, k) /\ n <= j /\ n <= k => g[n] = h[n]}
<1>1. \A n \in Nat : n \in Some
  <2>1. 0 \in Some
    <3> DEFINE g == [m \in 0 .. 0 |-> first]
    <3>1. g \in [0 .. 0 -> V] /\ Begins(g, 0)
      OBVIOUS
    <3> QED
      BY <3>1
  <2>2. ASSUME NEW n \in Nat, n \in Some
        PROVE  n + 1 \in Some
    <3>1. PICK g \in [0 .. n -> V] : Begins(g, n)
      BY <2>2
    <3> DEFINE h == [m \in 0 .. n + 1 |-> IF m = n + 1 THEN next[n][g[n]] ELSE g[m]]
    <3>2. h \in [0 .. n + 1 -> V]
      <4>1. \A m \in 0 .. n + 1 : m # n + 1 => m \in 0 .. n
        OBVIOUS
      <4>2. next[n][g[n]] \in V
        OBVIOUS
      <4> QED
        BY <4>1, <4>2
    <3>3. ASSUME NEW m \in 0 .. n
          PROVE  h[m + 1] = next[m][h[m]]
      <4>1. m \in 0 .. n + 1 /\ m + 1 \in 0 .. n + 1 /\ m # n + 1
        OBVIOUS
      <4>2. CASE m = n
        BY <4>1, <4>2
      <4>3. CASE m # n
        <5>1. m \in 0 .. n - 1 /\ m + 1 # n + 1
          BY <4>3
        <5> QED
          BY <3>1, <4>1, <5>1
      <4> QED
        BY <4>2, <4>3
    <3>4. h[0] = first
      BY <3>1
    <3>5. Begins(h, n + 1)
      <4>1. \A m \in 0 .. (n + 1) - 1 : m \in 0 .. n
        OBVIOUS
      <4> HIDE DEF h
      <4> QED
        BY <3>2, <3>3, <3>4, <4>1
    <3> HIDE DEF h, Begins
    <3> QED
      BY <3>2, <3>5
  <2> QED
    <3> HIDE DEF Some
    <3> QED
      BY <2>1, <2>2, SetInduction
<1>2. \A n \in Nat : n \in Alike
  <2>1. 0 \in Alike
    OBVIOUS
  <2>2. ASSUME NEW n \in Nat, n \in Alike
        PROVE  n + 1 \in Alike
    <3>1. SUFFICES ASSUME NEW j \in Nat, NEW k \in Nat,
                          NEW g \in [0 .. j -> V], NEW h \in [0 .. k -> V],
                          Begins(g, j), Begins(h, k), n + 1 <= j, n + 1 <= k
                   PROVE  g[n + 1] = h[n + 1]
      <4> HIDE DEF Begins
      <4> QED
        OBVIOUS
    <3>2. g[n] = h[n]
      <4>1. n <= j /\ n <= k
        BY <3>1
      <4> HIDE DEF Begins
      <4> QED
        BY <2>2, <3>1, <4>1
    <3>3. n \in 0 .. j - 1 /\ n \in 0 .. k - 1
      BY <3>1
    <3> QED
      BY <3>1, <3>2, <3>3
  <2> QED
    <3> HIDE DEF Alike
    <3> QED
      BY <2>1, <2>2, SetInduction
<1> DEFINE G(n) == CHOOSE g \in [0 .. n -> V] : Begins(g, n)
<1>3. \A n \in Nat : G(n) \in [0 .. n -> V] /\ Begins(G(n), n)
  <2> SUFFICES ASSUME NEW n \in Nat
               PROVE  G(n) \in [0 .. n -> V] /\ Begins(G(n), n)
    OBVIOUS
  <2>1. \E g \in [0 .. n -> V] : Begins(g, n)
    BY <1>1
  <2> HIDE DEF Begins
  <2> QED
    BY <2>1
<1> DEFINE f == [n \in Nat |-> G(n)[n]]
<1>4. f \in [Nat -> V]
  <2> HIDE DEF G
  <2> QED
    BY <1>3
<1>5. f[0] = first
  <2> HIDE DEF G
  <2> QED
    BY <1>3
<1>6. ASSUME NEW n \in Nat
      PROVE  f[n + 1] = next[n][f[n]]
  <2> HIDE DEF G
  <2>1. /\ G(n) \in [0 .. n -> V] /\ Begins(G(n), n)
        /\ G(n + 1) \in [0 .. n + 1 -> V] /\ Begins(G(n + 1), n + 1)
    BY <1>3
  <2>2. G(n)[n] = G(n + 1)[n]
    <3> HIDE DEF Begins
    <3>1. n + 1 \in Nat /\ n <= n /\ n <= n + 1 /\ n \in Alike
      <4> HIDE DEF Alike
      <4> QED
        BY <1>2
    <3> QED
      BY <2>1, <3>1
  <2>3. G(n + 1)[n + 1] = next[n][G(n + 1)[n]]
    <3>1. n \in 0 .. (n + 1) - 1
      OBVIOUS
    <3> QED
      BY <2>1, <3>1
  <2> QED
    BY <2>2, <2>3
<1>7. Iterates(f, V, first, next)
  <2> HIDE DEF f
  <2> QED
    BY <1>4, <1>5, <1>6 DEF Iterates
<1> QED
  BY <1>7
=============================================================================
