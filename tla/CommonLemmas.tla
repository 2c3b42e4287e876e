---------------------------- MODULE CommonLemmas ----------------------------
(***************************************************************************)
(* Induction over the natural numbers, and the existence of a function     *)
(* defined by recursion on them, in a form that the proofs of the other    *)
(* modules can cite: sets and functions in place of operator parameters.   *)
(* Then sums over finite sets, which are defined by such a recursion, and  *)
(* sequences that are put together from others.                            *)
(***************************************************************************)
EXTENDS Integers, Sequences, FiniteSets, FiniteSetsExt, FiniteSetTheorems,
        SequenceTheorems, WellFoundedInduction, TLAPS

\* Every set of natural numbers that is not empty has a least element.
LEMMA NatLeast ==
  ASSUME NEW T, T \subseteq Nat, T # {}
  PROVE \E x \in T : \A y \in T : x <= y
<1>. DEFINE R == OpToRel(<, Nat)
<1>1. IsWellFoundedOn(R, Nat)
  BY NatLessThanWellFounded
<1>2. PICK x \in T : \A y \in T : ~ (<<y, x>> \in R)
  <2>. HIDE DEF R
  <2>. QED  BY <1>1, WFMin
<1>3. R = {ss \in Nat \X Nat : ss[1] < ss[2]}
  BY DEF OpToRel
<1>4. ASSUME NEW y \in T PROVE x <= y
  <2>1. ~ (<<y,x>> \in {ss \in Nat \X Nat : ss[1] < ss[2]})
    BY <1>2, <1>3
  <2>2. <<y,x>> \in Nat \X Nat
    OBVIOUS
  <2>3. ~ (y < x)
    BY <2>1, <2>2
  <2>. QED  BY <2>3
<1>. QED  BY <1>4

\* Induction: a set that holds 0 and every successor holds all of Nat.
LEMMA SetInduction ==
  ASSUME NEW S, 0 \in S, \A n \in Nat : n \in S => n + 1 \in S
  PROVE Nat \subseteq S
<1>. SUFFICES ASSUME Nat \ S # {} PROVE FALSE
  OBVIOUS
<1>1. PICK x \in Nat \ S : \A y \in Nat \ S : x <= y
  BY NatLeast
<1>2. x # 0 /\ x \in Nat
  OBVIOUS
<1>3. x - 1 \in Nat /\ x - 1 \in S
  BY <1>1, <1>2
<1>4. (x - 1) + 1 \in S
  BY <1>3
<1>. QED  BY <1>2, <1>4

\* f starts at a and goes on by step.
Iterates(f, V, a, step) ==
  /\ f \in [Nat -> V] /\ f[0] = a
  /\ \A n \in Nat : f[n + 1] = step[f[n]]

(* Every step on a set can be iterated from every element of it: for each  *)
(* n one function on 0 .. n does so, by induction, and their last values   *)
(* make the function on Nat.                                               *)
LEMMA Recursion ==
  ASSUME NEW V, NEW a \in V, NEW step \in [V -> V]
  PROVE \E f : Iterates(f, V, a, step)
<1>. DEFINE Iter(n) == {g \in [0 .. n -> V] : g[0] = a /\ \A i \in 0 .. n - 1 : g[i + 1] = step[g[i]]}
            Good == {n \in Nat : \E g \in Iter(n) : \A h \in Iter(n) : h = g}
<1>1. Nat \subseteq Good
  <2>1. 0 \in Good
    <3>. DEFINE g0 == [i \in 0 .. 0 |-> a]
    <3>1. g0 \in Iter(0)
      OBVIOUS
    <3>2. ASSUME NEW h \in Iter(0) PROVE h = g0
      <4>1. h \in [0 .. 0 -> V] /\ h[0] = a
        OBVIOUS
      <4>2. \A i \in 0 .. 0 : h[i] = g0[i]
        BY <4>1
      <4>. QED  BY <4>1, <4>2
    <3>. QED  BY <3>1, <3>2
  <2>2. ASSUME NEW n \in Nat, n \in Good PROVE n + 1 \in Good
    <3>1. PICK g \in Iter(n) : \A h \in Iter(n) : h = g
      BY <2>2
    <3>. DEFINE g1 == [i \in 0 .. n + 1 |-> IF i <= n THEN g[i] ELSE step[g[n]]]
    <3>2. g1 \in Iter(n + 1)
      <4>1. \A i \in 0 .. n : g[i] \in V
        OBVIOUS
      <4>2. step[g[n]] \in V
        BY <4>1
      <4>3. g1 \in [0 .. n + 1 -> V]
        BY <4>1, <4>2
      <4>4. g1[0] = a
        OBVIOUS
      <4>5. ASSUME NEW i \in 0 .. (n + 1) - 1 PROVE g1[i + 1] = step[g1[i]]
        <5>1. CASE i = n
          BY <5>1
        <5>2. CASE i # n
          <6>1. i \in 0 .. n - 1 /\ i + 1 \in 0 .. n
            BY <5>2
          <6>2. g[i + 1] = step[g[i]]
            BY <6>1
          <6>. QED  BY <6>1, <6>2
        <5>. QED  BY <5>1, <5>2
      <4>. QED  BY <4>3, <4>4, <4>5
    <3>3. ASSUME NEW h \in Iter(n + 1) PROVE h = g1
      <4>. DEFINE h0 == [i \in 0 .. n |-> h[i]]
      <4>1. h \in [0 .. n + 1 -> V] /\ h[0] = a /\ \A i \in 0 .. n : h[i + 1] = step[h[i]]
        OBVIOUS
      <4>2. h0 \in Iter(n)
        <5>1. h0 \in [0 .. n -> V]
          BY <4>1
        <5>2. h0[0] = a
          BY <4>1
        <5>3. \A i \in 0 .. n - 1 : h0[i + 1] = step[h0[i]]
          BY <4>1
        <5>. QED  BY <5>1, <5>2, <5>3
      <4>3. h0 = g
        BY <3>1, <4>2
      <4>4. \A i \in 0 .. n : h[i] = g[i]
        <5>. SUFFICES ASSUME NEW i \in 0 .. n PROVE h[i] = g[i]
          OBVIOUS
        <5>1. h0[i] = h[i]
          OBVIOUS
        <5>. QED  BY <5>1, <4>3
      <4>5. h[n + 1] = step[g[n]]
        BY <4>1, <4>4
      <4>6. \A i \in 0 .. n + 1 : h[i] = g1[i]
        BY <4>4, <4>5
      <4>7. g1 \in [0 .. n + 1 -> V]
        BY <3>2
      <4>. QED  BY <4>1, <4>6, <4>7
    <3>. QED  BY <3>2, <3>3
  <2>. HIDE DEF Good
  <2>. QED  BY <2>1, <2>2, SetInduction
<1>2. \A n \in Nat : \E g \in Iter(n) : \A h \in Iter(n) : h = g
  BY <1>1
<1>. DEFINE G(n) == CHOOSE g \in Iter(n) : \A h \in Iter(n) : h = g
            f == [n \in Nat |-> G(n)[n]]
<1>3. ASSUME NEW n \in Nat PROVE G(n) \in Iter(n) /\ \A h \in Iter(n) : h = G(n)
  BY <1>2
<1>4. ASSUME NEW n \in Nat PROVE G(n)[n] \in V
  <2>1. G(n) \in Iter(n)
    BY <1>3
  <2>. HIDE DEF G
  <2>. QED  BY <2>1
<1>5. G(0)[0] = a
  <2>1. G(0) \in Iter(0)
    <3>. HIDE DEF G, Iter
    <3>. QED  BY <1>3
  <2>. HIDE DEF G
  <2>. QED  BY <2>1
<1>6. ASSUME NEW n \in Nat PROVE G(n + 1)[n + 1] = step[G(n)[n]]
  <2>. DEFINE g == G(n + 1)
              g0 == [i \in 0 .. n |-> g[i]]
  <2>1. g \in Iter(n + 1)
    <3>. HIDE DEF G, Iter
    <3>. QED  BY <1>3
  <2>2. \A h \in Iter(n) : h = G(n)
    BY <1>3
  <2>. HIDE DEF G
  <2>3. g \in [0 .. n + 1 -> V] /\ g[0] = a /\ \A i \in 0 .. n : g[i + 1] = step[g[i]]
    BY <2>1
  <2>. HIDE DEF g
  <2>4. g0 \in Iter(n)
        <5>1. g0 \in [0 .. n -> V]
          BY <2>3
        <5>2. g0[0] = a
          BY <2>3
        <5>3. \A i \in 0 .. n - 1 : g0[i + 1] = step[g0[i]]
          BY <2>3
        <5>. QED  BY <5>1, <5>2, <5>3
  <2>5. g0 = G(n)
    BY <2>2, <2>4
  <2>6. g[n] = G(n)[n]
    <3>1. g0[n] = g[n]
      OBVIOUS
    <3>. QED  BY <3>1, <2>5
  <2>7. g[n + 1] = step[g[n]]
    BY <2>3
  <2>. QED  BY <2>6, <2>7 DEF g
<1>. HIDE DEF G
<1>7. f \in [Nat -> V]
  BY <1>4
<1>8. f[0] = a /\ \A n \in Nat : f[n + 1] = step[f[n]]
  BY <1>5, <1>6
<1>. HIDE DEF f
<1>. QED  BY <1>7, <1>8 DEF Iterates

\* Induction from 0 to n.
LEMMA IntervalInduction ==
  ASSUME NEW n \in Nat, NEW S, 0 \in S, \A i \in 1 .. n : i - 1 \in S => i \in S
  PROVE  0 .. n \subseteq S
<1>. DEFINE G == {i \in Nat : i <= n => i \in S}
<1>1. 0 \in G
  OBVIOUS
<1>2. ASSUME NEW i \in Nat, i \in G PROVE i + 1 \in G
  <2>1. CASE i + 1 <= n
    <3>1. i \in S /\ i + 1 \in 1 .. n /\ (i + 1) - 1 = i
      BY <1>2, <2>1
    <3>. QED  BY <3>1
  <2>2. CASE ~(i + 1 <= n)
    BY <2>2
  <2>. QED  BY <2>1, <2>2
<1>. HIDE DEF G
<1>3. Nat \subseteq G
  BY <1>1, <1>2, SetInduction
<1>. QED  BY <1>3 DEF G

\* f starts at a and goes on to n by steps that depend on where it is.
Walks(f, V, n, a, step) ==
  /\ f \in [0 .. n -> V]
  /\ f = [i \in 0 .. n |-> IF i = 0 THEN a ELSE step[i][f[i - 1]]]

LEMMA WalksInside ==
  ASSUME NEW f, NEW V, NEW n \in Nat, NEW a, NEW step, Walks(f, V, n, a, step)
  PROVE  \A k \in 0 .. n : f[k] \in V
<1>1. f \in [0 .. n -> V]
  BY DEF Walks
<1>. QED  BY <1>1

LEMMA StepRecursion ==
  ASSUME NEW V, NEW n \in Nat, NEW a \in V, NEW step \in [1 .. n -> [V -> V]]
  PROVE  \E f : Walks(f, V, n, a, step)
<1>. DEFINE W == (0 .. n) \X V
            next(w) == IF w[1] < n THEN <<w[1] + 1, step[w[1] + 1][w[2]]>> ELSE w
            go == [w \in W |-> next(w)]
<1>1. ASSUME NEW w \in W PROVE next(w) \in W
  <2>1. w[1] \in 0 .. n /\ w[2] \in V /\ w = <<w[1], w[2]>>
    OBVIOUS
  <2>2. CASE w[1] < n
    <3>1. w[1] + 1 \in 1 .. n /\ w[1] + 1 \in 0 .. n
      BY <2>1, <2>2
    <3>2. step[w[1] + 1][w[2]] \in V
      BY <2>1, <3>1
    <3>. QED  BY <2>2, <3>1, <3>2
  <2>3. CASE ~(w[1] < n)
    BY <2>3
  <2>. QED  BY <2>2, <2>3
<1>2. <<0, a>> \in W /\ go \in [W -> W]
  <2>1. <<0, a>> \in W
    OBVIOUS
  <2>. HIDE DEF W, next
  <2>. QED  BY <1>1, <2>1
<1>3. PICK g : Iterates(g, W, <<0, a>>, go)
  <2>. HIDE DEF W, go
  <2>. QED  BY <1>2, Recursion
<1>4. /\ g \in [Nat -> W] /\ g[0] = <<0, a>>
      /\ \A i \in Nat : g[i + 1] = next(g[i])
  BY <1>3 DEF Iterates
<1>. DEFINE S == {i \in Nat : i <= n => g[i][1] = i}
<1>5. 0 .. n \subseteq S
  <2>1. 0 \in S
    BY <1>4
  <2>2. ASSUME NEW i \in 1 .. n, i - 1 \in S PROVE i \in S
    <3>1. i - 1 \in Nat /\ (i - 1) + 1 = i /\ g[i - 1][1] = i - 1
      BY <2>2
    <3>2. g[i] = next(g[i - 1])
      BY <1>4, <3>1
    <3>3. g[i][1] = (i - 1) + 1
      BY <3>1, <3>2
    <3>. QED  BY <3>1, <3>3
  <2>. HIDE DEF S
  <2>. QED  BY <2>1, <2>2, IntervalInduction
<1>. DEFINE f == [i \in 0 .. n |-> g[i][2]]
            h == [i \in 0 .. n |-> IF i = 0 THEN a ELSE step[i][f[i - 1]]]
<1>6. f \in [0 .. n -> V]
  <2>1. ASSUME NEW i \in 0 .. n PROVE g[i][2] \in V
    BY <1>4
  <2>. QED  BY <2>1
<1>7. ASSUME NEW i \in 0 .. n PROVE f[i] = h[i]
  <2>1. CASE i = 0
    BY <1>4, <2>1
  <2>2. CASE i # 0
    <3>1. i \in 1 .. n /\ i - 1 \in 0 .. n /\ i - 1 \in Nat /\ (i - 1) + 1 = i
      BY <2>2
    <3>2. g[i - 1][1] = i - 1
      BY <1>5, <3>1
    <3>3. g[i] = next(g[i - 1])
      BY <1>4, <3>1
    <3>4. g[i][2] = step[i][g[i - 1][2]]
      BY <3>1, <3>2, <3>3
    <3>. QED  BY <2>2, <3>1, <3>4
  <2>. QED  BY <2>1, <2>2
<1>8. f = h
  <2>. HIDE DEF f
  <2>1. f = [i \in 0 .. n |-> f[i]]
    BY <1>6
  <2>. QED  BY <1>7, <2>1
<1>. HIDE DEF f
<1>. QED  BY <1>6, <1>8 DEF Walks

-----------------------------------------------------------------------------
(* Sums over finite sets: MapThenSumSet of the community modules, for a    *)
(* function, is the sum that its recursion computes, adds up, and counts a *)
(* single value once.                                                      *)

\* The element that the recursion takes from a set.
Picked(T) == CHOOSE x \in T : TRUE

\* What the recursion takes a table of the sums over the subsets of S for.
IsTable(f, S, t) ==
    t = [T \in SUBSET S |-> IF T = {} THEN 0 ELSE f[Picked(T)] + t[T \ {Picked(T)}]]

Table(f, S)   == CHOOSE t : IsTable(f, S, t)
SumOver(f, S) == Table(f, S)[S]

LEMMA MapThenSumIsSumOver ==
    ASSUME NEW f, NEW S
    PROVE  MapThenSumSet(LAMBDA x : f[x], S) = SumOver(f, S)
BY DEF MapThenSumSet, MapThenFoldSet, SumOver, Table, IsTable, Picked

\* One element less: the subset that the recursion goes on with.
LEMMA PickedLeavesLess ==
    ASSUME NEW S, IsFiniteSet(S), NEW T, T \subseteq S, T # {}
    PROVE  /\ Picked(T) \in T /\ T \ {Picked(T)} \subseteq S
           /\ IsFiniteSet(T) /\ Cardinality(T) \in Nat \ {0}
           /\ Cardinality(T \ {Picked(T)}) = Cardinality(T) - 1
<1>1. Picked(T) \in T
  BY DEF Picked
<1>2. IsFiniteSet(T)
  BY FS_Subset
<1>3. Cardinality(T) \in Nat /\ Cardinality(T) # 0
  BY <1>2, FS_CardinalityType, FS_EmptySet
<1>4. Cardinality(T \ {Picked(T)}) = Cardinality(T) - 1
  BY <1>1, <1>2, FS_RemoveElement
<1> QED
  BY <1>1, <1>2, <1>3, <1>4

\* Induction over the subsets of a finite set, with a set for a predicate.
LEMMA SubsetInduction ==
    ASSUME NEW S, IsFiniteSet(S), NEW G, {} \in G,
           \A T \in SUBSET S : T # {} /\ T \ {Picked(T)} \in G => T \in G
    PROVE  SUBSET S \subseteq G
<1> DEFINE Q == {n \in Nat : \A T \in SUBSET S : Cardinality(T) = n => T \in G}
<1>1. \A T \in SUBSET S : IsFiniteSet(T) /\ Cardinality(T) \in Nat
  BY FS_Subset, FS_CardinalityType
<1>2. 0 \in Q
  BY <1>1, FS_EmptySet
<1>3. ASSUME NEW n \in Nat, n \in Q PROVE n + 1 \in Q
  <2> SUFFICES ASSUME NEW T \in SUBSET S, Cardinality(T) = n + 1 PROVE T \in G
    OBVIOUS
  <2>1. T # {}
    <3>1. Cardinality({}) = 0
      BY FS_EmptySet
    <3> QED
      BY <3>1
  <2>2. T \ {Picked(T)} \in SUBSET S /\ Cardinality(T \ {Picked(T)}) = n
    BY <2>1, PickedLeavesLess
  <2> QED
    BY <1>3, <2>1, <2>2
<1> HIDE DEF Q
<1>4. Nat \subseteq Q
  BY <1>2, <1>3, SetInduction
<1> QED
  BY <1>1, <1>4 DEF Q

(* The table exists: level n of an iteration has the sums over the subsets *)
(* of at most n elements.                                                  *)
LEMMA TableExists ==
    ASSUME NEW S, IsFiniteSet(S), NEW f \in [S -> Int]
    PROVE  /\ IsTable(f, S, Table(f, S))
           /\ Table(f, S) \in [SUBSET S -> Int]
<1> DEFINE V == [SUBSET S -> Int]
           zero == [T \in SUBSET S |-> 0]
           next(v) == [T \in SUBSET S |->
                         IF T = {} THEN 0 ELSE f[Picked(T)] + v[T \ {Picked(T)}]]
           step == [v \in V |-> next(v)]
<1>1. ASSUME NEW v \in V PROVE next(v) \in V
  <2>1. ASSUME NEW T \in SUBSET S, T # {}
        PROVE  f[Picked(T)] + v[T \ {Picked(T)}] \in Int
    <3>1. Picked(T) \in S /\ T \ {Picked(T)} \in SUBSET S
      BY <2>1, PickedLeavesLess
    <3> QED
      BY <3>1
  <2> QED
    BY <2>1
<1>2. zero \in V /\ step \in [V -> V]
  <2>1. zero \in V
    OBVIOUS
  <2> HIDE DEF V, next
  <2>2. step \in [V -> V]
    BY <1>1
  <2> QED
    BY <2>1, <2>2
<1>3. PICK levels : Iterates(levels, V, zero, step)
  <2> HIDE DEF V, zero, step
  <2> QED
    BY <1>2, Recursion
<1>4. /\ levels \in [Nat -> V] /\ \A n \in Nat : levels[n + 1] = next(levels[n])
  BY <1>3 DEF Iterates
<1> DEFINE t == [T \in SUBSET S |-> levels[Cardinality(T)][T]]
<1>5. \A T \in SUBSET S : IsFiniteSet(T) /\ Cardinality(T) \in Nat
  BY FS_Subset, FS_CardinalityType
<1>6. t \in V
  BY <1>4, <1>5
<1>7. ASSUME NEW T \in SUBSET S, T # {}
      PROVE  t[T] = f[Picked(T)] + t[T \ {Picked(T)}]
  <2>1. PICK n \in Nat : Cardinality(T) = n + 1
    <3>1. Cardinality(T) \in Nat \ {0}
      BY <1>7, PickedLeavesLess
    <3>2. Cardinality(T) - 1 \in Nat /\ Cardinality(T) = (Cardinality(T) - 1) + 1
      BY <3>1
    <3> QED
      BY <3>2
  <2>2. T \ {Picked(T)} \in SUBSET S /\ Cardinality(T \ {Picked(T)}) = n
    BY <1>7, <2>1, PickedLeavesLess
  <2>3. levels[n + 1][T] = f[Picked(T)] + levels[n][T \ {Picked(T)}]
    BY <1>4, <1>7
  <2> QED
    BY <2>1, <2>2, <2>3
<1>8. t[{}] = 0
  <2>1. Cardinality({}) = 0 /\ {} \in SUBSET S
    BY FS_EmptySet
  <2>2. levels[0][{}] = 0
    BY <1>3, <2>1 DEF Iterates
  <2> QED
    BY <2>1, <2>2
<1>9. IsTable(f, S, t)
  <2> DEFINE u == next(t)
  <2>1. \A T \in SUBSET S : t[T] = u[T]
    BY <1>7, <1>8
  <2>2. t = u
    <3>1. t \in [SUBSET S -> Int] /\ u \in [SUBSET S -> Int]
      BY <1>1, <1>6
    <3> HIDE DEF t, u
    <3> QED
      BY <2>1, <3>1
  <2> HIDE DEF t
  <2> QED
    BY <2>2 DEF IsTable
<1>10. IsTable(f, S, Table(f, S))
  <2> HIDE DEF t
  <2> QED
    BY <1>9 DEF Table
<1> DEFINE w == Table(f, S)
<1>11. w = next(w)
  BY <1>10 DEF IsTable
<1>12. SUBSET S \subseteq {T \in SUBSET S : w[T] \in Int}
  <2> DEFINE G == {T \in SUBSET S : w[T] \in Int}
  <2>1. {} \in G
    BY <1>11
  <2>2. ASSUME NEW T \in SUBSET S, T # {}, T \ {Picked(T)} \in G PROVE T \in G
    <3>1. f[Picked(T)] \in Int
      BY <2>2, PickedLeavesLess
    <3>2. w[T] = f[Picked(T)] + w[T \ {Picked(T)}]
      BY <1>11, <2>2
    <3> HIDE DEF w
    <3> QED
      BY <2>2, <3>1, <3>2
  <2> HIDE DEF G, V, zero, next, step, t, w
  <2>3. SUBSET S \subseteq G
    BY <2>1, <2>2, SubsetInduction
  <2> QED
    BY <2>3 DEF G
<1> QED
  BY <1>10, <1>11, <1>12

\* The equations of the table, for the proofs below.
LEMMA TableSteps ==
    ASSUME NEW S, IsFiniteSet(S), NEW f \in [S -> Int]
    PROVE  /\ Table(f, S) \in [SUBSET S -> Int]
           /\ Table(f, S)[{}] = 0
           /\ \A T \in SUBSET S : T # {} =>
                Table(f, S)[T] = f[Picked(T)] + Table(f, S)[T \ {Picked(T)}]
<1> DEFINE w == Table(f, S)
<1>1. w = [T \in SUBSET S |-> IF T = {} THEN 0 ELSE f[Picked(T)] + w[T \ {Picked(T)}]]
  BY TableExists DEF IsTable
<1>2. w[{}] = 0
  BY <1>1
<1>3. \A T \in SUBSET S : T # {} => w[T] = f[Picked(T)] + w[T \ {Picked(T)}]
  BY <1>1
<1> QED
  BY <1>2, <1>3, TableExists

LEMMA SumOverType ==
    ASSUME NEW S, IsFiniteSet(S), NEW f \in [S -> Int]
    PROVE  SumOver(f, S) \in Int
<1>1. Table(f, S) \in [SUBSET S -> Int]
  BY TableExists
<1> QED
  BY <1>1 DEF SumOver

\* The sum of a function that is a sum.
LEMMA SumOverAdds ==
    ASSUME NEW S, IsFiniteSet(S), NEW f \in [S -> Int], NEW g \in [S -> Int],
           NEW h \in [S -> Int], \A x \in S : h[x] = f[x] + g[x]
    PROVE  SumOver(h, S) = SumOver(f, S) + SumOver(g, S)
<1> DEFINE a == Table(f, S)  b == Table(g, S)  c == Table(h, S)
           G == {T \in SUBSET S : c[T] = a[T] + b[T]}
<1>1. /\ a \in [SUBSET S -> Int] /\ b \in [SUBSET S -> Int]
      /\ a[{}] = 0 /\ b[{}] = 0 /\ c[{}] = 0
      /\ \A T \in SUBSET S : T # {} =>
           /\ a[T] = f[Picked(T)] + a[T \ {Picked(T)}]
           /\ b[T] = g[Picked(T)] + b[T \ {Picked(T)}]
           /\ c[T] = h[Picked(T)] + c[T \ {Picked(T)}]
  <2>1. /\ a \in [SUBSET S -> Int] /\ a[{}] = 0
        /\ \A T \in SUBSET S : T # {} => a[T] = f[Picked(T)] + a[T \ {Picked(T)}]
    BY TableSteps
  <2>2. /\ b \in [SUBSET S -> Int] /\ b[{}] = 0
        /\ \A T \in SUBSET S : T # {} => b[T] = g[Picked(T)] + b[T \ {Picked(T)}]
    BY TableSteps
  <2>3. /\ c[{}] = 0
        /\ \A T \in SUBSET S : T # {} => c[T] = h[Picked(T)] + c[T \ {Picked(T)}]
    BY TableSteps
  <2> QED
    BY <2>1, <2>2, <2>3
<1>2. {} \in G
  BY <1>1
<1>3. ASSUME NEW T \in SUBSET S, T # {}, T \ {Picked(T)} \in G PROVE T \in G
  <2>1. Picked(T) \in S /\ T \ {Picked(T)} \in SUBSET S
    BY <1>3, PickedLeavesLess
  <2> HIDE DEF a, b, c
  <2> QED
    BY <1>1, <1>3, <2>1
<1> HIDE DEF G
<1>4. SUBSET S \subseteq G
  BY <1>2, <1>3, SubsetInduction
<1> QED
  BY <1>4 DEF G, SumOver

\* A function that is v at one element of S and zero elsewhere.
LEMMA SumOverOne ==
    ASSUME NEW S, IsFiniteSet(S), NEW p \in S, NEW v \in Int,
           NEW f \in [S -> Int], \A x \in S : f[x] = IF x = p THEN v ELSE 0
    PROVE  SumOver(f, S) = v
<1> DEFINE a == Table(f, S)
           G == {T \in SUBSET S : a[T] = IF p \in T THEN v ELSE 0}
<1>1. /\ a \in [SUBSET S -> Int] /\ a[{}] = 0
      /\ \A T \in SUBSET S : T # {} => a[T] = f[Picked(T)] + a[T \ {Picked(T)}]
  BY TableSteps
<1>2. {} \in G
  BY <1>1
<1>3. ASSUME NEW T \in SUBSET S, T # {}, T \ {Picked(T)} \in G PROVE T \in G
  <2>1. Picked(T) \in T /\ Picked(T) \in S
    BY <1>3, PickedLeavesLess
  <2> HIDE DEF a
  <2> QED
    BY <1>1, <1>3, <2>1
<1> HIDE DEF G
<1>4. SUBSET S \subseteq G
  BY <1>2, <1>3, SubsetInduction
<1> QED
  BY <1>4 DEF G, SumOver

\* One value of a function changes by v.
LEMMA SumOverChange ==
    ASSUME NEW S, IsFiniteSet(S), NEW f \in [S -> Int], NEW h \in [S -> Int],
           NEW p \in S, NEW v \in Int,
           \A x \in S : h[x] = IF x = p THEN f[x] + v ELSE f[x]
    PROVE  SumOver(h, S) = SumOver(f, S) + v
<1> DEFINE d == [x \in S |-> IF x = p THEN v ELSE 0]
<1>1. d \in [S -> Int] /\ \A x \in S : d[x] = IF x = p THEN v ELSE 0
  OBVIOUS
<1>2. \A x \in S : h[x] = f[x] + d[x]
  OBVIOUS
<1>3. SumOver(d, S) = v
  BY <1>1, SumOverOne
<1> HIDE DEF d
<1>4. SumOver(h, S) = SumOver(f, S) + SumOver(d, S)
  BY <1>1, <1>2, SumOverAdds
<1> QED
  BY <1>3, <1>4

-----------------------------------------------------------------------------
(* Sequences that are put together from others                             *)

LEMMA SeqOf ==
    ASSUME NEW S, NEW n \in Nat, NEW f \in [1 .. n -> S]
    PROVE  f \in Seq(S) /\ Len(f) = n
OBVIOUS

\* A sequence over S of that length.
Long(s, S, n) == n \in Nat /\ s \in Seq(S) /\ Len(s) = n

\* Two sequences one after the other.
OneAfter(s, a, m, b, n) ==
    /\ \A p \in 1 .. m : s[p] = a[p]
    /\ \A p \in 1 .. n : s[m + p] = b[p]

LEMMA Then ==
    ASSUME NEW S, NEW m, NEW n, NEW a, Long(a, S, m), NEW b, Long(b, S, n)
    PROVE  Long(a \o b, S, m + n) /\ OneAfter(a \o b, a, m, b, n)
<1>1. m \in Nat /\ n \in Nat /\ a \in Seq(S) /\ b \in Seq(S)
  BY DEF Long
<1>2. /\ a \o b \in Seq(S) /\ Len(a \o b) = Len(a) + Len(b)
      /\ \A i \in 1 .. Len(a) + Len(b) :
           (a \o b)[i] = IF i <= Len(a) THEN a[i] ELSE b[i - Len(a)]
  BY <1>1, ConcatProperties
<1>3. /\ Long(a \o b, S, m + n)
      /\ \A i \in 1 .. m + n : (a \o b)[i] = IF i <= m THEN a[i] ELSE b[i - m]
  BY <1>1, <1>2 DEF Long
<1>4. ASSUME NEW p \in 1 .. n PROVE (a \o b)[m + p] = b[p]
  <2>1. m + p \in 1 .. m + n /\ ~(m + p <= m) /\ (m + p) - m = p
    BY <1>1
  <2> QED
    BY <1>3, <2>1
<1>5. ASSUME NEW p \in 1 .. m PROVE (a \o b)[p] = a[p]
  <2>1. p \in 1 .. m + n /\ p <= m
    BY <1>1
  <2> QED
    BY <1>3, <2>1
<1> QED
  BY <1>3, <1>4, <1>5 DEF OneAfter

\* A head, n of a kind, and n of another kind.
Paired(s, h, m, x, z, n) ==
    /\ Len(s) = m + n + n
    /\ \A p \in 1 .. m : s[p] = h[p]
    /\ \A k \in 1 .. n : s[m + k] = x[k]
    /\ \A k \in 1 .. n : s[m + n + k] = z[k]

PairSeq(h, x, z) == h \o x \o z

LEMMA PairedOut ==
    ASSUME NEW S, NEW m, NEW n \in Nat, NEW h, Long(h, S, m),
           NEW x \in [1 .. n -> S], NEW z \in [1 .. n -> S]
    PROVE  PairSeq(h, x, z) \in Seq(S) /\ Paired(PairSeq(h, x, z), h, m, x, z, n)
<1> DEFINE a == h \o x  c == a \o z
<1>1. Long(x, S, n) /\ Long(z, S, n) /\ m \in Nat
  BY SeqOf DEF Long
<1>2. Long(a, S, m + n) /\ OneAfter(a, h, m, x, n)
  BY <1>1, Then
<1> HIDE DEF a
<1>3. Long(c, S, m + n + n) /\ OneAfter(c, a, m + n, z, n)
  BY <1>1, <1>2, Then
<1> HIDE DEF c
<1>4. ASSUME NEW p \in 1 .. m PROVE c[p] = h[p]
  <2>1. p \in 1 .. m + n
    BY <1>1
  <2> QED
    BY <1>2, <1>3, <2>1 DEF OneAfter
<1>5. ASSUME NEW k \in 1 .. n PROVE c[m + k] = x[k]
  <2>1. m + k \in 1 .. m + n
    BY <1>1
  <2> QED
    BY <1>2, <1>3, <2>1 DEF OneAfter
<1>6. Paired(c, h, m, x, z, n)
  BY <1>3, <1>4, <1>5 DEF Paired, Long, OneAfter
<1>7. c \in Seq(S)
  BY <1>3 DEF Long
<1> QED
  BY <1>6, <1>7 DEF a, c, PairSeq

\* A head, n of a kind, one of its own, and n of another kind.
Laid(s, h, m, x, y, z, n) ==
    /\ Len(s) = m + n + 1 + n
    /\ \A p \in 1 .. m : s[p] = h[p]
    /\ \A k \in 1 .. n : s[m + k] = x[k]
    /\ s[m + n + 1] = y
    /\ \A k \in 1 .. n : s[m + n + 1 + k] = z[k]

LaidSeq(h, x, y, z) == h \o x \o <<y>> \o z

LEMMA LaidOut ==
    ASSUME NEW S, NEW m, NEW n \in Nat, NEW h, Long(h, S, m),
           NEW x \in [1 .. n -> S], NEW y \in S, NEW z \in [1 .. n -> S]
    PROVE  /\ LaidSeq(h, x, y, z) \in Seq(S)
           /\ Laid(LaidSeq(h, x, y, z), h, m, x, y, z, n)
<1> DEFINE o == <<y>>  a == h \o x  b == a \o o  c == b \o z
<1>1. Long(x, S, n) /\ Long(z, S, n) /\ m \in Nat
  BY SeqOf DEF Long
<1>2. Long(o, S, 1) /\ o[1] = y
  BY DEF Long
<1> HIDE DEF o
<1>3. Long(a, S, m + n) /\ OneAfter(a, h, m, x, n)
  BY <1>1, Then
<1> HIDE DEF a
<1>4. Long(b, S, m + n + 1) /\ OneAfter(b, a, m + n, o, 1)
  BY <1>2, <1>3, Then
<1> HIDE DEF b
<1>5. Long(c, S, m + n + 1 + n) /\ OneAfter(c, b, m + n + 1, z, n)
  BY <1>1, <1>4, Then
<1> HIDE DEF c
<1>6. ASSUME NEW p \in 1 .. m PROVE c[p] = h[p]
  <2>1. p \in 1 .. m + n /\ p \in 1 .. m + n + 1
    BY <1>1
  <2> QED
    BY <1>3, <1>4, <1>5, <2>1 DEF OneAfter
<1>7. ASSUME NEW k \in 1 .. n PROVE c[m + k] = x[k]
  <2>1. m + k \in 1 .. m + n /\ m + k \in 1 .. m + n + 1
    BY <1>1
  <2> QED
    BY <1>3, <1>4, <1>5, <2>1 DEF OneAfter
<1>8. c[m + n + 1] = y
  <2>1. m + n + 1 \in 1 .. m + n + 1 /\ 1 \in 1 .. 1
    BY <1>1
  <2> QED
    BY <1>2, <1>4, <1>5, <2>1 DEF OneAfter
<1>9. Laid(c, h, m, x, y, z, n)
  BY <1>5, <1>6, <1>7, <1>8 DEF Laid, Long, OneAfter
<1>10. c \in Seq(S)
  BY <1>5 DEF Long
<1> QED
  BY <1>9, <1>10 DEF a, b, c, o, LaidSeq

\* After h places that are not of the role, n places that are.
Run(s, h, n, role) ==
    /\ \A q \in 1 .. h : s[q] # role
    /\ \A j \in 1 .. n : s[h + j] = role

(* The elements of a run, counted from its first on.                       *)
LEMMA RunIsCounted ==
    ASSUME NEW s, NEW h \in Nat, NEW n \in Nat, NEW role, Run(s, h, n, role),
           NEW k \in 1 .. n
    PROVE  Cardinality({q \in 1 .. h + k : s[q] = s[h + k]}) = k
<1>0. /\ \A q \in 1 .. h : s[q] # role
      /\ \A j \in 1 .. n : s[h + j] = role
  BY DEF Run
<1> DEFINE run == {q \in 1 .. h + k : s[q] = s[h + k]}
<1>1. run = h + 1 .. h + k
  <2>1. ASSUME NEW q \in 1 .. h + k, s[q] = s[h + k] PROVE q \in h + 1 .. h + k
    <3>1. s[q] = role
      BY <1>0, <2>1
    <3>2. ~(q \in 1 .. h)
      BY <1>0, <3>1
    <3> QED
      BY <3>2
  <2>2. ASSUME NEW q \in h + 1 .. h + k PROVE q \in 1 .. h + k /\ s[q] = s[h + k]
    <3>1. q - h \in 1 .. n /\ h + (q - h) = q
      OBVIOUS
    <3>2. s[h + (q - h)] = role
      BY <1>0, <3>1
    <3> QED
      BY <1>0, <3>1, <3>2
  <2> QED
    BY <2>1, <2>2
<1>2. Cardinality(h + 1 .. h + k) = k
  <2> DEFINE x == h + 1  y == h + k
  <2>1. x \in Int /\ y \in Int /\ x <= y /\ y - x + 1 = k
    OBVIOUS
  <2> HIDE DEF x, y
  <2>2. Cardinality(x .. y) = y - x + 1
    BY <2>1, FS_Interval
  <2> QED
    BY <2>1, <2>2 DEF x, y
<1> QED
  BY <1>1, <1>2
=============================================================================
