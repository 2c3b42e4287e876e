--------------------------- MODULE PoolMathProofs ---------------------------
(***************************************************************************)
(* What the arithmetic of PoolMath guarantees, for every width of a ratio  *)
(* and of an amount and for every argument.                                *)
(***************************************************************************)
EXTENDS PoolMath, CommonLemmas

-----------------------------------------------------------------------------
(* Quotients                                                               *)

\* The quotient of a division, and what it leaves.
LEMMA DivBounds ==
    ASSUME NEW a \in Nat, NEW b \in Nat \ {0}
    PROVE  /\ a \div b \in Nat
           /\ (a \div b) * b <= a
           /\ a < (a \div b) * b + b
  BY SMT

\* Two multiples of a positive number compare as their factors do.
LEMMA MultipleBound ==
    ASSUME NEW x \in Nat, NEW y \in Nat, NEW b \in Nat \ {0},
           x * b < (y + 1) * b
    PROVE  x <= y
<1>. SUFFICES ASSUME x >= y + 1 PROVE FALSE
  OBVIOUS
<1>1. x * b >= (y + 1) * b
  BY SMT
<1>. QED  BY <1>1, SMT

\* A proportion of a part is at most that part.
LEMMA ProportionBound ==
    ASSUME NEW k \in Nat, NEW a \in Nat, NEW b \in Nat \ {0}, k <= b
    PROVE  (k * a) \div b \in 0 .. a
<1>. DEFINE q == (k * a) \div b
<1>1. k * a \in Nat
  OBVIOUS
<1>2. q \in Nat /\ q * b <= k * a
  BY <1>1, DivBounds
<1>3. k * a <= b * a
  BY SMT
<1>4. q * b < (a + 1) * b
  BY <1>2, <1>3, SMT
<1>5. q <= a
  BY <1>2, <1>4, MultipleBound
<1>. QED  BY <1>2, <1>5

-----------------------------------------------------------------------------
(* Redemptions                                                             *)

\* A redemption that passes no slot leaves a balance alone, whatever the supply.
LEMMA LeftAfterNone ==
  ASSUME NEW k, NEW held, NEW supply
  PROVE  LeftAfter(k, held, supply, 0) = held
<1>. DEFINE D(g) == [i \in 0 .. 0 |->
                       IF i = 0 THEN held
                       ELSE g[i - 1] - RedeemAmount(k, g[i - 1], supply)]
            left == CHOOSE g : g = D(g)
            one == [i \in 0 .. 0 |-> held]
<1>1. one = D(one)
  OBVIOUS
<1>2. left = D(left)
  <2>. HIDE DEF D, one
  <2>. QED  BY <1>1
<1>3. LeftAfter(k, held, supply, 0) = left[0]
  BY DEF LeftAfter
<1>. HIDE DEF left
<1>4. left[0] = D(left)[0]
  BY <1>2
<1>5. D(left)[0] = held
  OBVIOUS
<1>. QED  BY <1>3, <1>4, <1>5

\* The passes of a redemption over the slots of one asset, one by one.
LEMMA LeftAfterRec ==
  ASSUME NEW k \in Nat, NEW held \in Nat, NEW supply \in Nat \ {0}
  PROVE  /\ LeftAfter(k, held, supply, 0) = held
         /\ \A n \in Nat : LeftAfter(k, held, supply, n + 1) =
              LeftAfter(k, held, supply, n)
                - RedeemAmount(k, LeftAfter(k, held, supply, n), supply)
<1>1. PICK step \in [Int -> Int] :
        \A b \in Int : step[b] = b - RedeemAmount(k, b, supply)
  <2>. DEFINE st == [b \in Int |-> b - RedeemAmount(k, b, supply)]
  <2>1. st \in [Int -> Int]
    BY DEF RedeemAmount
  <2>2. \A b \in Int : st[b] = b - RedeemAmount(k, b, supply)
    OBVIOUS
  <2>. QED  BY <2>1, <2>2
<1>2. PICK f \in [Nat -> Int] : f[0] = held /\ \A n \in Nat : f[n + 1] = step[f[n]]
  <2>1. held \in Int
    OBVIOUS
  <2>2. PICK V : V = Int
    OBVIOUS
  <2>3. held \in V /\ step \in [V -> V]
    BY <2>1, <2>2
  <2>4. PICK f : Iterates(f, V, held, step)
    BY <2>3, Recursion
  <2>. QED  BY <2>2, <2>4 DEF Iterates
<1>3. ASSUME NEW n \in Nat
      PROVE  f[n] \in Int /\ f[n + 1] = f[n] - RedeemAmount(k, f[n], supply)
  BY <1>1, <1>2
<1>4. ASSUME NEW n \in Nat PROVE LeftAfter(k, held, supply, n) = f[n]
  <2>. DEFINE D(g) == [i \in 0 .. n |->
                         IF i = 0 THEN held
                         ELSE g[i - 1] - RedeemAmount(k, g[i - 1], supply)]
              left == CHOOSE g : g = D(g)
              first == [i \in 0 .. n |-> f[i]]
              G == {i \in 0 .. n : left[i] = f[i]}
  <2>1. ASSUME NEW i \in 1 .. n
        PROVE  i - 1 \in 0 .. n /\ f[i] = f[i - 1] - RedeemAmount(k, f[i - 1], supply)
    <3>1. i - 1 \in Nat /\ (i - 1) + 1 = i
      OBVIOUS
    <3>. QED  BY <1>3, <3>1
  <2>2. first = D(first)
    <3>1. ASSUME NEW i \in 0 .. n PROVE first[i] = D(first)[i]
      <4>1. CASE i = 0
        BY <1>2, <4>1
      <4>2. CASE i # 0
        <5>1. i \in 1 .. n
          BY <4>2
        <5>2. first[i - 1] = f[i - 1] /\ first[i] = f[i]
          BY <2>1, <5>1
        <5>. QED  BY <2>1, <4>2, <5>1, <5>2
      <4>. QED  BY <4>1, <4>2
    <3>. QED  BY <3>1
  <2>3. left = D(left)
    <3>. HIDE DEF D, first
    <3>. QED  BY <2>2
  <2>4. LeftAfter(k, held, supply, n) = left[n]
    BY DEF LeftAfter
  <2>. HIDE DEF left
  <2>5. ASSUME NEW i \in 0 .. n PROVE left[i] = D(left)[i]
    <3>. HIDE DEF D
    <3>. QED  BY <2>3
  <2>6. 0 \in G
    BY <1>2, <2>5
  <2>7. ASSUME NEW i \in 1 .. n, i - 1 \in G PROVE i \in G
    <3>1. i \in 0 .. n /\ i # 0
      OBVIOUS
    <3>2. left[i] = left[i - 1] - RedeemAmount(k, left[i - 1], supply)
      BY <2>5, <3>1
    <3>. QED  BY <2>1, <2>7, <3>2
  <2>. HIDE DEF G
  <2>8. 0 .. n \subseteq G
    BY <2>6, <2>7, IntervalInduction
  <2>9. n \in G
    BY <2>8
  <2>. QED  BY <2>4, <2>9 DEF G
<1>5. ASSUME NEW n \in Nat
      PROVE  LeftAfter(k, held, supply, n + 1) =
               LeftAfter(k, held, supply, n)
                 - RedeemAmount(k, LeftAfter(k, held, supply, n), supply)
  <2>1. LeftAfter(k, held, supply, n) = f[n] /\ LeftAfter(k, held, supply, n + 1) = f[n + 1]
    BY <1>4
  <2>. QED  BY <1>3, <2>1
<1>. QED  BY <1>5, LeftAfterNone

LEMMA RedeemAmountType ==
    ASSUME NEW k \in Nat, NEW held \in Nat, NEW supply \in Nat \ {0}, k <= supply
    PROVE  RedeemAmount(k, held, supply) \in 0 .. held
  BY ProportionBound DEF RedeemAmount

(* However often an asset is listed, a redemption of at most the supply    *)
(* finds the balance it pays.                                              *)
LEMMA LeftAfterType ==
    ASSUME NEW k \in Nat, NEW held \in Nat, NEW supply \in Nat \ {0},
           k <= supply, NEW n \in Nat
    PROVE  LeftAfter(k, held, supply, n) \in 0 .. held
<1>. DEFINE S == {i \in Nat : LeftAfter(k, held, supply, i) \in 0 .. held}
<1>1. 0 \in S
  BY LeftAfterRec
<1>2. ASSUME NEW i \in Nat, i \in S PROVE i + 1 \in S
  <2>. DEFINE l == LeftAfter(k, held, supply, i)
  <2>1. l \in Nat /\ l <= held
    BY <1>2
  <2>2. RedeemAmount(k, l, supply) \in 0 .. l
    BY <2>1, RedeemAmountType
  <2>3. LeftAfter(k, held, supply, i + 1) = l - RedeemAmount(k, l, supply)
    BY LeftAfterRec
  <2>. QED  BY <2>1, <2>2, <2>3
<1>. HIDE DEF S
<1>3. Nat \subseteq S
  BY <1>1, <1>2, SetInduction
<1>. QED  BY <1>3 DEF S

\* An asset that is listed once is paid out in proportion, rounded down.
LEMMA LeftAfterOnePass ==
    ASSUME NEW k \in Nat, NEW held \in Nat, NEW supply \in Nat \ {0}
    PROVE  LeftAfter(k, held, supply, 1) = held - RedeemAmount(k, held, supply)
<1>1. 0 + 1 = 1 /\ 0 \in Nat
  OBVIOUS
<1>. QED  BY <1>1, LeftAfterRec

(* Redeeming the whole supply pays the whole balance in the first pass and *)
(* leaves nothing for the others.                                          *)
LEMMA LeftAfterEverything ==
    ASSUME NEW held \in Nat, NEW supply \in Nat \ {0}, NEW n \in Nat \ {0}
    PROVE  LeftAfter(supply, held, supply, n) = 0
<1>0. ASSUME NEW a \in Nat PROVE a - RedeemAmount(supply, a, supply) = 0
  <2>. DEFINE q == (supply * a) \div supply
  <2>1. supply * a \in Nat
    OBVIOUS
  <2>2. q \in 0 .. a
    BY ProportionBound
  <2>3. supply * a < q * supply + supply
    BY <2>1, DivBounds
  <2>4. a * supply < (q + 1) * supply
    BY <2>2, <2>3, SMT
  <2>5. a <= q
    BY <2>2, <2>4, MultipleBound
  <2>. QED  BY <2>2, <2>5 DEF RedeemAmount
<1>1. n - 1 \in Nat /\ (n - 1) + 1 = n
  OBVIOUS
<1>2. LeftAfter(supply, held, supply, n - 1) \in Nat
  BY <1>1, LeftAfterType
<1>3. LeftAfter(supply, held, supply, (n - 1) + 1) =
        LeftAfter(supply, held, supply, n - 1)
          - RedeemAmount(supply, LeftAfter(supply, held, supply, n - 1), supply)
  BY <1>1, LeftAfterRec
<1>. QED  BY <1>0, <1>1, <1>2, <1>3

\* What is left backs every remaining pool token with at least as much.
LEMMA RedeemKeepsBacking ==
    ASSUME NEW k \in Nat, NEW held \in Nat, NEW supply \in Nat \ {0}, k <= supply
    PROVE  (held - RedeemAmount(k, held, supply)) * supply >= held * (supply - k)
<1>. DEFINE q == (k * held) \div supply
<1>1. k * held \in Nat
  OBVIOUS
<1>2. q \in Nat /\ q * supply <= k * held
  BY <1>1, DivBounds
<1>3. (held - q) * supply >= held * (supply - k)
  <2>. HIDE DEF q
  <2>. QED  BY <1>2, SMT
<1>. QED  BY <1>3 DEF RedeemAmount

-----------------------------------------------------------------------------
(* Deposits                                                                *)

\* A deposit within its limit is payable from the balance that set it.
LEMMA AffordableIsPayable ==
    ASSUME NEW s \in Nat, NEW p \in Nat, NEW t \in Nat \ {0}, NEW e \in Nat,
           e <= Affordable(s, t, p)
    PROVE  DepositAmount(e, p, t) \in 0 .. s
<1>1. CASE p = 0
  <2>1. e * p = 0
    BY <1>1
  <2>2. 0 \div t = 0
    OBVIOUS
  <2>. QED  BY <2>1, <2>2 DEF DepositAmount
<1>2. CASE p # 0
  <2>. DEFINE q == (s * t) \div p
              d == (e * p) \div t
  <2>1. s * t \in Nat /\ e * p \in Nat /\ p \in Nat \ {0}
    BY <1>2
  <2>2. q \in Nat /\ q * p <= s * t
    BY <2>1, DivBounds
  <2>3. d \in Nat /\ d * t <= e * p
    BY <2>1, DivBounds
  <2>4. e <= q
    <3>1. q % U64 <= q
      <4>. HIDE DEF q
      <4>. QED  BY <2>2, MathAssumption, SMT
    <3>. QED  BY <1>2, <2>2, <3>1, MathAssumption DEF Affordable
  <2>5. e * p <= q * p
    <3>. HIDE DEF q
    <3>. QED  BY <2>1, <2>2, <2>4, SMT
  <2>6. d * t < (s + 1) * t
    <3>. HIDE DEF q, d
    <3>. QED  BY <2>1, <2>2, <2>3, <2>5, SMT
  <2>7. d <= s
    <3>. HIDE DEF q, d
    <3>. QED  BY <2>3, <2>6, MultipleBound
  <2>. QED  BY <2>3, <2>7 DEF DepositAmount
<1>. QED  BY <1>1, <1>2

LEMMA DepositAmountType ==
    ASSUME NEW p \in Nat, NEW t \in Nat \ {0}, NEW e \in Nat
    PROVE  DepositAmount(e, p, t) \in Nat
<1>1. e * p \in Nat
  OBVIOUS
<1>. QED  BY <1>1, DivBounds DEF DepositAmount

\* The rounding of a deposit falls short by less than one unit.
LEMMA DepositKeepsBackingButOne ==
    ASSUME NEW p \in Nat, NEW t \in Nat \ {0}, NEW e \in Nat
    PROVE  (p + DepositAmount(e, p, t) + 1) * t > p * (t + e)
<1>. DEFINE d == (e * p) \div t
<1>1. e * p \in Nat
  OBVIOUS
<1>2. d \in Nat /\ e * p < d * t + t
  BY <1>1, DivBounds
<1>3. (p + d + 1) * t > p * (t + e)
  <2>. HIDE DEF d
  <2>. QED  BY <1>2, SMT
<1>. QED  BY <1>3 DEF DepositAmount

\* The two roundings together never favour who enters and leaves again.
LEMMA RoundTrip ==
    ASSUME NEW p \in Nat, NEW t \in Nat \ {0}, NEW e \in Nat
    PROVE  RedeemAmount(e, p + DepositAmount(e, p, t), t + e)
             <= DepositAmount(e, p, t)
<1>. DEFINE d == DepositAmount(e, p, t)
            r == (e * (p + d)) \div (t + e)
<1>1. d \in Nat
  BY DepositAmountType
<1>2. (p + d + 1) * t > p * (t + e)
  BY DepositKeepsBackingButOne
<1>. HIDE DEF d
<1>3. e * (p + d) \in Nat /\ t + e \in Nat \ {0}
  BY <1>1
<1>4. r \in Nat /\ r * (t + e) <= e * (p + d)
  BY <1>3, DivBounds
<1>5. r * (t + e) < (d + 1) * (t + e)
  <2>. HIDE DEF r
  <2>1. e * (p + d) < (d + 1) * (t + e)
    BY <1>1, <1>2, SMT
  <2>. QED  BY <1>1, <1>3, <1>4, <2>1, SMT
<1>6. r <= d
  <2>. HIDE DEF r
  <2>. QED  BY <1>1, <1>3, <1>4, <1>5, MultipleBound
<1>. QED  BY <1>6 DEF RedeemAmount, d

-----------------------------------------------------------------------------
(* Fees and casts                                                          *)

\* A cast to u64 is a u64.
LEMMA CastType ==
    ASSUME NEW a \in Nat
    PROVE  a % U64 \in 0 .. U64 - 1
  BY MathAssumption, SMT

LEMMA AffordableType ==
    ASSUME NEW s \in Nat, NEW t \in Nat, NEW p \in Nat
    PROVE  Affordable(s, t, p) \in 0 .. U64 - 1
<1>1. CASE p = 0
  BY <1>1, MathAssumption DEF Affordable
<1>2. CASE p # 0
  <2>1. s * t \in Nat
    OBVIOUS
  <2>2. (s * t) \div p \in Nat
    BY <1>2, <2>1, DivBounds
  <2>. QED  BY <1>2, <2>2, CastType DEF Affordable
<1>. QED  BY <1>1, <1>2

LEMMA FeeTokensType ==
    ASSUME NEW f \in 1 .. Scale - 1, NEW t \in Nat
    PROVE  FeeTokens(f, t) \in 0 .. U64 - 1
<1>1. Not16(f) \in Nat
  BY MathAssumption DEF Not16
<1>2. Not16(f) * t \in Nat
  BY <1>1
<1>3. (Not16(f) * t) \div f \in Nat
  BY <1>2, DivBounds, MathAssumption
<1>. QED  BY <1>3, CastType DEF FeeTokens

\* The entry fee is a part of the amount it is taken of.
LEMMA DepositFeeBound ==
    ASSUME NEW r \in 0 .. Scale - 1, NEW e \in Nat
    PROVE  DepositFee(r, e) \in 0 .. e
<1>1. Scale \in Nat \ {0} /\ r \in Nat /\ r <= Scale
  BY MathAssumption
<1>. QED  BY <1>1, ProportionBound DEF DepositFee

(* The fee tokens leave the old supply at least the share of the pool that *)
(* the remaining ratio grants it.                                          *)
LEMMA FeeTokensBound ==
    ASSUME NEW f \in 1 .. Scale - 1, NEW t \in Nat
    PROVE  t * (Scale - 1) >= (t + FeeTokens(f, t)) * f
<1>. DEFINE q == (Not16(f) * t) \div f
<1>1. Not16(f) \in Nat /\ Not16(f) = Scale - 1 - f /\ f \in Nat \ {0}
  BY MathAssumption DEF Not16
<1>2. Not16(f) * t \in Nat
  BY <1>1
<1>3. q \in Nat /\ q * f <= Not16(f) * t
  BY <1>1, <1>2, DivBounds
<1>4. FeeTokens(f, t) = q % U64
  BY DEF FeeTokens
<1>5. q % U64 \in Nat /\ q % U64 <= q
  <2>. HIDE DEF q
  <2>. QED  BY <1>3, MathAssumption, SMT
<1>6. (q % U64) * f <= q * f
  <2>. HIDE DEF q
  <2>. QED  BY <1>1, <1>3, <1>5, SMT
<1>7. (t + (q % U64)) * f <= t * f + q * f
  <2>. HIDE DEF q
  <2>. QED  BY <1>1, <1>3, <1>5, <1>6, SMT
<1>8. t * f + (Scale - 1 - f) * t = t * (Scale - 1)
  BY <1>1, MathAssumption, SMT
<1>. QED
  <2>. HIDE DEF q
  <2>. QED  BY <1>1, <1>3, <1>4, <1>7, <1>8, MathAssumption, SMT
-----------------------------------------------------------------------------
(* The fixed-point power                                                   *)

\* One level of the recursion, from the power of half the exponent.
Level(b, i, h) ==
    IF i <= 1 THEN b
    ELSE IF i % 2 = 1 THEN (((h * h) \div Scale) * b) \div Scale
         ELSE (h * h) \div Scale

\* What the recursion goes down to is a smaller exponent.
LEMMA Halves ==
    ASSUME NEW i \in Nat, i > 1
    PROVE  /\ i \div 2 \in 1 .. i - 1
           /\ \/ i % 2 = 1 /\ i = (i \div 2) + (i \div 2) + 1
              \/ i % 2 = 0 /\ i = (i \div 2) + (i \div 2)
  BY SMT

\* A level keeps to the natural numbers.
LEMMA LevelType ==
    ASSUME NEW b \in Nat, NEW i \in Nat, NEW h \in Nat
    PROVE  Level(b, i, h) \in Nat
<1>1. Scale \in Nat \ {0}
  BY MathAssumption
<1>2. h * h \in Nat
  OBVIOUS
<1>3. (h * h) \div Scale \in Nat
  BY <1>1, <1>2, DivBounds
<1>4. ((h * h) \div Scale) * b \in Nat
  BY <1>3
<1>5. (((h * h) \div Scale) * b) \div Scale \in Nat
  BY <1>1, <1>4, DivBounds
<1>. QED  BY <1>3, <1>5 DEF Level

(* The fixed-point power satisfies its equation: the k-th approximation    *)
(* does not change any more at the exponents up to k.                      *)
LEMMA PowFixedRec ==
    ASSUME NEW b \in Nat
    PROVE  \A i \in Nat : PowFixed(b, i) = Level(b, i, PowFixed(b, i \div 2))
<1>. DEFINE Body(g, i) ==
              IF i <= 1 THEN b
              ELSE LET h  == g[i \div 2]
                       sq == (h * h) \div Scale
                   IN  IF i % 2 = 1 THEN (sq * b) \div Scale ELSE sq
            D(g) == [i \in Nat |-> Body(g, i)]
            p    == CHOOSE g : g = D(g)
<1>1. \A g, i : Body(g, i) = Level(b, i, g[i \div 2])
  BY DEF Level
<1>2. PICK f \in [Nat -> [Nat -> Nat]] :
        \A k \in Nat, i \in Nat : /\ f[0][i] = b
                                  /\ f[k + 1][i] = Level(b, i, f[k][i \div 2])
  <2>1. PICK V : V = [Nat -> Nat]
    OBVIOUS
  <2>. DEFINE a == [i \in Nat |-> b]
              step == [g \in V |-> [i \in Nat |-> Level(b, i, g[i \div 2])]]
  <2>2. a \in V
    BY <2>1
  <2>3. step \in [V -> V]
    <3>1. ASSUME NEW g \in V PROVE [i \in Nat |-> Level(b, i, g[i \div 2])] \in V
      <4>1. ASSUME NEW i \in Nat PROVE Level(b, i, g[i \div 2]) \in Nat
        <5>1. i \div 2 \in Nat
          BY SMT
        <5>. QED  BY <2>1, <5>1, LevelType
      <4>. QED  BY <2>1, <4>1
    <3>. QED  BY <3>1
  <2>4. PICK f : Iterates(f, V, a, step)
    <3>. HIDE DEF step, a
    <3>. QED  BY <2>2, <2>3, Recursion
  <2>5. f \in [Nat -> V] /\ f[0] = a /\ \A k \in Nat : f[k + 1] = step[f[k]]
    BY <2>4 DEF Iterates
  <2>6. \A k \in Nat : f[k + 1] = [i \in Nat |-> Level(b, i, f[k][i \div 2])]
    BY <2>5
  <2>7. \A i \in Nat : f[0][i] = b
    BY <2>5
  <2>8. f \in [Nat -> [Nat -> Nat]]
    BY <2>1, <2>5
  <2>9. \A k \in Nat : \A i \in Nat : f[k + 1][i] = Level(b, i, f[k][i \div 2])
    <3>1. ASSUME NEW k \in Nat, NEW i \in Nat
          PROVE  f[k + 1][i] = Level(b, i, f[k][i \div 2])
      <4>1. f[k + 1] = [j \in Nat |-> Level(b, j, f[k][j \div 2])]
        BY <2>6
      <4>. QED  BY <4>1, Zenon
    <3>. QED  BY <3>1, Zenon
  <2>. HIDE DEF a, step
  <2>. QED  BY <2>7, <2>8, <2>9, Zenon
<1>3. \A k \in Nat : \A i \in 0 .. k : f[k + 1][i] = f[k][i]
  <2>. DEFINE S == {k \in Nat : \A i \in 0 .. k : f[k + 1][i] = f[k][i]}
  <2>1. 0 \in S
    <3>1. f[0 + 1][0] = Level(b, 0, f[0][0 \div 2]) /\ f[0][0] = b
      BY <1>2
    <3>2. f[0 + 1][0] = f[0][0]
      BY <3>1 DEF Level
    <3>3. \A i \in 0 .. 0 : f[0 + 1][i] = f[0][i]
      <4>1. \A i \in 0 .. 0 : i = 0
        BY SMT
      <4>. QED  BY <3>2, <4>1
    <3>. QED  BY <3>3
  <2>2. ASSUME NEW k \in Nat, k \in S PROVE k + 1 \in S
    <3>1. ASSUME NEW i \in 0 .. k + 1 PROVE f[(k + 1) + 1][i] = f[k + 1][i]
      <4>0. i \in Nat /\ k + 1 \in Nat
        OBVIOUS
      <4>1. f[(k + 1) + 1][i] = Level(b, i, f[k + 1][i \div 2])
        BY <1>2, <4>0
      <4>2. f[k + 1][i] = Level(b, i, f[k][i \div 2])
        BY <1>2, <4>0
      <4>3. CASE i <= 1
        BY <4>1, <4>2, <4>3 DEF Level
      <4>4. CASE i > 1
        <5>1. i \div 2 \in 0 .. k
          BY <4>4, Halves
        <5>2. f[k + 1][i \div 2] = f[k][i \div 2]
          BY <2>2, <5>1
        <5>. QED  BY <4>1, <4>2, <5>2
      <4>. QED  BY <4>3, <4>4
    <3>. QED  BY <3>1
  <2>. HIDE DEF S
  <2>3. Nat \subseteq S
    BY <2>1, <2>2, SetInduction
  <2>. QED  BY <2>3 DEF S
<1>4. \A m \in Nat : \A j \in 0 .. m : f[m][j] = f[j][j]
  <2>. DEFINE T == {m \in Nat : \A j \in 0 .. m : f[m][j] = f[j][j]}
  <2>1. 0 \in T
    OBVIOUS
  <2>2. ASSUME NEW m \in Nat, m \in T PROVE m + 1 \in T
    <3>1. ASSUME NEW j \in 0 .. m + 1 PROVE f[m + 1][j] = f[j][j]
      <4>1. CASE j = m + 1
        BY <4>1
      <4>2. CASE j \in 0 .. m
        BY <1>3, <2>2, <4>2
      <4>. QED  BY <4>1, <4>2
    <3>. QED  BY <3>1
  <2>. HIDE DEF T
  <2>3. Nat \subseteq T
    BY <2>1, <2>2, SetInduction
  <2>. QED  BY <2>3 DEF T
<1>. DEFINE q == [i \in Nat |-> f[i][i]]
<1>5. \A i \in Nat : q[i] = Level(b, i, q[i \div 2])
  <2>1. ASSUME NEW i \in Nat PROVE q[i] = Level(b, i, q[i \div 2])
    <3>1. CASE i = 0
      BY <1>2, <3>1 DEF Level
    <3>2. CASE i # 0
      <4>1. i - 1 \in Nat /\ (i - 1) + 1 = i
        BY <3>2
      <4>2. f[i][i] = Level(b, i, f[i - 1][i \div 2])
        BY <1>2, <4>1
      <4>3. CASE i = 1
        BY <4>2, <4>3 DEF Level
      <4>4. CASE i > 1
        <5>1. i \div 2 \in 0 .. i - 1
          BY <4>4, Halves
        <5>2. f[i - 1][i \div 2] = f[i \div 2][i \div 2]
          BY <1>4, <4>1, <5>1
        <5>. QED  BY <4>2, <5>1, <5>2
      <4>. QED  BY <4>3, <4>4, <3>2
    <3>. QED  BY <3>1, <3>2
  <2>. QED  BY <2>1
<1>6. q = D(q)
  <2>. HIDE DEF Body
  <2>1. \A i \in Nat : q[i] = Body(q, i)
    <3>. HIDE DEF q
    <3>. QED  BY <1>1, <1>5
  <2>. QED  BY <2>1
<1>7. p = D(p)
  <2>. HIDE DEF D, q
  <2>. QED  BY <1>6
<1>8. \A i \in Nat : PowFixed(b, i) = p[i]
  BY DEF PowFixed
<1>. HIDE DEF p
<1>9. \A i \in Nat : p[i] = Body(p, i)
  <2>. HIDE DEF Body
  <2>. QED  BY <1>7
<1>. HIDE DEF Body
<1>10. \A i \in Nat : i \div 2 \in Nat
  BY SMT
<1>. QED  BY <1>1, <1>8, <1>9, <1>10

\* Whatever is at most a product of ratios is one, divided by Scale.
LEMMA StaysRatio ==
    ASSUME NEW g \in 0 .. Scale - 1, NEW h \in 0 .. Scale - 1
    PROVE  LET t == (g * h) \div Scale
           IN  /\ t \in 0 .. Scale - 1
               /\ t * Scale <= g * h
               /\ g * h < t * Scale + Scale
<1>. DEFINE t == (g * h) \div Scale
<1>1. Scale \in Nat \ {0} /\ g \in Nat /\ h \in Nat /\ g * h \in Nat
  BY MathAssumption
<1>2. t \in Nat /\ t * Scale <= g * h /\ g * h < t * Scale + Scale
  BY <1>1, DivBounds
<1>3. t < Scale
  <2>. HIDE DEF t
  <2>1. SUFFICES ASSUME t >= Scale PROVE FALSE
    BY <1>1, <1>2
  <2>2. t * Scale >= Scale * Scale
    BY <1>1, <1>2, <2>1, SMT
  <2>3. g * h <= Scale * h
    BY <1>1, SMT
  <2>4. Scale * h < Scale * Scale
    BY <1>1, SMT
  <2>5. t * Scale \in Nat /\ Scale * h \in Nat /\ Scale * Scale \in Nat
    BY <1>1, <1>2
  <2>. QED  BY <1>1, <1>2, <2>2, <2>3, <2>4, <2>5
<1>. QED  BY <1>1, <1>2, <1>3

\* One squaring loses at most what it squares twice over.
LEMMA SquareLoses ==
    ASSUME NEW h \in Nat, NEW l \in Nat, h + l >= Scale
    PROVE  (h * h) \div Scale + l + l >= Scale
<1>. DEFINE t == (h * h) \div Scale
<1>1. Scale \in Nat \ {0} /\ h * h \in Nat
  BY MathAssumption
<1>2. t \in Nat /\ h * h < t * Scale + Scale
  BY <1>1, DivBounds
<1>. HIDE DEF t
<1>3. CASE l >= Scale
  BY <1>1, <1>2, <1>3 DEF t
<1>4. CASE l < Scale
  <2>. DEFINE g == Scale - l
  <2>1. g \in Nat /\ g <= h /\ Scale = g + l
    BY <1>1, <1>4
  <2>. HIDE DEF g
  <2>2. g * g <= h * h
    <3>1. g * g <= h * g
      BY <2>1, SMT
    <3>2. h * g <= h * h
      BY <2>1, SMT
    <3>3. g * g \in Nat /\ h * g \in Nat
      BY <2>1
    <3>. QED  BY <1>1, <3>1, <3>2, <3>3
  <2>3. (g - l) * Scale <= g * g
    <3>1. (g - l) * (g + l) = g * g - l * l
      BY <2>1, SMT
    <3>2. l * l \in Nat /\ g * g \in Nat
      BY <2>1
    <3>. QED  BY <2>1, <3>1, <3>2
  <2>4. (g - l) * Scale < (t + 1) * Scale
    <3>1. (t + 1) * Scale = t * Scale + Scale
      BY <1>1, <1>2, SMT
    <3>2. g * g \in Nat /\ t * Scale \in Nat /\ (g - l) * Scale \in Int
      BY <1>1, <1>2, <2>1
    <3>. QED  BY <1>1, <1>2, <2>2, <2>3, <3>1, <3>2
  <2>5. g - l <= t
    <3>1. SUFFICES ASSUME g - l >= t + 1 PROVE FALSE
      BY <1>2, <2>1
    <3>2. (g - l) * Scale >= (t + 1) * Scale
      <4>. DEFINE u == g - l
      <4>1. u \in Nat /\ u >= t + 1
        BY <1>2, <2>1, <3>1
      <4>. HIDE DEF u
      <4>2. u * Scale >= (t + 1) * Scale
        BY <1>1, <1>2, <4>1, SMT
      <4>. QED  BY <4>2 DEF u
    <3>3. (g - l) * Scale \in Int /\ (t + 1) * Scale \in Int
      BY <1>1, <1>2, <2>1
    <3>. QED  BY <2>4, <3>2, <3>3
  <2>. QED  BY <1>1, <1>2, <2>1, <2>5 DEF t
<1>. QED  BY <1>1, <1>3, <1>4

\* One more factor loses at most what it lacks itself.
LEMMA FactorLoses ==
    ASSUME NEW h \in Nat, NEW l \in Nat, h + l >= Scale, NEW b \in 0 .. Scale - 1
    PROVE  (h * b) \div Scale + l + (Scale - b) >= Scale
<1>. DEFINE t == (h * b) \div Scale
<1>1. Scale \in Nat \ {0} /\ b \in Nat /\ h * b \in Nat
  BY MathAssumption
<1>2. t \in Nat /\ h * b < t * Scale + Scale
  BY <1>1, DivBounds
<1>. HIDE DEF t
<1>3. CASE l >= Scale
  BY <1>1, <1>2, <1>3 DEF t
<1>4. CASE l < Scale
  <2>. DEFINE g == Scale - l
  <2>1. g \in Nat /\ g <= h /\ Scale = g + l
    BY <1>1, <1>4
  <2>. HIDE DEF g
  <2>2. g * b <= h * b /\ g * b \in Nat
    BY <1>1, <2>1, SMT
  <2>3. (b - l) * Scale <= g * b
    <3>1. (b - l) * (g + l) = g * b - l * (Scale - b)
      BY <1>1, <2>1, SMT
    <3>2. l * (Scale - b) \in Nat
      BY <1>1
    <3>. QED  BY <1>1, <2>1, <2>2, <3>1, <3>2
  <2>4. (b - l) * Scale < (t + 1) * Scale
    <3>1. (t + 1) * Scale = t * Scale + Scale
      BY <1>1, <1>2, SMT
    <3>2. t * Scale \in Nat /\ (b - l) * Scale \in Int
      BY <1>1, <1>2
    <3>. QED  BY <1>1, <1>2, <2>2, <2>3, <3>1, <3>2
  <2>5. b - l <= t
    <3>1. SUFFICES ASSUME b - l >= t + 1 PROVE FALSE
      BY <1>1, <1>2
    <3>2. (b - l) * Scale >= (t + 1) * Scale
      <4>. DEFINE u == b - l
      <4>1. u \in Nat /\ u >= t + 1
        BY <1>1, <1>2, <3>1
      <4>. HIDE DEF u
      <4>2. u * Scale >= (t + 1) * Scale
        BY <1>1, <1>2, <4>1, SMT
      <4>. QED  BY <4>2 DEF u
    <3>3. (b - l) * Scale \in Int /\ (t + 1) * Scale \in Int
      BY <1>1, <1>2
    <3>. QED  BY <2>4, <3>2, <3>3
  <2>. QED  BY <1>1, <1>2, <2>1, <2>5 DEF t
<1>. QED  BY <1>1, <1>3, <1>4

(* A power is a ratio, and all its factors and truncations together lose   *)
(* no more than the sum of what each of the factors lacks.                 *)
LosesAtMost(b, i) ==
    /\ PowFixed(b, i) \in 0 .. Scale - 1
    /\ PowFixed(b, i) + i * (Scale - b) >= Scale

LEMMA LosesFromHalf ==
    ASSUME NEW b \in 0 .. Scale - 1, NEW i \in Nat, i > 1, LosesAtMost(b, i \div 2)
    PROVE  LosesAtMost(b, i)
<1>. DEFINE q == i \div 2
            h == PowFixed(b, q)
            d == Scale - b
            l == q * d
            t == (h * h) \div Scale
<1>1. Scale \in Nat /\ Scale > 1 /\ b \in Nat /\ d \in Nat
  BY MathAssumption
<1>2. q \in Nat /\ (\/ i % 2 = 1 /\ i = q + q + 1
                    \/ i % 2 = 0 /\ i = q + q)
  BY Halves
<1>3. h \in 0 .. Scale - 1 /\ h + l >= Scale
  BY DEF LosesAtMost
<1>4. PowFixed(b, i) = Level(b, i, h)
  BY <1>1, PowFixedRec
<1>5. t \in 0 .. Scale - 1
  BY <1>3, StaysRatio
<1>. HIDE DEF q, h, d
<1>6. l \in Nat
  BY <1>1, <1>2
<1>7. t + l + l >= Scale
  BY <1>3, <1>6, SquareLoses
<1>8. CASE i % 2 = 0 /\ i = q + q
  <2>1. PowFixed(b, i) = t
    BY <1>4, <1>8 DEF Level
  <2>2. i * d = l + l
    BY <1>1, <1>2, <1>8, SMT
  <2>. HIDE DEF t, l
  <2>. QED  BY <1>5, <1>6, <1>7, <2>1, <2>2 DEF LosesAtMost, d
<1>9. CASE i % 2 = 1 /\ i = q + q + 1
  <2>. DEFINE r == (t * b) \div Scale
  <2>1. PowFixed(b, i) = r
    BY <1>4, <1>9 DEF Level
  <2>2. r \in 0 .. Scale - 1
    BY <1>5, StaysRatio
  <2>3. i * d = (l + l) + d
    BY <1>1, <1>2, <1>9, SMT
  <2>. HIDE DEF t, l
  <2>4. l + l \in Nat /\ t \in Nat /\ t + (l + l) >= Scale
    BY <1>1, <1>5, <1>6, <1>7
  <2>5. r + (l + l) + (Scale - b) >= Scale
    BY <2>4, FactorLoses
  <2>. HIDE DEF r
  <2>. QED  BY <1>1, <2>1, <2>2, <2>3, <2>4, <2>5 DEF LosesAtMost, d
<1>. QED  BY <1>2, <1>8, <1>9

LEMMA PowLosesAtMost ==
    ASSUME NEW b \in 0 .. Scale - 1
    PROVE  \A i \in Nat \ {0} : LosesAtMost(b, i)
<1>. DEFINE S == {k \in Nat : \A i \in 1 .. k : LosesAtMost(b, i)}
<1>1. 0 \in S
  <2>1. \A i \in 1 .. 0 : FALSE
    BY SMT
  <2>. QED  BY <2>1
<1>2. ASSUME NEW k \in Nat, k \in S PROVE k + 1 \in S
  <2>1. CASE k = 0
    <3>1. Scale \in Nat /\ Scale > 1 /\ b \in Nat
      BY MathAssumption
    <3>2. PowFixed(b, 1) = b
      BY <3>1, PowFixedRec DEF Level
    <3>3. LosesAtMost(b, 1)
      BY <3>1, <3>2 DEF LosesAtMost
    <3>4. \A i \in 1 .. 0 + 1 : i = 1
      BY SMT
    <3>. QED  BY <2>1, <3>3, <3>4
  <2>2. CASE k # 0
    <3>1. k + 1 > 1 /\ k + 1 \in Nat
      BY <2>2
    <3>2. (k + 1) \div 2 \in 1 .. k
      BY <3>1, Halves
    <3>3. LosesAtMost(b, (k + 1) \div 2)
      BY <1>2, <3>2
    <3>4. LosesAtMost(b, k + 1)
      BY <3>1, <3>3, LosesFromHalf
    <3>5. \A i \in 1 .. k + 1 : i \in 1 .. k \/ i = k + 1
      OBVIOUS
    <3>6. \A i \in 1 .. k + 1 : LosesAtMost(b, i)
      BY <1>2, <3>4, <3>5
    <3>. QED  BY <3>6
  <2>. QED  BY <2>1, <2>2
<1>. HIDE DEF S
<1>3. Nat \subseteq S
  BY <1>1, <1>2, SetInduction
<1>4. ASSUME NEW i \in Nat \ {0} PROVE LosesAtMost(b, i)
  <2>1. i \in S /\ i \in 1 .. i
    BY <1>3
  <2>. QED  BY <2>1 DEF S
<1>. QED  BY <1>4

(* The fees of several periods, compounded and truncated, take no more of  *)
(* the pool than their sum.                                                *)
LEMMA FeelessRatioBound ==
    ASSUME NEW r \in 0 .. Scale - 1, NEW c \in Nat \ {0}
    PROVE  /\ FeelessRatio(r, c) \in 0 .. Scale - 1
           /\ FeelessRatio(r, c) + c * (r + 1) >= Scale
<1>1. Scale \in Nat /\ Scale > 1 /\ r \in Nat
  BY MathAssumption
<1>2. Not16(r) \in 0 .. Scale - 1 /\ Scale - Not16(r) = r + 1
  BY <1>1 DEF Not16
<1>3. LosesAtMost(Not16(r), c)
  BY <1>2, PowLosesAtMost
<1>4. PowFixed(Not16(r), c) % Scale = PowFixed(Not16(r), c)
  <2>. DEFINE p == PowFixed(Not16(r), c)
  <2>1. p \in 0 .. Scale - 1
    BY <1>3 DEF LosesAtMost
  <2>. HIDE DEF p
  <2>2. p % Scale = p
    BY <1>1, <2>1, SMT
  <2>. QED  BY <2>2 DEF p
<1>. QED  BY <1>2, <1>3, <1>4 DEF LosesAtMost, FeelessRatio
=============================================================================
