---------------------------- MODULE PowerProofs -----------------------------
(***************************************************************************)
(* The fixed-point power of utils.rs against the exact power, for every    *)
(* width of a ratio, every base and every exponent: it never overstates,   *)
(* and is less than n steps of the ratio below the exact power n.          *)
(*                                                                         *)
(* The recursion halves its argument, so that its function is built from   *)
(* approximations (the i-th is right up to i), and the bounds are proved   *)
(* by induction over all the smaller exponents at once.                    *)
(***************************************************************************)
EXTENDS MCPoolMath, PoolMathProofs

-----------------------------------------------------------------------------
(* The exact power                                                         *)

\* The exact power satisfies its equation.
LEMMA PowerRec ==
    ASSUME NEW b \in Nat
    PROVE  /\ Power(b, 0) = 1
           /\ \A k \in Nat : Power(b, k) \in Nat /\ Power(b, k + 1) = b * Power(b, k)
<1>. DEFINE D(g) == [i \in Nat |-> IF i = 0 THEN 1 ELSE b * g[i - 1]]
            p    == CHOOSE g : g = D(g)
<1>1. PICK f \in [Nat -> Nat] : f[0] = 1 /\ \A k \in Nat : f[k + 1] = b * f[k]
  <2>1. PICK V : V = Nat
    OBVIOUS
  <2>. DEFINE step == [v \in V |-> b * v]
  <2>2. 1 \in V /\ step \in [V -> V]
    BY <2>1
  <2>3. PICK f : Iterates(f, V, 1, step)
    <3>. HIDE DEF step
    <3>. QED  BY <2>2, Recursion
  <2>4. f \in [Nat -> V] /\ f[0] = 1 /\ \A k \in Nat : f[k + 1] = step[f[k]]
    BY <2>3 DEF Iterates
  <2>5. \A k \in Nat : f[k] \in V
    BY <2>4
  <2>. QED  BY <2>1, <2>4, <2>5
<1>2. f = D(f)
  <2>1. ASSUME NEW i \in Nat PROVE f[i] = D(f)[i]
    <3>1. CASE i = 0
      BY <1>1, <3>1
    <3>2. CASE i # 0
      <4>1. i - 1 \in Nat /\ (i - 1) + 1 = i
        BY <3>2
      <4>. QED  BY <1>1, <4>1, <3>2
    <3>. QED  BY <3>1, <3>2
  <2>. QED  BY <2>1
<1>3. p = D(p)
  <2>. HIDE DEF D
  <2>. QED  BY <1>2
<1>4. \A k \in Nat : Power(b, k) = p[k]
  BY DEF Power
<1>. HIDE DEF p
<1>5. ASSUME NEW i \in Nat PROVE p[i] = D(p)[i]
  <2>. HIDE DEF D
  <2>. QED  BY <1>3
<1>6. p[0] = 1
  BY <1>5
<1>7. ASSUME NEW k \in Nat PROVE p[k + 1] = b * p[k]
  <2>1. k + 1 \in Nat /\ k + 1 # 0 /\ (k + 1) - 1 = k
    OBVIOUS
  <2>2. p[k + 1] = b * p[(k + 1) - 1]
    BY <1>5, <2>1
  <2>. QED  BY <2>1, <2>2
<1>8. \A k \in Nat : p[k] \in Nat
  <2>. DEFINE S == {k \in Nat : p[k] \in Nat}
  <2>1. 0 \in S /\ \A k \in Nat : k \in S => k + 1 \in S
    BY <1>6, <1>7
  <2>. HIDE DEF S
  <2>2. Nat \subseteq S
    BY <2>1, SetInduction
  <2>. QED  BY <2>2 DEF S
<1>. QED  BY <1>4, <1>6, <1>7, <1>8

\* Exponents add up.
LEMMA PowerAdd ==
    ASSUME NEW b \in Nat, NEW j \in Nat, NEW k \in Nat
    PROVE  Power(b, j + k) = Power(b, j) * Power(b, k)
<1>. DEFINE S == {i \in Nat : Power(b, i + k) = Power(b, i) * Power(b, k)}
<1>1. 0 \in S
  BY PowerRec
<1>2. ASSUME NEW i \in Nat, i \in S PROVE i + 1 \in S
  <2>1. Power(b, i + k) = Power(b, i) * Power(b, k)
    BY <1>2
  <2>2. (i + 1) + k = (i + k) + 1 /\ i + k \in Nat
    OBVIOUS
  <2>3. Power(b, (i + k) + 1) = b * Power(b, i + k)
    BY <2>2, PowerRec
  <2>4. Power(b, i + 1) = b * Power(b, i)
    BY PowerRec
  <2>5. Power(b, i) \in Nat /\ Power(b, k) \in Nat
    BY PowerRec
  <2>6. b * (Power(b, i) * Power(b, k)) = (b * Power(b, i)) * Power(b, k)
    BY <2>5
  <2>7. Power(b, (i + 1) + k) = Power(b, i + 1) * Power(b, k)
    BY <2>1, <2>2, <2>3, <2>4, <2>6
  <2>. QED  BY <2>7
<1>. HIDE DEF S
<1>3. Nat \subseteq S
  BY <1>1, <1>2, SetInduction
<1>. QED  BY <1>3 DEF S

\* A power of Scale is not zero.
LEMMA ScalePositive ==
    ASSUME NEW k \in Nat
    PROVE  Power(Scale, k) > 0
<1>. DEFINE S == {i \in Nat : Power(Scale, i) > 0}
<1>1. Scale \in Nat /\ Scale > 1
  BY MathAssumption
<1>2. 0 \in S
  BY <1>1, PowerRec
<1>3. ASSUME NEW i \in Nat, i \in S PROVE i + 1 \in S
  <2>. DEFINE s == Power(Scale, i)
  <2>1. s \in Nat /\ s > 0 /\ Power(Scale, i + 1) = Scale * s
    BY <1>1, <1>3, PowerRec
  <2>. HIDE DEF s
  <2>2. Scale * s > 0
    BY <1>1, <2>1, SMT
  <2>. QED  BY <2>1, <2>2
<1>. HIDE DEF S
<1>4. Nat \subseteq S
  BY <1>2, <1>3, SetInduction
<1>. QED  BY <1>4 DEF S

-----------------------------------------------------------------------------
(* The bounds                                                              *)

(* One squaring: s stands for Scale^(q - 1) and e for the exact power q,   *)
(* which h steps of the ratio approximate; t is the truncated square.      *)
LEMMA SquareBounds ==
    ASSUME NEW e \in Nat, NEW s \in Nat, NEW h \in Nat, NEW t \in Nat,
           NEW q \in Nat \ {0},
           h * s <= e, e <= (h + q - 1) * s, e <= Scale * s, h <= Scale,
           t * Scale <= h * h, h * h < t * Scale + Scale
    PROVE  /\ t * (Scale * (s * s)) <= e * e
           /\ e * e <= (t + (q + q) - 1) * (Scale * (s * s))
           /\ e * e <= Scale * (Scale * (s * s))
<1>1. Scale \in Nat /\ h * s \in Nat /\ s * s \in Nat /\ Scale * s \in Nat
  BY MathAssumption
<1>2. (h * s) * (h * s) <= e * e
  BY <1>1, SMT
<1>3. (h * s) * (h * s) = (h * h) * (s * s)
  BY <1>1, SMT
<1>4. (t * Scale) * (s * s) <= (h * h) * (s * s)
  BY <1>1, SMT
<1>5. (t * Scale) * (s * s) = t * (Scale * (s * s))
  BY <1>1, SMT
<1>6. e * e <= (Scale * s) * (Scale * s)
  BY <1>1, SMT
<1>7. (Scale * s) * (Scale * s) = Scale * (Scale * (s * s))
  BY <1>1, SMT
<1>8. e * e <= (t + (q + q) - 1) * (Scale * (s * s))
  <2>. DEFINE d == e - h * s
              u == q - 1
  <2>1. d \in Nat /\ u \in Nat /\ e = h * s + d
    BY <1>1
  <2>2. d <= u * s
    <3>1. (h + q - 1) * s = h * s + u * s
      BY <1>1, SMT
    <3>2. u * s \in Nat
      BY <1>1, <2>1
    <3>. HIDE DEF u
    <3>. QED  BY <1>1, <3>1, <3>2
  <2>. HIDE DEF d, u
  <2>3. e * e = (h * s) * (h * s) + d * (e + h * s)
    <3>. DEFINE w == h * s
    <3>1. w \in Nat /\ e = w + d
      BY <1>1, <2>1
    <3>. HIDE DEF w
    <3>2. e * e = w * w + d * (e + w)
      BY <2>1, <3>1, SMT
    <3>. QED  BY <3>2 DEF w
  <2>4. e + h * s <= 2 * (Scale * s)
    BY <1>1
  <2>5. d * (e + h * s) <= (u * s) * (2 * (Scale * s))
    <3>. DEFINE y == e + h * s
                z == 2 * (Scale * s)
                v == u * s
    <3>1. y \in Nat /\ z \in Nat /\ v \in Nat /\ y <= z /\ d <= v
      BY <1>1, <2>1, <2>2, <2>4
    <3>. HIDE DEF y, z, v
    <3>2. d * y <= v * y
      BY <2>1, <3>1, SMT
    <3>3. v * y <= v * z
      BY <3>1, SMT
    <3>4. d * y \in Nat /\ v * y \in Nat /\ v * z \in Nat
      BY <2>1, <3>1
    <3>5. d * y <= v * z
      BY <3>2, <3>3, <3>4
    <3>. QED  BY <3>5 DEF y, z, v
  <2>6. (u * s) * (2 * (Scale * s)) = (2 * u) * (Scale * (s * s))
    BY <1>1, <2>1, SMT
  <2>7. (h * h) * (s * s) <= (t * Scale + Scale) * (s * s)
    BY <1>1, SMT
  <2>8. (t * Scale + Scale) * (s * s) = (t + 1) * (Scale * (s * s))
    BY <1>1, SMT
  <2>9. (t + 1) * (Scale * (s * s)) + (2 * u) * (Scale * (s * s))
          = (t + (q + q) - 1) * (Scale * (s * s))
    <3>. DEFINE k == Scale * (s * s)
    <3>1. k \in Nat
      BY <1>1
    <3>2. u = q - 1
      BY DEF u
    <3>. HIDE DEF k
    <3>3. (t + 1) * k + (2 * u) * k = (t + (q + q) - 1) * k
      BY <3>1, <3>2, SMT
    <3>. QED  BY <3>3 DEF k
  <2>10. /\ (h * s) * (h * s) <= (t + 1) * (Scale * (s * s))
         /\ d * (e + h * s) <= (2 * u) * (Scale * (s * s))
    BY <1>3, <2>5, <2>6, <2>7, <2>8
  <2>. DEFINE a1 == (h * s) * (h * s)
              a2 == d * (e + h * s)
              b1 == (t + 1) * (Scale * (s * s))
              b2 == (2 * u) * (Scale * (s * s))
  <2>11. a1 \in Nat /\ a2 \in Nat /\ b1 \in Nat /\ b2 \in Nat
    BY <1>1, <2>1
  <2>12. a1 <= b1 /\ a2 <= b2
    BY <2>10
  <2>13. e * e = a1 + a2
    BY <2>3
  <2>14. b1 + b2 = (t + (q + q) - 1) * (Scale * (s * s))
    BY <2>9
  <2>. HIDE DEF a1, a2, b1, b2
  <2>15. a1 + a2 <= b1 + b2
    BY <2>11, <2>12
  <2>. QED  BY <2>13, <2>14, <2>15
<1>9. t * (Scale * (s * s)) <= e * e
  <2>1. e * e \in Nat /\ t * (Scale * (s * s)) \in Nat
    BY <1>1
  <2>. QED  BY <1>2, <1>3, <1>4, <1>5, <2>1
<1>10. e * e <= Scale * (Scale * (s * s))
  BY <1>6, <1>7
<1>. QED  BY <1>8, <1>9, <1>10

(* One multiplication by the base: m is the exponent before it.            *)
LEMMA TimesBaseBounds ==
    ASSUME NEW e \in Nat, NEW s \in Nat, NEW h \in Nat, NEW t \in Nat,
           NEW m \in Nat \ {0}, NEW b \in Nat,
           h * s <= e, e <= (h + m - 1) * s, e <= Scale * s, b <= Scale,
           t * Scale <= h * b, h * b < t * Scale + Scale
    PROVE  /\ t * (Scale * s) <= b * e
           /\ b * e <= (t + (m + 1) - 1) * (Scale * s)
           /\ b * e <= Scale * (Scale * s)
<1>1. Scale \in Nat /\ h * s \in Nat /\ Scale * s \in Nat /\ b * e \in Nat
  BY MathAssumption
<1>2. b * (h * s) <= b * e
  BY <1>1, SMT
<1>3. b * (h * s) = (h * b) * s
  BY <1>1, SMT
<1>4. (t * Scale) * s <= (h * b) * s
  BY <1>1, SMT
<1>5. (t * Scale) * s = t * (Scale * s)
  BY <1>1, SMT
<1>6. t * (Scale * s) <= b * e
  BY <1>1, <1>2, <1>3, <1>4, <1>5
<1>7. b * e <= Scale * (Scale * s)
  <2>1. b * e <= Scale * e
    BY <1>1, SMT
  <2>2. Scale * e <= Scale * (Scale * s)
    BY <1>1, SMT
  <2>. QED  BY <1>1, <2>1, <2>2
<1>8. b * e <= (t + (m + 1) - 1) * (Scale * s)
  <2>. DEFINE u == m - 1
  <2>1. u \in Nat /\ m = u + 1
    OBVIOUS
  <2>. HIDE DEF u
  <2>2. (h + m - 1) * s = h * s + u * s
    BY <1>1, <2>1, SMT
  <2>3. b * e <= b * (h * s + u * s)
    <3>. DEFINE w == h * s + u * s
    <3>1. w \in Nat /\ e <= w
      BY <1>1, <2>1, <2>2
    <3>. HIDE DEF w
    <3>2. b * e <= b * w
      BY <3>1, SMT
    <3>. QED  BY <3>2 DEF w
  <2>4. b * (h * s + u * s) = (h * b) * s + b * (u * s)
    BY <1>1, <2>1, SMT
  <2>5. (h * b) * s <= (t * Scale + Scale) * s
    BY <1>1, SMT
  <2>6. (t * Scale + Scale) * s = (t + 1) * (Scale * s)
    BY <1>1, SMT
  <2>7. b * (u * s) <= Scale * (u * s)
    BY <1>1, <2>1, SMT
  <2>8. Scale * (u * s) = u * (Scale * s)
    BY <1>1, <2>1, SMT
  <2>9. (t + 1) * (Scale * s) + u * (Scale * s) = (t + (m + 1) - 1) * (Scale * s)
    <3>. DEFINE k == Scale * s
    <3>1. k \in Nat
      BY <1>1
    <3>. HIDE DEF k
    <3>2. (t + 1) * k + u * k = (t + (m + 1) - 1) * k
      BY <2>1, <3>1, SMT
    <3>. QED  BY <3>2 DEF k
  <2>. DEFINE a1 == (h * b) * s
              a2 == b * (u * s)
              b1 == (t + 1) * (Scale * s)
              b2 == u * (Scale * s)
  <2>10. a1 \in Nat /\ a2 \in Nat /\ b1 \in Nat /\ b2 \in Nat
    BY <1>1, <2>1
  <2>11. a1 <= b1 /\ a2 <= b2
    BY <2>5, <2>6, <2>7, <2>8
  <2>12. b * e <= a1 + a2
    BY <2>3, <2>4
  <2>13. b1 + b2 = (t + (m + 1) - 1) * (Scale * s)
    BY <2>9
  <2>. HIDE DEF a1, a2, b1, b2
  <2>14. b * e <= b1 + b2
    BY <1>1, <2>10, <2>11, <2>12
  <2>. QED  BY <2>13, <2>14
<1>. QED  BY <1>6, <1>7, <1>8

(* The bounds of every power; that the exact power is a ratio as well is   *)
(* what limits the error that a squaring doubles.                          *)
Approximates(b, i) ==
    /\ PowFixed(b, i) \in 0 .. Scale - 1
    /\ PowFixed(b, i) * Power(Scale, i - 1) <= Power(b, i)
    /\ Power(b, i) <= (PowFixed(b, i) + i - 1) * Power(Scale, i - 1)
    /\ Power(b, i) <= Scale * Power(Scale, i - 1)

\* The bounds of half an exponent are those of the exponent.
LEMMA ApproximatesFromHalf ==
    ASSUME NEW b \in 0 .. Scale - 1, NEW i \in Nat, i > 1,
           Approximates(b, i \div 2)
    PROVE  Approximates(b, i)
<1>. DEFINE q == i \div 2
            h == PowFixed(b, q)
            s == Power(Scale, q - 1)
            e == Power(b, q)
            t == (h * h) \div Scale
            S == Scale * (s * s)
            E == e * e
<1>1. Scale \in Nat /\ Scale > 1 /\ b \in Nat
  BY MathAssumption
<1>2. q \in Nat \ {0} /\ q - 1 \in Nat
  BY Halves
<1>3. s \in Nat /\ e \in Nat
  BY <1>1, <1>2, PowerRec
<1>4. h \in 0 .. Scale - 1 /\ h * s <= e /\ e <= (h + q - 1) * s /\ e <= Scale * s
  BY DEF Approximates
<1>5. t \in 0 .. Scale - 1 /\ t * Scale <= h * h /\ h * h < t * Scale + Scale
  BY <1>4, StaysRatio
<1>6. PowFixed(b, i) = Level(b, i, h)
  BY <1>1, PowFixedRec
<1>7. Power(b, q + q) = E
  BY <1>1, <1>2, PowerAdd
<1>8. Power(Scale, (q + q) - 1) = S
  <2>1. Power(Scale, (q - 1) + (q - 1)) = s * s
    BY <1>1, <1>2, PowerAdd
  <2>2. Power(Scale, ((q - 1) + (q - 1)) + 1) = Scale * (s * s)
    <3>1. (q - 1) + (q - 1) \in Nat
      BY <1>2
    <3>. QED  BY <1>1, <2>1, <3>1, PowerRec
  <2>3. ((q - 1) + (q - 1)) + 1 = (q + q) - 1
    BY <1>2
  <2>. QED  BY <2>2, <2>3
<1>9. (i % 2 = 1 /\ i = q + q + 1) \/ (i % 2 = 0 /\ i = q + q)
  BY Halves
<1>. HIDE DEF q, h, s, e, t
<1>10. h \in Nat /\ t \in Nat /\ h <= Scale
  BY <1>1, <1>4, <1>5
<1>11. t * S <= E /\ E <= (t + (q + q) - 1) * S /\ E <= Scale * S
  BY <1>2, <1>3, <1>4, <1>5, <1>10, SquareBounds
<1>12. S \in Nat /\ E \in Nat
  BY <1>1, <1>3
<1>. HIDE DEF S, E
<1>13. CASE i % 2 = 0 /\ i = q + q
  <2>1. PowFixed(b, i) = t
    <3>1. i % 2 # 1
      BY <1>13
    <3>. QED  BY <1>6, <3>1 DEF Level, t
  <2>. QED  BY <1>5, <1>7, <1>8, <1>11, <1>13, <2>1 DEF Approximates
<1>14. CASE i % 2 = 1 /\ i = q + q + 1
  <2>. DEFINE r == (t * b) \div Scale
              m == q + q
  <2>1. PowFixed(b, i) = r
    BY <1>6, <1>14 DEF Level, t
  <2>2. r \in 0 .. Scale - 1 /\ r * Scale <= t * b /\ t * b < r * Scale + Scale
    BY <1>5, StaysRatio
  <2>3. m \in Nat \ {0} /\ m + 1 = i /\ m - 1 \in Nat /\ (m - 1) + 1 = m
    BY <1>2, <1>14
  <2>4. Power(b, i) = b * E
    BY <1>1, <1>7, <2>3, PowerRec
  <2>5. Power(Scale, i - 1) = Scale * S
    <3>1. Power(Scale, (m - 1) + 1) = Scale * Power(Scale, m - 1)
      BY <1>1, <2>3, PowerRec
    <3>2. i - 1 = m
      BY <1>14, <2>3
    <3>. QED  BY <1>8, <2>3, <3>1, <3>2
  <2>. HIDE DEF m
  <2>6. r \in Nat /\ b <= Scale /\ E <= (t + m - 1) * S
    BY <1>1, <1>11, <2>2 DEF m
  <2>. HIDE DEF r
  <2>7. /\ r * (Scale * S) <= b * E
        /\ b * E <= (r + (m + 1) - 1) * (Scale * S)
        /\ b * E <= Scale * (Scale * S)
    BY <1>1, <1>10, <1>11, <1>12, <2>2, <2>3, <2>6, TimesBaseBounds
  <2>. QED  BY <2>1, <2>2, <2>3, <2>4, <2>5, <2>7 DEF Approximates
<1>. QED  BY <1>9, <1>13, <1>14

\* Bounds by the half exponent give them for every exponent.
LEMMA PowApproximates ==
    ASSUME NEW b \in 0 .. Scale - 1
    PROVE  \A i \in Nat \ {0} : Approximates(b, i)
<1>. DEFINE S == {k \in Nat : \A i \in 1 .. k : Approximates(b, i)}
<1>1. 0 \in S
  <2>1. \A i \in 1 .. 0 : FALSE
    BY SMT
  <2>. QED  BY <2>1
<1>2. ASSUME NEW k \in Nat, k \in S PROVE k + 1 \in S
  <2>1. CASE k = 0
    <3>1. Scale \in Nat /\ Scale > 1 /\ b \in Nat
      BY MathAssumption
    <3>2. PowFixed(b, 1) = b
      BY <3>1, PowFixedRec DEF Level
    <3>3. Power(Scale, 0) = 1 /\ Power(b, 0) = 1 /\ Power(b, 0 + 1) = b * Power(b, 0)
      BY <3>1, PowerRec
    <3>4. Power(b, 1) = b /\ 1 - 1 = 0
      BY <3>1, <3>3
    <3>5. Approximates(b, 1)
      BY <3>1, <3>2, <3>3, <3>4 DEF Approximates
    <3>6. \A i \in 1 .. 0 + 1 : i = 1
      BY SMT
    <3>. QED  BY <2>1, <3>5, <3>6
  <2>2. CASE k # 0
    <3>1. k + 1 > 1 /\ k + 1 \in Nat
      BY <2>2
    <3>2. (k + 1) \div 2 \in 1 .. k
      BY <3>1, Halves
    <3>3. Approximates(b, (k + 1) \div 2)
      BY <1>2, <3>2
    <3>4. Approximates(b, k + 1)
      BY <3>1, <3>3, ApproximatesFromHalf
    <3>5. \A i \in 1 .. k + 1 : i \in 1 .. k \/ i = k + 1
      OBVIOUS
    <3>6. \A i \in 1 .. k + 1 : Approximates(b, i)
      BY <1>2, <3>4, <3>5
    <3>. QED  BY <3>6
  <2>. QED  BY <2>1, <2>2
<1>. HIDE DEF S
<1>3. Nat \subseteq S
  BY <1>1, <1>2, SetInduction
<1>4. ASSUME NEW i \in Nat \ {0} PROVE Approximates(b, i)
  <2>1. i \in S /\ i \in 1 .. i
    BY <1>3
  <2>. QED  BY <2>1 DEF S
<1>. QED  BY <1>4

-----------------------------------------------------------------------------
(* The theorems                                                            *)

\* The base is a ratio, and the exponent at least one.
Arguments == x \in 0 .. Scale - 1 /\ n \in Nat \ {0}

\* The arguments stay in range.
LEMMA ArgumentsKept == Spec => []Arguments
<1>1. Init => Arguments
  BY DEF Init, Arguments
<1>2. Arguments /\ [Next]_<<x, n>> => Arguments'
  BY DEF Arguments, Next
<1>. QED  BY <1>1, <1>2, PTL DEF Spec

(* The power never overstates what is left to the holders, whatever the    *)
(* ratio and the number of the periods.                                    *)
THEOREM PowIsNeverOver == Spec => []PowNeverOverstates
<1>1. Arguments => PowNeverOverstates
  BY PowApproximates DEF Arguments, Approximates, PowNeverOverstates
<1>. QED  BY <1>1, ArgumentsKept, PTL

(* All the truncations together cost less than one step of the ratio for   *)
(* every period.                                                           *)
THEOREM PowErrsLittle == Spec => []PowErrsByLessThanItsExponent
<1>1. ASSUME Arguments PROVE PowErrsByLessThanItsExponent
  <2>. DEFINE p == PowFixed(x, n)
              s == Power(Scale, n - 1)
  <2>1. n \in Nat \ {0} /\ n - 1 \in Nat /\ Scale \in Nat /\ Scale > 1 /\ x \in Nat
    BY <1>1, MathAssumption DEF Arguments
  <2>2. p \in Nat /\ Power(x, n) <= (p + n - 1) * s
    BY <1>1, <2>1, PowApproximates DEF Arguments, Approximates
  <2>3. Power(x, n) \in Nat /\ s \in Nat
    BY <2>1, PowerRec
  <2>4. s > 0
    BY <2>1, ScalePositive
  <2>. HIDE DEF p, s
  <2>5. (p + n - 1) * s + s = (p + n) * s
    BY <2>1, <2>2, <2>3, SMT
  <2>6. (p + n - 1) * s \in Nat
    BY <2>1, <2>2, <2>3
  <2>7. (p + n) * s > Power(x, n)
    BY <2>2, <2>3, <2>4, <2>5, <2>6
  <2>. QED  BY <2>7 DEF p, s, PowErrsByLessThanItsExponent
<1>. QED  BY <1>1, ArgumentsKept, PTL
=============================================================================
