--------------------------- MODULE RequestsProofs ---------------------------
(***************************************************************************)
(* Theorems about requests, for every number of values of a byte, every    *)
(* set of instructions, every size of a pool, and every tampering.         *)
(***************************************************************************)
EXTENDS Requests, CommonLemmas

-----------------------------------------------------------------------------
(* Numbers and their bytes                                                 *)

LEMMA ValuesRec ==
    /\ Values \in [Nat -> Nat \ {0}] /\ Values[0] = 1
    /\ \A w \in Nat : Values[w + 1] = Base * Values[w]
<1> DEFINE D(g) == [w \in Nat |-> IF w = 0 THEN 1 ELSE Base * g[w - 1]]
           V == Nat \ {0}
           step == [v \in V |-> Base * v]
<1>1. 1 \in V /\ step \in [V -> V]
  BY DataAssumption, SMT
<1>2. PICK f : Iterates(f, V, 1, step)
  <2> HIDE DEF V, step
  <2> QED
    BY <1>1, Recursion
<1>3. /\ f \in [Nat -> V] /\ f[0] = 1
      /\ \A w \in Nat : f[w + 1] = Base * f[w]
  BY <1>2 DEF Iterates
<1>4. f = D(f)
  <2>1. ASSUME NEW w \in Nat PROVE f[w] = D(f)[w]
    <3>1. CASE w = 0
      BY <1>3, <3>1
    <3>2. CASE w # 0
      <4>1. w - 1 \in Nat /\ (w - 1) + 1 = w
        BY <3>2
      <4>2. f[w] = Base * f[w - 1]
        BY <1>3, <4>1
      <4> QED
        BY <3>2, <4>2
    <3> QED
      BY <3>1, <3>2
  <2> QED
    BY <1>3, <2>1
<1>5. Values = D(Values)
  <2> HIDE DEF D
  <2>1. Values = CHOOSE g : g = D(g)
    BY DEF Values, D
  <2> QED
    BY <1>4, <2>1
<1>6. Values[0] = 1
  BY <1>5
<1>7. ASSUME NEW w \in Nat PROVE Values[w + 1] = Base * Values[w]
  <2>1. w + 1 \in Nat /\ w + 1 # 0 /\ (w + 1) - 1 = w
    OBVIOUS
  <2>2. Values[w + 1] = IF w + 1 = 0 THEN 1 ELSE Base * Values[(w + 1) - 1]
    BY <1>5, <2>1
  <2> QED
    BY <2>1, <2>2
<1>8. Nat \subseteq {w \in Nat : Values[w] \in V}
  <2> DEFINE S == {w \in Nat : Values[w] \in V}
  <2>1. 0 \in S
    BY <1>6
  <2>2. ASSUME NEW w \in Nat, w \in S PROVE w + 1 \in S
    BY <1>7, <2>2, DataAssumption, SMT
  <2> HIDE DEF S
  <2> QED
    BY <2>1, <2>2, SetInduction DEF S
<1>9. DOMAIN Values = Nat
  BY <1>5
<1>10. Values = [w \in Nat |-> Values[w]]
  BY <1>5
<1> QED
  BY <1>6, <1>7, <1>8, <1>10

LEMMA BasePositive == Base \in Nat \ {0}
BY DataAssumption

LEMMA ByteIsNat == Byte \subseteq Nat
BY DataAssumption DEF Byte

LEMMA ValuesType ==
    ASSUME NEW w \in Nat
    PROVE  Values[w] \in Nat /\ Values[w] > 0 /\ Values[w + 1] = Base * Values[w]
BY ValuesRec

\* A quotient and its remainder.
LEMMA Quotient ==
    ASSUME NEW v \in Nat, NEW p \in Nat \ {0}
    PROVE  /\ v \div p \in Nat /\ v % p \in 0 .. p - 1
           /\ v = p * (v \div p) + (v % p)
BY SMT

LEMMA QuotientUnique ==
    ASSUME NEW v \in Nat, NEW p \in Nat \ {0}, NEW q \in Nat, NEW r \in 0 .. p - 1,
           v = p * q + r
    PROVE  v \div p = q /\ v % p = r
<1> DEFINE q2 == v \div p  r2 == v % p
<1>1. q2 \in Nat /\ r2 \in 0 .. p - 1 /\ v = p * q2 + r2
  BY Quotient
<1> HIDE DEF q2, r2
<1>2. ~(q >= q2 + 1)
  <2> SUFFICES ASSUME q >= q2 + 1 PROVE FALSE
    OBVIOUS
  <2>1. p * q >= p * (q2 + 1)
    BY <1>1, SMT
  <2>2. p * (q2 + 1) = p * q2 + p
    BY <1>1, SMT
  <2> QED
    BY <1>1, <2>1, <2>2, SMT
<1>3. ~(q2 >= q + 1)
  <2> SUFFICES ASSUME q2 >= q + 1 PROVE FALSE
    OBVIOUS
  <2>1. p * q2 >= p * (q + 1)
    BY <1>1, SMT
  <2>2. p * (q + 1) = p * q + p
    BY <1>1, SMT
  <2> QED
    BY <1>1, <2>1, <2>2, SMT
<1>4. q = q2
  BY <1>1, <1>2, <1>3, SMT
<1>5. r = r2
  BY <1>1, <1>4, SMT
<1> QED
  BY <1>4, <1>5 DEF q2, r2

\* The lowest digits and one more.
LEMMA DigitStep ==
    ASSUME NEW v \in Nat, NEW p \in Nat \ {0}, NEW b \in Nat \ {0}
    PROVE  /\ v % (b * p) = (v % p) + ((v \div p) % b) * p
           /\ (v % (b * p)) % p = v % p
<1> DEFINE q == v \div p  r == v % p  s == q \div b  d == q % b
<1>1. q \in Nat /\ r \in 0 .. p - 1 /\ v = p * q + r
  BY Quotient
<1> HIDE DEF q, r
<1>2. s \in Nat /\ d \in 0 .. b - 1 /\ q = b * s + d
  BY <1>1, Quotient
<1> HIDE DEF s, d
<1>3. r + d * p \in Nat
  BY <1>1, <1>2, SMT
<1>4. r + d * p <= b * p - 1
  <2>1. d * p <= (b - 1) * p
    BY <1>2, SMT
  <2>2. (b - 1) * p = b * p - p
    BY SMT
  <2> QED
    BY <1>1, <1>2, <2>1, <2>2, SMT
<1>5. v = (b * p) * s + (r + d * p)
  <2>1. p * (b * s + d) = (b * p) * s + d * p
    BY <1>2, SMT
  <2> QED
    BY <1>1, <1>2, <2>1, SMT
<1>6. b * p \in Nat \ {0}
  BY SMT
<1>7. v % (b * p) = r + d * p
  <2> DEFINE bp == b * p  e == r + d * p
  <2>1. bp \in Nat \ {0} /\ e \in 0 .. bp - 1 /\ v = bp * s + e
    BY <1>3, <1>4, <1>5, <1>6
  <2> HIDE DEF bp, e
  <2>2. v % bp = e
    BY <1>2, <2>1, QuotientUnique
  <2> QED
    BY <2>2 DEF bp, e
<1>8. (r + d * p) % p = r
  <2> DEFINE e == r + d * p
  <2>1. e \in Nat /\ e = p * d + r
    BY <1>1, <1>2, <1>3, SMT
  <2> HIDE DEF e
  <2>2. e % p = r
    BY <1>1, <1>2, <2>1, QuotientUnique
  <2> QED
    BY <2>2 DEF e
<1> QED
  BY <1>7, <1>8 DEF d, q, r

(* The sums that from_le_bytes goes through: after k bytes, a number of k  *)
(* bytes.                                                                  *)
IsLow(low, bytes) ==
    /\ low \in [0 .. Len(bytes) -> Nat] /\ low[0] = 0
    /\ \A k \in 1 .. Len(bytes) : low[k] = low[k - 1] + bytes[k] * Values[k - 1]
    /\ \A k \in 0 .. Len(bytes) : low[k] < Values[k]

LEMMA LowExists ==
    ASSUME NEW bytes \in Seq(Byte)
    PROVE  \E low : IsLow(low, bytes) /\ Value(bytes) = low[Len(bytes)]
<1> DEFINE n == Len(bytes)
           D(g) == [k \in 0 .. n |-> IF k = 0 THEN 0
                                     ELSE g[k - 1] + bytes[k] * Values[k - 1]]
           adds(k) == [v \in Nat |-> v + bytes[k] * Values[k - 1]]
           step == [k \in 1 .. n |-> adds(k)]
<1>1. n \in Nat /\ \A k \in 1 .. n : bytes[k] \in 0 .. Base - 1
  BY ElementOfSeq, LenProperties DEF Byte
<1>2. ASSUME NEW k \in 1 .. n
      PROVE  /\ Values[k - 1] \in Nat /\ Values[k - 1] > 0
             /\ bytes[k] * Values[k - 1] \in Nat
             /\ Values[k] = Base * Values[k - 1]
             /\ bytes[k] * Values[k - 1] + Values[k - 1] <= Values[k]
  <2>1. k - 1 \in Nat /\ (k - 1) + 1 = k
    BY <1>1
  <2>2. /\ Values[k - 1] \in Nat /\ Values[k - 1] > 0
        /\ Values[k] = Base * Values[k - 1]
    BY <2>1, ValuesType
  <2>3. bytes[k] \in Nat /\ bytes[k] + 1 <= Base /\ Base \in Nat
    BY <1>1, DataAssumption
  <2> DEFINE d == bytes[k]  p == Values[k - 1]
  <2> HIDE DEF d, p
  <2>4. d \in Nat /\ p \in Nat /\ d + 1 <= Base /\ Base \in Nat
    BY <2>2, <2>3 DEF d, p
  <2>5. d * p \in Nat /\ d * p + p = (d + 1) * p /\ (d + 1) * p <= Base * p
    BY <2>4, SMT
  <2>6. d * p \in Nat /\ d * p + p <= Base * p
    BY <2>4, <2>5
  <2> QED
    BY <2>2, <2>6 DEF d, p
<1>3. step \in [1 .. n -> [Nat -> Nat]]
  <2>1. ASSUME NEW k \in 1 .. n PROVE adds(k) \in [Nat -> Nat]
    BY <1>2
  <2> HIDE DEF adds
  <2> QED
    BY <2>1
<1>4. PICK f : Walks(f, Nat, n, 0, step)
  <2> HIDE DEF step, n
  <2>1. 0 \in Nat
    OBVIOUS
  <2> QED
    BY <1>1, <1>3, <2>1, StepRecursion
<1>5. ASSUME NEW k \in 1 .. n PROVE step[k][f[k - 1]] = f[k - 1] + bytes[k] * Values[k - 1]
  <2>1. f[k - 1] \in Nat
    <3> HIDE DEF step, n
    <3>1. k - 1 \in 0 .. n
      BY <1>1
    <3> QED
      BY <1>1, <1>4, <3>1, WalksInside
  <2> QED
    BY <2>1
<1> HIDE DEF step
<1>6. f = D(f)
  <2>1. ASSUME NEW k \in 0 .. n PROVE f[k] = D(f)[k]
    <3>1. CASE k = 0
      BY <1>4, <3>1 DEF Walks
    <3>2. CASE k # 0
      <4>1. k \in 1 .. n
        BY <1>1, <3>2
      <4> QED
        BY <1>4, <1>5, <3>2, <4>1 DEF Walks
    <3> QED
      BY <3>1, <3>2
  <2> QED
    BY <1>4, <2>1 DEF Walks
<1> DEFINE low == CHOOSE g : g = D(g)
<1>7. low = D(low)
  <2> HIDE DEF D
  <2> QED
    BY <1>6
<1>8. Value(bytes) = low[n]
  BY DEF Value
<1> HIDE DEF low
<1>9. /\ low[0] = 0
      /\ \A k \in 1 .. n : low[k] = low[k - 1] + bytes[k] * Values[k - 1]
  BY <1>1, <1>7
<1> DEFINE G == {k \in Nat : k <= n => low[k] \in Nat /\ low[k] < Values[k]}
<1>10. 0 \in G
  <2>1. low[0] = 0 /\ Values[0] = 1
    BY <1>9, ValuesRec
  <2> QED
    BY <2>1
<1>11. ASSUME NEW k \in Nat, k \in G PROVE k + 1 \in G
  <2> SUFFICES ASSUME k + 1 <= n PROVE low[k + 1] \in Nat /\ low[k + 1] < Values[k + 1]
    OBVIOUS
  <2>1. k + 1 \in 1 .. n /\ (k + 1) - 1 = k
    BY <1>1
  <2>2. low[k] \in Nat /\ low[k] < Values[k]
    BY <1>11, <2>1
  <2>3. low[k + 1] = low[k] + bytes[k + 1] * Values[k]
    BY <1>9, <2>1
  <2>4. /\ Values[k] \in Nat /\ Values[k + 1] \in Nat
        /\ bytes[k + 1] * Values[k] \in Nat
        /\ bytes[k + 1] * Values[k] + Values[k] <= Values[k + 1]
    <3>1. /\ Values[k] \in Nat /\ Values[k + 1] \in Nat
      <4>1. k + 1 \in Nat
        OBVIOUS
      <4> QED
        BY <4>1, ValuesType
    <3>2. /\ bytes[k + 1] * Values[(k + 1) - 1] \in Nat
          /\ bytes[k + 1] * Values[(k + 1) - 1] + Values[(k + 1) - 1] <= Values[k + 1]
      BY <1>2, <2>1
    <3> QED
      BY <2>1, <3>1, <3>2
  <2> DEFINE e == bytes[k + 1] * Values[k]
  <2> HIDE DEF e
  <2>5. e \in Nat /\ e + Values[k] <= Values[k + 1] /\ low[k + 1] = low[k] + e
    BY <2>3, <2>4 DEF e
  <2> QED
    BY <2>2, <2>4, <2>5
<1> HIDE DEF G
<1>12. Nat \subseteq G
  BY <1>10, <1>11, SetInduction
<1>13. \A k \in 0 .. n : low[k] \in Nat /\ low[k] < Values[k]
  BY <1>12 DEF G
<1>14. low \in [0 .. n -> Nat]
  <2>1. low = [k \in 0 .. n |-> low[k]]
    BY <1>7
  <2> QED
    BY <1>13, <2>1
<1>15. IsLow(low, bytes)
  BY <1>9, <1>13, <1>14 DEF IsLow
<1> QED
  BY <1>8, <1>15

\* A number and its bytes, both ways.
LEMMA LEType ==
    ASSUME NEW v \in Nat, NEW w \in Nat
    PROVE  LE(v, w) \in [1 .. w -> Byte]
<1>1. ASSUME NEW k \in 1 .. w PROVE (v \div Values[k - 1]) % Base \in Byte
  <2>1. k - 1 \in Nat
    OBVIOUS
  <2>2. Values[k - 1] \in Nat \ {0}
    BY <2>1, ValuesRec
  <2>3. v \div Values[k - 1] \in Nat
    BY <2>2, Quotient
  <2>4. (v \div Values[k - 1]) % Base \in 0 .. Base - 1
    BY <2>3, Quotient, BasePositive
  <2> QED
    BY <2>4 DEF Byte
<1> QED
  BY <1>1 DEF LE

LEMMA ValueType ==
    ASSUME NEW bytes \in Seq(Byte)
    PROVE  Value(bytes) \in Unsigned(Len(bytes))
<1>1. PICK low : IsLow(low, bytes) /\ Value(bytes) = low[Len(bytes)]
  BY LowExists
<1>2. Len(bytes) \in Nat
  BY LenProperties
<1>3. low[Len(bytes)] \in Nat /\ low[Len(bytes)] < Values[Len(bytes)]
  BY <1>1, <1>2 DEF IsLow
<1>4. Values[Len(bytes)] \in Nat
  BY <1>2, ValuesType
<1> QED
  BY <1>1, <1>3, <1>4 DEF Unsigned

LEMMA ValueOfLE ==
    ASSUME NEW w \in Nat, NEW v \in Unsigned(w)
    PROVE  Value(LE(v, w)) = v
<1> DEFINE bytes == LE(v, w)
<1>1. v \in Nat /\ v < Values[w] /\ Values[w] \in Nat
  BY ValuesType DEF Unsigned
<1>2. bytes \in [1 .. w -> Byte]
  BY <1>1, LEType
<1>3. bytes \in Seq(Byte) /\ Len(bytes) = w
  BY <1>2
<1>4. PICK low : IsLow(low, bytes) /\ Value(bytes) = low[w]
  BY <1>3, LowExists
<1>5. /\ low[0] = 0
      /\ \A k \in 1 .. w : low[k] = low[k - 1] + bytes[k] * Values[k - 1]
  BY <1>3, <1>4 DEF IsLow
<1>6. \A k \in 1 .. w : bytes[k] = (v \div Values[k - 1]) % Base
  BY DEF LE
<1> HIDE DEF bytes
<1> DEFINE G == {k \in Nat : k <= w => low[k] = v % Values[k]}
<1>7. 0 \in G
  <2>1. Values[0] = 1 /\ v % 1 = 0
    BY <1>1, ValuesRec
  <2> QED
    BY <1>5, <2>1
<1>8. ASSUME NEW k \in Nat, k \in G PROVE k + 1 \in G
  <2> SUFFICES ASSUME k + 1 <= w PROVE low[k + 1] = v % Values[k + 1]
    OBVIOUS
  <2>1. k + 1 \in 1 .. w /\ (k + 1) - 1 = k /\ k <= w
    OBVIOUS
  <2>2. low[k + 1] = low[k] + bytes[k + 1] * Values[k]
    BY <1>5, <2>1
  <2>3. bytes[k + 1] = (v \div Values[k]) % Base
    BY <1>6, <2>1
  <2>4. Values[k] \in Nat \ {0} /\ Values[k + 1] = Base * Values[k]
    BY ValuesRec
  <2>5. v % (Base * Values[k]) = (v % Values[k]) + ((v \div Values[k]) % Base) * Values[k]
    BY <1>1, <2>4, DigitStep, BasePositive
  <2>6. low[k] = v % Values[k]
    BY <1>8, <2>1
  <2> QED
    BY <2>2, <2>3, <2>4, <2>5, <2>6
<1> HIDE DEF G
<1>9. Nat \subseteq G
  BY <1>7, <1>8, SetInduction
<1>10. low[w] = v % Values[w]
  BY <1>9 DEF G
<1>11. v % Values[w] = v
  BY <1>1, SMT
<1> QED
  BY <1>4, <1>10, <1>11 DEF bytes

LEMMA LEOfValue ==
    ASSUME NEW bytes \in Seq(Byte)
    PROVE  LE(Value(bytes), Len(bytes)) = bytes
<1> DEFINE w == Len(bytes)  v == Value(bytes)
<1>1. PICK low : IsLow(low, bytes) /\ v = low[w]
  BY LowExists
<1>2. w \in Nat /\ v \in Nat
  BY ValueType, LenProperties DEF Unsigned
<1>3. /\ low \in [0 .. w -> Nat]
      /\ \A k \in 1 .. w : low[k] = low[k - 1] + bytes[k] * Values[k - 1]
      /\ \A k \in 0 .. w : low[k] < Values[k]
  BY <1>1 DEF IsLow
<1>4. \A k \in 1 .. w : bytes[k] \in 0 .. Base - 1
  BY ElementOfSeq DEF Byte
<1> HIDE DEF w, v
(* Going down from all the bytes: the first k make v modulo k bytes.       *)
<1> DEFINE G == {j \in Nat : j <= w => low[w - j] = v % Values[w - j]}
<1>5. 0 \in G
  <2>1. Values[w] \in Nat \ {0} /\ low[w] < Values[w]
    BY <1>2, <1>3, ValuesRec
  <2>2. v % Values[w] = v
    BY <1>1, <1>2, <2>1, SMT
  <2> QED
    BY <1>1, <1>2, <2>2
<1>6. ASSUME NEW j \in Nat, j \in G PROVE j + 1 \in G
  <2> SUFFICES ASSUME j + 1 <= w PROVE low[w - (j + 1)] = v % Values[w - (j + 1)]
    OBVIOUS
  <2>1. PICK k \in Nat : k = w - (j + 1)
    BY <1>2
  <2>2. k + 1 = w - j /\ k + 1 \in 1 .. w /\ (k + 1) - 1 = k /\ k \in 0 .. w
    BY <1>2, <2>1
  <2>3. low[k + 1] = v % Values[k + 1]
    <3>1. j <= w
      BY <1>2
    <3>2. low[w - j] = v % Values[w - j]
      BY <1>6, <3>1
    <3> QED
      BY <2>2, <3>2
  <2>4. Values[k] \in Nat \ {0} /\ Values[k + 1] = Base * Values[k]
    BY ValuesRec
  <2>5. (v % Values[k + 1]) % Values[k] = v % Values[k]
    <3>1. (v % (Base * Values[k])) % Values[k] = v % Values[k]
      BY <1>2, <2>4, DigitStep, BasePositive
    <3> QED
      BY <2>4, <3>1
  <2>6. low[k + 1] = low[k] + bytes[k + 1] * Values[k]
    BY <1>3, <2>2
  <2>7. /\ low[k] \in 0 .. Values[k] - 1 /\ low[k + 1] \in Nat
        /\ bytes[k + 1] \in Nat
    BY <1>3, <1>4, <2>2, <2>4
  <2>8. low[k + 1] % Values[k] = low[k]
    <3> DEFINE p == Values[k]  q == bytes[k + 1]  r == low[k]  x == low[k + 1]
    <3> HIDE DEF p, q, r, x
    <3>1. /\ p \in Nat \ {0} /\ q \in Nat /\ r \in 0 .. p - 1 /\ x \in Nat
          /\ x = r + q * p
      BY <2>4, <2>6, <2>7 DEF p, q, r, x
    <3>2. x = p * q + r
      BY <3>1, SMT
    <3>3. x % p = r
      BY <3>1, <3>2, QuotientUnique
    <3> QED
      BY <3>3 DEF p, r, x
  <2> QED
    BY <2>1, <2>3, <2>5, <2>8
<1> HIDE DEF G
<1>7. Nat \subseteq G
  BY <1>5, <1>6, SetInduction
<1>8. ASSUME NEW k \in 0 .. w PROVE low[k] = v % Values[k]
  <2>1. w - k \in Nat /\ w - k <= w /\ w - (w - k) = k
    BY <1>2
  <2> QED
    BY <1>7, <2>1 DEF G
<1>9. ASSUME NEW k \in 1 .. w PROVE (v \div Values[k - 1]) % Base = bytes[k]
  <2> DEFINE p == Values[k - 1]  d == (v \div p) % Base
  <2>1. k - 1 \in Nat /\ k - 1 \in 0 .. w /\ k \in 0 .. w /\ (k - 1) + 1 = k
    BY <1>2
  <2>2. p \in Nat \ {0} /\ Values[k] = Base * p
    BY <2>1, ValuesRec
  <2>3. v % (Base * p) = (v % p) + d * p
    BY <1>2, <2>2, DigitStep, BasePositive
  <2>4. low[k] = low[k - 1] + bytes[k] * p
    BY <1>3
  <2>5. low[k] = v % (Base * p) /\ low[k - 1] = v % p
    BY <1>8, <2>1, <2>2
  <2>6. low[k - 1] \in Nat /\ bytes[k] \in Nat
    BY <1>3, <1>4, <2>1, DataAssumption
  <2>7. d \in Nat
    <3>1. v \div p \in Nat
      BY <1>2, <2>2, Quotient
    <3> QED
      BY <3>1, Quotient, BasePositive
  <2> HIDE DEF p, d
  <2>8. bytes[k] * p = d * p
    BY <2>2, <2>3, <2>4, <2>5, <2>6, <2>7, SMT
  <2>9. bytes[k] = d
    BY <2>2, <2>6, <2>7, <2>8, SMT
  <2> QED
    BY <2>9 DEF d, p
<1>10. LE(v, w) = [k \in 1 .. w |-> bytes[k]]
  BY <1>9 DEF LE
<1>11. bytes = [k \in 1 .. w |-> bytes[k]]
  BY LenProperties DEF w
<1> QED
  BY <1>10, <1>11 DEF v, w

-----------------------------------------------------------------------------
(* Fields one after the other                                              *)

\* The data d begins with p.
Starts(d, p) == Len(p) <= Len(d) /\ SubSeq(d, 1, Len(p)) = p

\* A piece of a sequence: w elements after the first m.
LEMMA Piece ==
    ASSUME NEW S, NEW d \in Seq(S), NEW m \in Nat, NEW w \in Nat, m + w <= Len(d)
    PROVE  /\ SubSeq(d, m + 1, m + w) \in Seq(S)
           /\ Len(SubSeq(d, m + 1, m + w)) = w
           /\ \A i \in 1 .. w : SubSeq(d, m + 1, m + w)[i] = d[m + i]
<1>1. PICK x \in Int, y \in Int : x = m + 1 /\ y = m + w
  OBVIOUS
<1>2. \A i \in x .. y : d[i] \in S
  <2>1. \A i \in x .. y : i \in 1 .. Len(d)
    BY <1>1, LenProperties
  <2> QED
    BY <2>1, ElementOfSeq
<1> DEFINE s == SubSeq(d, x, y)
<1>3. /\ s \in Seq(S) /\ Len(s) = IF x <= y THEN y - x + 1 ELSE 0
      /\ \A i \in 1 .. y - x + 1 : s[i] = d[x + i - 1]
  BY <1>2, SubSeqProperties
<1> HIDE DEF s
<1>4. Len(s) = w
  BY <1>1, <1>3
<1>5. ASSUME NEW i \in 1 .. w PROVE s[i] = d[m + i]
  <2>1. i \in 1 .. y - x + 1 /\ x + i - 1 = m + i
    BY <1>1
  <2> QED
    BY <1>3, <2>1
<1> QED
  BY <1>1, <1>3, <1>4, <1>5 DEF s

LEMMA PieceAt ==
    ASSUME NEW S, NEW d \in Seq(S), NEW f \in Seq(S), NEW m \in Nat,
           m + Len(f) <= Len(d)
    PROVE  SubSeq(d, m + 1, m + Len(f)) = f <=> \A j \in 1 .. Len(f) : d[m + j] = f[j]
<1> DEFINE n == Len(f)  s == SubSeq(d, m + 1, m + n)
<1>1. n \in Nat
  BY LenProperties
<1>2. s \in Seq(S) /\ Len(s) = n /\ \A i \in 1 .. n : s[i] = d[m + i]
  BY <1>1, Piece
<1> HIDE DEF s, n
<1>3. ASSUME \A j \in 1 .. n : d[m + j] = f[j] PROVE s = f
  BY <1>2, <1>3, SeqEqual DEF n
<1> QED
  BY <1>2, <1>3 DEF s, n

LEMMA StartsAt ==
    ASSUME NEW S, NEW d \in Seq(S), NEW p \in Seq(S)
    PROVE  Starts(d, p) <=> Len(p) <= Len(d) /\ \A i \in 1 .. Len(p) : d[i] = p[i]
<1>1. Len(p) \in Nat /\ Len(d) \in Nat
  BY LenProperties
<1>2. 0 \in Nat /\ 0 + 1 = 1 /\ 0 + Len(p) = Len(p) /\ \A i \in 1 .. Len(p) : 0 + i = i
  BY <1>1
<1>3. ASSUME Len(p) <= Len(d)
      PROVE  SubSeq(d, 1, Len(p)) = p <=> \A i \in 1 .. Len(p) : d[i] = p[i]
  <2>1. SubSeq(d, 0 + 1, 0 + Len(p)) = p <=> \A j \in 1 .. Len(p) : d[0 + j] = p[j]
    BY <1>2, <1>3, PieceAt
  <2> QED
    BY <1>2, <2>1
<1> QED
  BY <1>3 DEF Starts

\* The data begins with a and then f.
LEMMA StartsOn ==
    ASSUME NEW S, NEW d \in Seq(S), NEW a \in Seq(S), NEW f \in Seq(S)
    PROVE  /\ a \o f \in Seq(S) /\ Len(a \o f) = Len(a) + Len(f)
           /\ Starts(d, a \o f) <=> /\ Starts(d, a)
                                    /\ Len(a) + Len(f) <= Len(d)
                                    /\ SubSeq(d, Len(a) + 1, Len(a) + Len(f)) = f
<1> DEFINE p == a \o f  m == Len(a)  n == Len(f)
<1>1. m \in Nat /\ n \in Nat /\ Len(d) \in Nat
  BY LenProperties
<1>2. /\ p \in Seq(S) /\ Len(p) = m + n
      /\ \A i \in 1 .. m + n : p[i] = IF i <= m THEN a[i] ELSE f[i - m]
  BY ConcatProperties
<1> HIDE DEF p
<1>3. Starts(d, p) <=> m + n <= Len(d) /\ \A i \in 1 .. m + n : d[i] = p[i]
  BY <1>2, StartsAt
<1>4. Starts(d, a) <=> m <= Len(d) /\ \A i \in 1 .. m : d[i] = a[i]
  BY StartsAt
<1>5. m + n <= Len(d) =>
        (SubSeq(d, m + 1, m + n) = f <=> \A j \in 1 .. n : d[m + j] = f[j])
  BY <1>1, PieceAt
<1>6. (\A i \in 1 .. m + n : d[i] = p[i]) <=>
        (\A i \in 1 .. m : d[i] = a[i]) /\ (\A j \in 1 .. n : d[m + j] = f[j])
  <2>1. ASSUME \A i \in 1 .. m + n : d[i] = p[i]
        PROVE  (\A i \in 1 .. m : d[i] = a[i]) /\ (\A j \in 1 .. n : d[m + j] = f[j])
    <3>1. ASSUME NEW i \in 1 .. m PROVE d[i] = a[i]
      BY <1>1, <1>2, <2>1
    <3>2. ASSUME NEW j \in 1 .. n PROVE d[m + j] = f[j]
      <4>1. m + j \in 1 .. m + n /\ ~(m + j <= m) /\ (m + j) - m = j
        BY <1>1
      <4> QED
        BY <1>2, <2>1, <4>1
    <3> QED
      BY <3>1, <3>2
  <2>2. ASSUME \A i \in 1 .. m : d[i] = a[i], \A j \in 1 .. n : d[m + j] = f[j],
               NEW i \in 1 .. m + n
        PROVE  d[i] = p[i]
    <3>1. CASE i <= m
      BY <1>1, <1>2, <2>2, <3>1
    <3>2. CASE ~(i <= m)
      <4>1. i - m \in 1 .. n /\ m + (i - m) = i
        BY <1>1, <3>2
      <4>2. d[m + (i - m)] = f[i - m]
        BY <2>2, <4>1
      <4> QED
        BY <1>2, <3>2, <4>1, <4>2
    <3> QED
      BY <3>1, <3>2
  <2> QED
    BY <2>1, <2>2
<1>7. Starts(d, p) <=> Starts(d, a) /\ m + n <= Len(d) /\ SubSeq(d, m + 1, m + n) = f
  BY <1>1, <1>3, <1>4, <1>5, <1>6
<1> QED
  BY <1>2, <1>7 DEF p

LEMMA StartsOnBytes ==
    ASSUME NEW d \in Seq(Byte), NEW a \in Seq(Byte), NEW f \in Seq(Byte)
    PROVE  /\ a \o f \in Seq(Byte) /\ Len(a \o f) = Len(a) + Len(f)
           /\ Starts(d, a \o f) <=> /\ Starts(d, a)
                                    /\ Len(a) + Len(f) <= Len(d)
                                    /\ SubSeq(d, Len(a) + 1, Len(a) + Len(f)) = f
BY StartsOn

\* A piece of the data, as unpack takes it from what follows the tag.
LEMMA GetIsPiece ==
    ASSUME NEW d \in Seq(Byte), d # <<>>, NEW at \in Nat, NEW w \in Nat,
           at + w <= Len(Tail(d))
    PROVE  /\ Get(Tail(d), at, at + w) = SubSeq(d, at + 2, at + w + 1)
           /\ Get(Tail(d), at, at + w) \in Seq(Byte)
           /\ Len(Get(Tail(d), at, at + w)) = w
<1> DEFINE rest == Tail(d)  g == SubSeq(rest, at + 1, at + w)
           m == at + 1  s == SubSeq(d, m + 1, m + w)
<1>1. /\ rest \in Seq(Byte) /\ Len(rest) = Len(d) - 1
      /\ \A i \in 1 .. Len(rest) : rest[i] = d[i + 1]
      /\ Len(d) \in Nat /\ Len(rest) \in Nat /\ at + w <= Len(rest)
  BY HeadTailProperties, LenProperties
<1> HIDE DEF rest
<1>2. m \in Nat /\ m + w <= Len(d)
  BY <1>1
<1>3. g \in Seq(Byte) /\ Len(g) = w /\ \A i \in 1 .. w : g[i] = rest[at + i]
  BY <1>1, Piece
<1> HIDE DEF m
<1>4. s \in Seq(Byte) /\ Len(s) = w /\ \A i \in 1 .. w : s[i] = d[m + i]
  BY <1>2, Piece
<1> HIDE DEF g, s
<1>5. ASSUME NEW i \in 1 .. w PROVE g[i] = s[i]
  <2>1. at + i \in 1 .. Len(rest) /\ (at + i) + 1 = m + i
    BY <1>1 DEF m
  <2>2. rest[at + i] = d[(at + i) + 1]
    BY <1>1, <2>1
  <2> QED
    BY <1>3, <1>4, <2>1, <2>2
<1>6. g = s
  BY <1>3, <1>4, <1>5, SeqEqual
<1>7. m + 1 = at + 2 /\ m + w = at + w + 1
  BY DEF m
<1> QED
  BY <1>3, <1>6, <1>7 DEF g, s, rest, Get

\* Data up to a place: the tag, and `at' bytes after it.
Upto(a, at) == a \in Seq(Byte) /\ Len(a) = at + 1
Bytes(w)    == [1 .. w -> Byte]

\* Data with a tag, and a field of w bytes in what follows it.
Tagged(d)         == d \in Seq(Byte) /\ d # <<>>
Field(at, w, to)  == at \in Nat /\ w \in Nat /\ to = at + w

\* A field of w bytes, by its bytes.
LEMMA BytesAt ==
    ASSUME NEW r \in Seq(Byte), NEW at, NEW w, NEW to, Field(at, w, to),
           NEW f \in Bytes(w), to <= Len(r)
    PROVE  Get(r, at, to) = f <=> \A j \in 1 .. w : r[at + j] = f[j]
<1>0. at \in Nat /\ w \in Nat /\ to = at + w
  BY DEF Field
<1>1. f \in Seq(Byte) /\ at + Len(f) <= Len(r)
  BY <1>0 DEF Bytes
<1>2. SubSeq(r, at + 1, at + Len(f)) = f <=> \A j \in 1 .. Len(f) : r[at + j] = f[j]
  BY <1>0, <1>1, PieceAt
<1>3. Len(f) = w
  BY <1>0 DEF Bytes
<1> QED
  BY <1>0, <1>2, <1>3 DEF Get

\* The data goes on with a field of w bytes where unpack reads it.
LEMMA NextField ==
    ASSUME NEW d, Tagged(d), NEW at, NEW w, NEW to, Field(at, w, to),
           NEW a, Upto(a, at), NEW f \in Bytes(w)
    PROVE  /\ Upto(a \o f, to)
           /\ Starts(d, a \o f) <=> /\ Starts(d, a)
                                    /\ to <= Len(Tail(d))
                                    /\ Get(Tail(d), at, to) = f
<1>0. /\ d \in Seq(Byte) /\ d # <<>>
      /\ at \in Nat /\ w \in Nat /\ to = at + w
  BY DEF Tagged, Field
<1>1. f \in Seq(Byte) /\ Len(f) = w
  BY <1>0 DEF Bytes
<1>2. a \in Seq(Byte)
  BY DEF Upto
<1>3. /\ a \o f \in Seq(Byte) /\ Len(a \o f) = Len(a) + Len(f)
      /\ Starts(d, a \o f) <=> /\ Starts(d, a)
                               /\ Len(a) + Len(f) <= Len(d)
                               /\ SubSeq(d, Len(a) + 1, Len(a) + Len(f)) = f
  <2>1. d \in Seq(Byte) /\ a \in Seq(Byte) /\ f \in Seq(Byte)
    BY <1>0, <1>1, <1>2
  <2> QED
    BY <2>1, StartsOnBytes
<1>4. Len(Tail(d)) = Len(d) - 1 /\ Len(d) \in Nat
  BY <1>0, HeadTailProperties, LenProperties
<1>5. Len(a) + Len(f) = to + 1 /\ Len(a) + 1 = at + 2 /\ to + 1 = at + w + 1
  BY <1>0, <1>1 DEF Upto
<1>6. Len(a) + Len(f) <= Len(d) <=> to <= Len(Tail(d))
  BY <1>0, <1>4, <1>5
<1>7. to <= Len(Tail(d)) => Get(Tail(d), at, to) = SubSeq(d, at + 2, to + 1)
  <2>1. at + w <= Len(Tail(d)) =>
          Get(Tail(d), at, at + w) = SubSeq(d, at + 2, at + w + 1)
    BY <1>0, GetIsPiece
  <2> QED
    BY <1>0, <2>1
<1>8. Upto(a \o f, to)
  BY <1>3, <1>5 DEF Upto
<1> QED
  BY <1>3, <1>5, <1>6, <1>7, <1>8

\* What unpack reads as a field, a number or a variant.
LEMMA ReadType ==
    ASSUME NEW d, Tagged(d), NEW at, NEW w, NEW to, Field(at, w, to),
           to <= Len(Tail(d))
    PROVE  /\ Get(Tail(d), at, to) \in Bytes(w)
           /\ Num(Tail(d), at, to) \in Unsigned(w)
           /\ LE(Num(Tail(d), at, to), w) = Get(Tail(d), at, to)
<1> DEFINE g == Get(Tail(d), at, to)
<1>0. /\ d \in Seq(Byte) /\ d # <<>>
      /\ at \in Nat /\ w \in Nat /\ to = at + w
  BY DEF Tagged, Field
<1>1. g \in Seq(Byte) /\ Len(g) = w
  BY <1>0, GetIsPiece
<1>2. Value(g) = Num(Tail(d), at, to)
  BY DEF Num
<1> HIDE DEF g
<1>3. g \in Bytes(w)
  <2>1. g \in [1 .. Len(g) -> Byte]
    BY <1>1, LenProperties
  <2> QED
    BY <1>1, <2>1 DEF Bytes
<1>4. Value(g) \in Unsigned(w) /\ LE(Value(g), w) = g
  <2>1. Value(g) \in Unsigned(Len(g)) /\ LE(Value(g), Len(g)) = g
    BY <1>1, ValueType, LEOfValue
  <2> QED
    BY <1>1, <2>1
<1> QED
  BY <1>2, <1>3, <1>4 DEF g

LEMMA UnsignedIsNat ==
    ASSUME NEW w \in Nat, NEW v \in Unsigned(w)
    PROVE  v \in Nat
BY ValuesType DEF Unsigned

LEMMA NumberAt ==
    ASSUME NEW d, Tagged(d), NEW at, NEW w, NEW to, Field(at, w, to),
           NEW v \in Unsigned(w), to <= Len(Tail(d))
    PROVE  Get(Tail(d), at, to) = LE(v, w) <=> Num(Tail(d), at, to) = v
<1>1. LE(Num(Tail(d), at, to), w) = Get(Tail(d), at, to)
  BY ReadType
<1>2. Value(LE(v, w)) = v
  BY ValueOfLE DEF Field
<1>3. Get(Tail(d), at, to) = LE(v, w) => Num(Tail(d), at, to) = v
  BY <1>2 DEF Num
<1> QED
  BY <1>1, <1>3

LEMMA NextNumber ==
    ASSUME NEW d, Tagged(d), NEW at, NEW w, NEW to, Field(at, w, to),
           NEW a, Upto(a, at), NEW v \in Unsigned(w)
    PROVE  /\ Upto(a \o LE(v, w), to)
           /\ Starts(d, a \o LE(v, w)) <=> /\ Starts(d, a)
                                           /\ to <= Len(Tail(d))
                                           /\ Num(Tail(d), at, to) = v
<1> DEFINE f == LE(v, w)
<1>1. f \in Bytes(w)
  BY UnsignedIsNat, LEType DEF Bytes, Field
<1>2. to <= Len(Tail(d)) => (Get(Tail(d), at, to) = f <=> Num(Tail(d), at, to) = v)
  BY NumberAt
<1> HIDE DEF f
<1>3. /\ Upto(a \o f, to)
      /\ Starts(d, a \o f) <=> /\ Starts(d, a)
                               /\ to <= Len(Tail(d))
                               /\ Get(Tail(d), at, to) = f
  BY <1>1, NextField
<1> QED
  BY <1>2, <1>3 DEF f

(* A byte that stands for a variant: the variants are few, all different,  *)
(* and none of them is the one that an unknown byte reads as.              *)
Variants(vs) ==
    /\ Len(vs) \in 1 .. 8 /\ DOMAIN vs = 1 .. Len(vs)
    /\ \A b \in 1 .. Len(vs) : vs[b] # "unknown"
    /\ \A b, c \in 1 .. Len(vs) : vs[b] = vs[c] => b = c

LEMMA NextVariantAt ==
    ASSUME NEW d, Tagged(d), NEW at, NEW to, Field(at, 1, to), NEW a, Upto(a, at),
           NEW vs, Variants(vs), NEW b \in 1 .. Len(vs)
    PROVE  /\ Upto(a \o ByteOf(vs[b], vs), to)
           /\ Starts(d, a \o ByteOf(vs[b], vs)) <=>
                /\ Starts(d, a)
                /\ to <= Len(Tail(d))
                /\ Variant(Tail(d), at, vs) = vs[b]
<1>0. /\ d \in Seq(Byte) /\ d # <<>> /\ at \in Nat /\ to = at + 1
  BY DEF Tagged, Field
<1>1. /\ Len(vs) \in 1 .. 8 /\ DOMAIN vs = 1 .. Len(vs) /\ b \in Nat
      /\ \A c \in 1 .. Len(vs) : vs[c] = vs[b] => c = b
      /\ \A c \in 1 .. Len(vs) : vs[c] # "unknown"
  <2> DEFINE n == Len(vs)
  <2>1. /\ n \in 1 .. 8 /\ DOMAIN vs = 1 .. n /\ b \in 1 .. n
        /\ \A c \in 1 .. n : vs[c] # "unknown"
        /\ \A e, c \in 1 .. n : vs[e] = vs[c] => e = c
    BY DEF Variants
  <2> HIDE DEF n
  <2>2. b \in Nat /\ \A c \in 1 .. n : vs[c] = vs[b] => c = b
    BY <2>1
  <2> QED
    BY <2>1, <2>2 DEF n
<1>2. (CHOOSE c \in DOMAIN vs : vs[c] = vs[b]) = b
  BY <1>1
<1>3. ByteOf(vs[b], vs) = <<b - 1>>
  BY <1>2 DEF ByteOf
<1>4. b - 1 \in Byte
  <2>1. b \in 1 .. 8
    BY <1>1
  <2> QED
    BY <2>1, DataAssumption DEF Byte
<1> DEFINE f == <<b - 1>>
<1>5. f \in Bytes(1)
  BY <1>4 DEF Bytes
<1> HIDE DEF f
<1>6. /\ Upto(a \o f, to)
      /\ Starts(d, a \o f) <=> /\ Starts(d, a)
                               /\ to <= Len(Tail(d))
                               /\ Get(Tail(d), at, to) = f
  BY <1>5, NextField
<1>7. ASSUME to <= Len(Tail(d))
      PROVE  Get(Tail(d), at, to) = f <=> Variant(Tail(d), at, vs) = vs[b]
  <2> DEFINE rest == Tail(d)  x == rest[at + 1]
  <2>1. rest \in Seq(Byte) /\ Len(rest) \in Nat
    BY <1>0, HeadTailProperties, LenProperties
  <2>2. x \in Byte
    <3>1. at + 1 \in 1 .. Len(rest)
      BY <1>0, <1>7, <2>1
    <3> HIDE DEF rest
    <3> QED
      BY <2>1, <3>1, ElementOfSeq
  <2>3. Get(rest, at, to) = f <=> x = b - 1
    <3>1. f[1] = b - 1 /\ to <= Len(rest)
      BY <1>7 DEF f
    <3> HIDE DEF rest, f
    <3>2. Get(rest, at, to) = f <=> \A j \in 1 .. 1 : rest[at + j] = f[j]
      BY <1>5, <2>1, <3>1, BytesAt
    <3> QED
      BY <3>1, <3>2
  <2>4. Variant(rest, at, vs) = IF x < Len(vs) THEN vs[x + 1] ELSE "unknown"
    BY DEF Variant
  <2>5. x \in Nat
    BY <2>2, ByteIsNat
  <2> HIDE DEF rest, x
  <2>6. Variant(rest, at, vs) = vs[b] <=> x = b - 1
    <3>1. CASE x < Len(vs)
      <4>1. x + 1 \in 1 .. Len(vs)
        BY <1>1, <2>5, <3>1
      <4>2. vs[x + 1] = vs[b] <=> x + 1 = b
        BY <1>1, <4>1
      <4> QED
        BY <1>1, <2>4, <2>5, <3>1, <4>2
    <3>2. CASE ~(x < Len(vs))
      BY <1>1, <2>4, <2>5, <3>2
    <3> QED
      BY <3>1, <3>2
  <2> QED
    BY <1>0, <2>3, <2>6 DEF rest
<1> QED
  BY <1>3, <1>6, <1>7 DEF f

IsVariant(v, vs) == \E b \in 1 .. Len(vs) : v = vs[b]

LEMMA NextVariant ==
    ASSUME NEW d, Tagged(d), NEW at, NEW to, Field(at, 1, to), NEW a, Upto(a, at),
           NEW vs, Variants(vs), NEW v, IsVariant(v, vs)
    PROVE  /\ Upto(a \o ByteOf(v, vs), to)
           /\ Starts(d, a \o ByteOf(v, vs)) <=> /\ Starts(d, a)
                                                /\ to <= Len(Tail(d))
                                                /\ Variant(Tail(d), at, vs) = v
<1>1. PICK b \in 1 .. Len(vs) : v = vs[b]
  BY DEF IsVariant
<1> DEFINE Claim(x) == /\ Upto(a \o ByteOf(x, vs), to)
                       /\ Starts(d, a \o ByteOf(x, vs)) <=>
                            /\ Starts(d, a)
                            /\ to <= Len(Tail(d))
                            /\ Variant(Tail(d), at, vs) = x
<1>2. Claim(vs[b])
  BY NextVariantAt
<1> HIDE DEF Claim
<1>3. Claim(v)
  BY <1>1, <1>2
<1> QED
  BY <1>3 DEF Claim

\* The byte of a variant is read as one of them, or as none.
LEMMA ReadVariant ==
    ASSUME NEW d, Tagged(d), NEW at, NEW to, Field(at, 1, to), to <= Len(Tail(d)),
           NEW vs, Variants(vs), Variant(Tail(d), at, vs) # "unknown"
    PROVE  IsVariant(Variant(Tail(d), at, vs), vs)
<1> DEFINE rest == Tail(d)  x == rest[at + 1]
<1>1. d \in Seq(Byte) /\ d # <<>> /\ at \in Nat /\ to = at + 1
  BY DEF Tagged, Field
<1>2. rest \in Seq(Byte) /\ Len(rest) \in Nat
  BY <1>1, HeadTailProperties, LenProperties
<1>3. at + 1 \in 1 .. Len(rest)
  BY <1>1, <1>2
<1>4. Variant(rest, at, vs) = IF x < Len(vs) THEN vs[x + 1] ELSE "unknown"
  BY DEF Variant
<1> HIDE DEF rest
<1>5. x \in Nat
  BY <1>2, <1>3, ElementOfSeq, ByteIsNat
<1> HIDE DEF x
<1>6. Variant(rest, at, vs) # "unknown"
  BY DEF rest
<1>7. Len(vs) \in Nat
  BY DEF Variants
<1>8. x + 1 \in 1 .. Len(vs) /\ Variant(rest, at, vs) = vs[x + 1]
  BY <1>4, <1>5, <1>6, <1>7
<1>9. IsVariant(Variant(rest, at, vs), vs)
  BY <1>8 DEF IsVariant
<1> QED
  BY <1>9 DEF rest

\* The three enumerations.
LEMMA Enumerations ==
    /\ Variants(Sides) /\ Variants(OrderTypes) /\ Variants(SelfTrades)
    /\ \A v : IsVariant(v, Sides) <=> v \in {"Bid", "Ask"}
    /\ \A v : IsVariant(v, OrderTypes) <=> v \in {"Limit", "ImmediateOrCancel", "PostOnly"}
    /\ \A v : IsVariant(v, SelfTrades) <=>
               v \in {"DecrementTake", "CancelProvide", "AbortTransaction"}
<1>1. /\ Len(Sides) = 2 /\ DOMAIN Sides = 1 .. 2 /\ Sides[1] = "Bid" /\ Sides[2] = "Ask"
  BY DEF Sides
<1>2. /\ Len(OrderTypes) = 3 /\ DOMAIN OrderTypes = 1 .. 3 /\ OrderTypes[1] = "Limit"
      /\ OrderTypes[2] = "ImmediateOrCancel" /\ OrderTypes[3] = "PostOnly"
  BY DEF OrderTypes
<1>3. /\ Len(SelfTrades) = 3 /\ DOMAIN SelfTrades = 1 .. 3
      /\ SelfTrades[1] = "DecrementTake" /\ SelfTrades[2] = "CancelProvide"
      /\ SelfTrades[3] = "AbortTransaction"
  BY DEF SelfTrades
<1>4. 1 .. 2 = {1, 2} /\ 1 .. 3 = {1, 2, 3}
  OBVIOUS
<1>5. Variants(Sides) /\ \A v : IsVariant(v, Sides) <=> v \in {"Bid", "Ask"}
  BY <1>1, <1>4 DEF Variants, IsVariant
<1>6. /\ Variants(OrderTypes)
      /\ \A v : IsVariant(v, OrderTypes) <=> v \in {"Limit", "ImmediateOrCancel", "PostOnly"}
  BY <1>2, <1>4 DEF Variants, IsVariant
<1>7. /\ Variants(SelfTrades)
      /\ \A v : IsVariant(v, SelfTrades) <=>
               v \in {"DecrementTake", "CancelProvide", "AbortTransaction"}
  BY <1>3, <1>4 DEF Variants, IsVariant
<1> QED
  BY <1>5, <1>6, <1>7

\* The piece that a place of joined pieces is in, and the place in it.
LEMMA PlaceInPieces ==
    ASSUME NEW w \in Nat \ {0}, NEW n \in Nat, NEW j \in 1 .. w * n
    PROVE  /\ (j - 1) \div w + 1 \in 1 .. n
           /\ ((j - 1) % w) + 1 \in 1 .. w
           /\ w * (((j - 1) \div w + 1) - 1) + (((j - 1) % w) + 1) = j
<1> DEFINE v == j - 1  q == v \div w  r == v % w
<1>1. v \in Nat /\ v < w * n
  BY SMT
<1>2. q \in Nat /\ r \in 0 .. w - 1 /\ v = w * q + r
  <2> HIDE DEF v
  <2> QED
    BY <1>1, Quotient
<1> HIDE DEF q, r
<1>3. ~(q >= n)
  <2> SUFFICES ASSUME q >= n PROVE FALSE
    OBVIOUS
  <2>1. w * q >= w * n
    BY <1>2, SMT
  <2> HIDE DEF v
  <2>2. w * q \in Nat /\ w * n \in Nat
    BY <1>2, SMT
  <2> QED
    BY <1>1, <1>2, <2>1, <2>2
<1>4. q + 1 \in 1 .. n /\ r + 1 \in 1 .. w
  BY <1>2, <1>3
<1>5. (q + 1) - 1 = q /\ w * q + (r + 1) = j
  <2>1. w * q \in Nat
    BY <1>2, SMT
  <2> QED
    BY <1>2, <2>1
<1> QED
  BY <1>4, <1>5 DEF q, r

PlaceOf(w, k, x) == w * (k - 1) + x
Placed(w, n, k, x) ==
    /\ PlaceOf(w, k, x) \in 1 .. w * n
    /\ (PlaceOf(w, k, x) - 1) \div w + 1 = k
    /\ ((PlaceOf(w, k, x) - 1) % w) + 1 = x

LEMMA PieceOfPlace ==
    ASSUME NEW w \in Nat \ {0}, NEW n \in Nat, NEW k \in 1 .. n, NEW x \in 1 .. w
    PROVE  Placed(w, n, k, x)
<1> DEFINE q == k - 1  e == w * q
<1>1. q \in Nat /\ e \in Nat /\ w * k = e + w /\ w * k <= w * n /\ w * n \in Nat
  BY SMT
<1>2. e + x \in 1 .. w * n
  <2> DEFINE wn == w * n  wk == w * k
  <2>1. e \in Nat /\ wk = e + w /\ wk <= wn /\ wn \in Nat
    BY <1>1
  <2> HIDE DEF e, wn, wk
  <2>2. e + x \in 1 .. wn
    BY <2>1
  <2> QED
    BY <2>2 DEF wn
<1>3. (e + x) - 1 \in Nat /\ x - 1 \in 0 .. w - 1 /\ (e + x) - 1 = w * q + (x - 1)
  BY <1>1
<1>4. ((e + x) - 1) \div w = q /\ ((e + x) - 1) % w = x - 1
  <2> DEFINE v == (e + x) - 1  r == x - 1
  <2>1. v \in Nat /\ r \in 0 .. w - 1 /\ v = w * q + r
    BY <1>3
  <2> HIDE DEF v, r, q, e
  <2>2. v \div w = q /\ v % w = r
    BY <1>1, <2>1, QuotientUnique
  <2> QED
    BY <2>2 DEF v, r
<1> HIDE DEF e
<1>5. ((e + x) - 1) \div w + 1 = k /\ (((e + x) - 1) % w) + 1 = x
  BY <1>4
<1> QED
  BY <1>1, <1>2, <1>5 DEF e, q, PlaceOf, Placed

LEMMA EndOfPiece ==
    ASSUME NEW w \in Nat \ {0}, NEW n \in Nat, NEW k \in 1 .. n
    PROVE  w * k = w * (k - 1) + w /\ w * k <= w * n
BY SMT

LEMMA NextPieces ==
    ASSUME NEW d, Tagged(d), NEW at \in Nat, NEW w \in Nat \ {0},
           NEW a, Upto(a, at), NEW ps \in Seq(Bytes(w))
    PROVE  /\ Upto(a \o Joined(ps, w), at + w * Len(ps))
           /\ Starts(d, a \o Joined(ps, w)) <=>
                /\ Starts(d, a)
                /\ at + w * Len(ps) <= Len(Tail(d))
                /\ \A k \in 1 .. Len(ps) :
                     Get(Tail(d), at + w * (k - 1), at + w * k) = ps[k]
<1> DEFINE n == Len(ps)  f == Joined(ps, w)  m == w * n  r == Tail(d)
<1>1. n \in Nat /\ m \in Nat
  <2>1. n \in Nat
    BY LenProperties
  <2> QED
    BY <2>1, SMT
<1>2. \A k \in 1 .. n : ps[k] \in Bytes(w)
  BY ElementOfSeq
<1>3. \A j \in 1 .. m : f[j] = ps[(j - 1) \div w + 1][((j - 1) % w) + 1]
  BY DEF Joined
<1>4. f \in Bytes(m)
  <2>1. ASSUME NEW j \in 1 .. m
        PROVE  ps[(j - 1) \div w + 1][((j - 1) % w) + 1] \in Byte
    <3>1. (j - 1) \div w + 1 \in 1 .. n /\ ((j - 1) % w) + 1 \in 1 .. w
      BY <1>1, PlaceInPieces
    <3> QED
      BY <1>2, <3>1 DEF Bytes
  <2> QED
    BY <2>1 DEF Joined, Bytes
<1>5. r \in Seq(Byte) /\ Len(r) \in Nat
  BY HeadTailProperties, LenProperties DEF Tagged
<1> HIDE DEF f, m, n, r
<1>6. /\ Upto(a \o f, at + m)
      /\ Starts(d, a \o f) <=> /\ Starts(d, a)
                               /\ at + m <= Len(Tail(d))
                               /\ Get(Tail(d), at, at + m) = f
  <2>1. Field(at, m, at + m)
    BY <1>1 DEF Field
  <2> QED
    BY <1>4, <2>1, NextField
<1>7. ASSUME at + m <= Len(r)
      PROVE  Get(r, at, at + m) = f <=>
               \A k \in 1 .. n : Get(r, at + w * (k - 1), at + w * k) = ps[k]
  <2>1. Get(r, at, at + m) = f <=> \A j \in 1 .. m : r[at + j] = f[j]
    <3>1. Field(at, m, at + m)
      BY <1>1 DEF Field
    <3> QED
      BY <1>4, <1>5, <1>7, <3>1, BytesAt
  <2>2. ASSUME NEW k \in 1 .. n
        PROVE  Get(r, at + w * (k - 1), at + w * k) = ps[k] <=>
                 \A x \in 1 .. w : r[(at + w * (k - 1)) + x] = ps[k][x]
    <3> DEFINE from == at + w * (k - 1)  p == ps[k]
    <3>1. p \in Bytes(w)
      BY <1>2, <2>2
    <3>2. from \in Nat /\ from + w = at + w * k /\ from + w <= Len(r)
      <4>1. w * (k - 1) \in Nat
        BY <1>1, SMT
      <4>2. w * k = w * (k - 1) + w /\ w * k <= m
        <5>1. w * k = w * (k - 1) + w /\ w * k <= w * n
          BY <1>1, EndOfPiece
        <5> QED
          BY <5>1 DEF m
      <4>3. w * k \in Nat
        BY <4>1, <4>2
      <4> QED
        BY <1>1, <1>5, <1>7, <4>1, <4>2, <4>3
    <3> HIDE DEF from, p
    <3> DEFINE to == at + w * k
    <3>5. Field(from, w, to) /\ to <= Len(r)
      BY <3>2 DEF Field
    <3> HIDE DEF to
    <3>4. Get(r, from, to) = p <=> \A x \in 1 .. w : r[from + x] = p[x]
      BY <1>5, <3>1, <3>5, BytesAt
    <3> QED
      BY <3>4 DEF from, to, p
  <2>3. ASSUME \A j \in 1 .. m : r[at + j] = f[j], NEW k \in 1 .. n, NEW x \in 1 .. w
        PROVE  r[(at + w * (k - 1)) + x] = ps[k][x]
    <3> DEFINE j == PlaceOf(w, k, x)
    <3>1. j \in 1 .. m /\ (j - 1) \div w + 1 = k /\ ((j - 1) % w) + 1 = x
      <4>0. Placed(w, n, k, x)
        BY <1>1, PieceOfPlace
      <4>1. /\ j \in 1 .. w * n
            /\ (j - 1) \div w + 1 = k /\ ((j - 1) % w) + 1 = x
        BY <4>0 DEF Placed
      <4> HIDE DEF j
      <4> QED
        BY <4>1 DEF m
    <3>2. (at + w * (k - 1)) + x = at + j
      <4>1. w * (k - 1) \in Nat
        BY <1>1, SMT
      <4> QED
        BY <4>1 DEF PlaceOf
    <3> HIDE DEF j
    <3>3. r[at + j] = f[j] /\ f[j] = ps[(j - 1) \div w + 1][((j - 1) % w) + 1]
      BY <1>3, <2>3, <3>1
    <3>4. r[at + j] = ps[k][x]
      BY <3>1, <3>3
    <3> QED
      BY <3>2, <3>4
  <2>4. ASSUME \A k \in 1 .. n : \A x \in 1 .. w : r[(at + w * (k - 1)) + x] = ps[k][x],
               NEW j \in 1 .. m
        PROVE  r[at + j] = f[j]
    <3> DEFINE k == (j - 1) \div w + 1  x == ((j - 1) % w) + 1
    <3>1. k \in 1 .. n /\ x \in 1 .. w /\ w * (k - 1) + x = j
      BY <1>1, PlaceInPieces DEF m
    <3>2. f[j] = ps[k][x]
      BY <1>3
    <3> HIDE DEF k, x
    <3>3. r[(at + w * (k - 1)) + x] = ps[k][x]
      BY <2>4, <3>1
    <3>4. (at + w * (k - 1)) + x = at + j
      <4>1. w * (k - 1) \in Nat
        BY <1>1, <3>1, SMT
      <4> QED
        BY <1>1, <3>1, <4>1
    <3> QED
      BY <3>2, <3>3, <3>4
  <2> QED
    BY <2>1, <2>2, <2>3, <2>4
<1> QED
  BY <1>6, <1>7 DEF f, m, n, r

-----------------------------------------------------------------------------
(* The instructions: the data begins with the packed instruction exactly   *)
(* if that is what is unpacked from it.                                    *)

\* The tag and the seed, which come first in all of them.
LEMMA TagAndSeed ==
    ASSUME NEW d, Tagged(d), NEW tag \in 0 .. 8, NEW seed \in Key
    PROVE  /\ Upto(<<tag>> \o seed, 32)
           /\ Starts(d, <<tag>> \o seed) <=> /\ d[1] = tag
                                             /\ 32 <= Len(Tail(d))
                                             /\ Get(Tail(d), 0, 32) = seed
<1> DEFINE a == <<tag>>
<1>1. tag \in Byte
  BY DataAssumption DEF Byte
<1>2. a \in Seq(Byte) /\ Len(a) = 1 /\ a[1] = tag
  BY <1>1
<1>3. Upto(a, 0)
  BY <1>2 DEF Upto
<1> HIDE DEF a
<1>4. Starts(d, a) <=> d[1] = tag
  <2>1. d \in Seq(Byte) /\ d # <<>>
    BY DEF Tagged
  <2>3. 1 <= Len(d)
    BY <2>1, EmptySeq, LenProperties
  <2>2. Starts(d, a) <=> Len(a) <= Len(d) /\ \A i \in 1 .. Len(a) : d[i] = a[i]
    BY <1>2, <2>1, StartsAt
  <2> QED
    BY <1>2, <2>2, <2>3
<1>5. seed \in Bytes(32) /\ Field(0, 32, 32)
  BY DEF Key, Bytes, Field
<1>6. /\ Upto(a \o seed, 32)
      /\ Starts(d, a \o seed) <=> /\ Starts(d, a)
                                  /\ 32 <= Len(Tail(d))
                                  /\ Get(Tail(d), 0, 32) = seed
  BY <1>3, <1>5, NextField
<1> QED
  BY <1>4, <1>6 DEF a

LEMMA RestType ==
    ASSUME NEW d, Tagged(d)
    PROVE  Tail(d) \in Seq(Byte) /\ Len(Tail(d)) \in Nat /\ Len(Tail(d)) = Len(d) - 1
BY HeadTailProperties, LenProperties DEF Tagged

LEMMA NonZeroIsUnsigned ==
    ASSUME NEW w
    PROVE  \A v : v \in NonZero(w) <=> v \in Unsigned(w) /\ v # 0
BY DEF NonZero, Unsigned

LEMMA InitData ==
    ASSUME NEW d, Tagged(d), NEW i \in InitFields
    PROVE  /\ Upto(PackInit(i), 38)
           /\ Starts(d, PackInit(i)) <=> d[1] = 0 /\ UnpackInit(Tail(d)) = i
<1> DEFINE r == Tail(d)
           a1 == <<0>> \o i.pool_seed
           a2 == a1 \o LE(i.max_number_of_assets, 4)
           a3 == a2 \o LE(i.number_of_markets, 2)
           u == [op |-> "Init", pool_seed |-> Get(r, 0, 32),
                 max_number_of_assets |-> Num(r, 32, 36),
                 number_of_markets |-> Num(r, 36, 38)]
<1>1. /\ i.pool_seed \in Key /\ i.max_number_of_assets \in Unsigned(4)
      /\ i.number_of_markets \in Unsigned(2)
  BY DEF InitFields
<1>2. /\ i = [op |-> "Init", pool_seed |-> i.pool_seed,
             max_number_of_assets |-> i.max_number_of_assets,
             number_of_markets |-> i.number_of_markets]
      /\ i \notin {Refused, Panicked}
  BY DEF InitFields, Refused, Panicked
<1>3. Field(32, 4, 36) /\ Field(36, 2, 38)
  BY DEF Field
<1>4. /\ Upto(a1, 32)
      /\ Starts(d, a1) <=> d[1] = 0 /\ 32 <= Len(r) /\ Get(r, 0, 32) = i.pool_seed
  BY <1>1, TagAndSeed
<1> HIDE DEF a1
<1>5. /\ Upto(a2, 36)
      /\ Starts(d, a2) <=> Starts(d, a1) /\ 36 <= Len(r)
                           /\ Num(r, 32, 36) = i.max_number_of_assets
  BY <1>1, <1>3, <1>4, NextNumber
<1> HIDE DEF a2
<1>6. /\ Upto(a3, 38)
      /\ Starts(d, a3) <=> Starts(d, a2) /\ 38 <= Len(r)
                           /\ Num(r, 36, 38) = i.number_of_markets
  BY <1>1, <1>3, <1>5, NextNumber
<1> HIDE DEF a3
<1>7. a3 = PackInit(i)
  BY DEF PackInit, a1, a2, a3
<1>8. Len(r) \in Nat
  BY RestType
<1>9. u = i <=> /\ Get(r, 0, 32) = i.pool_seed
                /\ Num(r, 32, 36) = i.max_number_of_assets
                /\ Num(r, 36, 38) = i.number_of_markets
  BY <1>2
<1> HIDE DEF u, r
<1>10. UnpackInit(r) = i <=> 38 <= Len(r) /\ u = i
  <2>1. UnpackInit(r) = IF Len(r) < 32 THEN Panicked
              ELSE IF Len(r) < 38 THEN Refused ELSE u
    BY DEF UnpackInit, Understood, u, r
  <2> QED
    BY <1>2, <1>8, <2>1
<1>11. Starts(d, a3) <=> d[1] = 0 /\ 38 <= Len(r) /\ u = i
  BY <1>4, <1>5, <1>6, <1>8, <1>9
<1> QED
  BY <1>6, <1>7, <1>10, <1>11 DEF r

LEMMA InitRead ==
    ASSUME NEW d, Tagged(d), UnpackInit(Tail(d)) \notin {Refused, Panicked}
    PROVE  UnpackInit(Tail(d)) \in InitFields
<1> DEFINE r == Tail(d)
           u == [op |-> "Init", pool_seed |-> Get(r, 0, 32),
                 max_number_of_assets |-> Num(r, 32, 36),
                 number_of_markets |-> Num(r, 36, 38)]
<1>1. Len(r) \in Nat
  BY RestType
<1>2. UnpackInit(r) = u /\ 38 <= Len(r)
  BY <1>1 DEF UnpackInit, Understood
<1>3. Field(0, 32, 32) /\ Field(32, 4, 36) /\ Field(36, 2, 38)
  BY DEF Field
<1>4. 32 <= Len(r) /\ 36 <= Len(r) /\ 38 <= Len(r)
  BY <1>1, <1>2
<1>5. Get(r, 0, 32) \in Key
  <2>1. Get(r, 0, 32) \in Bytes(32)
    BY <1>3, <1>4, ReadType
  <2> QED
    BY <2>1 DEF Key, Bytes
<1>6. Num(r, 32, 36) \in Unsigned(4)
  BY <1>3, <1>4, ReadType
<1>7. Num(r, 36, 38) \in Unsigned(2)
  BY <1>3, <1>4, ReadType
<1>8. u \in InitFields
  BY <1>5, <1>6, <1>7 DEF InitFields
<1> QED
  BY <1>2, <1>8

LEMMA AmountData ==
    ASSUME NEW d, Tagged(d), NEW tag \in 0 .. 8, NEW i \in AmountFields
    PROVE  /\ Upto(PackAmount(tag, i), 40)
           /\ Starts(d, PackAmount(tag, i)) <=> d[1] = tag
                                                /\ UnpackAmount(i.op, Tail(d)) = i
<1> DEFINE r == Tail(d)
           a1 == <<tag>> \o i.pool_seed
           a2 == a1 \o LE(i.pool_token_amount, 8)
           u == [op |-> i.op, pool_seed |-> Get(r, 0, 32),
                 pool_token_amount |-> Num(r, 32, 40)]
<1>1. i.pool_seed \in Key /\ i.pool_token_amount \in Unsigned(8)
  BY DEF AmountFields
<1>2. /\ i = [op |-> i.op, pool_seed |-> i.pool_seed,
             pool_token_amount |-> i.pool_token_amount]
      /\ i \notin {Refused, Panicked}
  BY DEF AmountFields, Refused, Panicked
<1>3. Field(32, 8, 40)
  BY DEF Field
<1>4. /\ Upto(a1, 32)
      /\ Starts(d, a1) <=> d[1] = tag /\ 32 <= Len(r) /\ Get(r, 0, 32) = i.pool_seed
  BY <1>1, TagAndSeed
<1> HIDE DEF a1
<1>5. /\ Upto(a2, 40)
      /\ Starts(d, a2) <=> Starts(d, a1) /\ 40 <= Len(r)
                           /\ Num(r, 32, 40) = i.pool_token_amount
  BY <1>1, <1>3, <1>4, NextNumber
<1> HIDE DEF a2
<1>6. a2 = PackAmount(tag, i)
  BY DEF PackAmount, a1, a2
<1>7. Len(r) \in Nat
  BY RestType
<1>8. u = i <=> /\ Get(r, 0, 32) = i.pool_seed
                /\ Num(r, 32, 40) = i.pool_token_amount
  BY <1>2
<1> HIDE DEF u, r
<1>9. UnpackAmount(i.op, r) = i <=> 40 <= Len(r) /\ u = i
  <2>1. UnpackAmount(i.op, r) = IF Len(r) < 32 THEN Panicked
              ELSE IF Len(r) < 40 THEN Refused ELSE u
    BY DEF UnpackAmount, Understood, u, r
  <2> QED
    BY <1>2, <1>7, <2>1
<1>10. Starts(d, a2) <=> d[1] = tag /\ 40 <= Len(r) /\ u = i
  BY <1>4, <1>5, <1>7, <1>8
<1> QED
  BY <1>5, <1>6, <1>9, <1>10 DEF r

LEMMA AmountRead ==
    ASSUME NEW d, Tagged(d), NEW op \in {"Deposit", "Redeem"},
           UnpackAmount(op, Tail(d)) \notin {Refused, Panicked}
    PROVE  UnpackAmount(op, Tail(d)) \in AmountFields
<1> DEFINE r == Tail(d)
           u == [op |-> op, pool_seed |-> Get(r, 0, 32),
                 pool_token_amount |-> Num(r, 32, 40)]
<1>1. Len(r) \in Nat
  BY RestType
<1>2. UnpackAmount(op, r) = u /\ 40 <= Len(r)
  BY <1>1 DEF UnpackAmount, Understood
<1>3. Field(0, 32, 32) /\ Field(32, 8, 40)
  BY DEF Field
<1>4. 32 <= Len(r) /\ 40 <= Len(r)
  BY <1>1, <1>2
<1>5. Get(r, 0, 32) \in Key
  <2>1. Get(r, 0, 32) \in Bytes(32)
    BY <1>3, <1>4, ReadType
  <2> QED
    BY <2>1 DEF Key, Bytes
<1>6. Num(r, 32, 40) \in Unsigned(8)
  BY <1>3, <1>4, ReadType
<1>7. u \in AmountFields
  BY <1>5, <1>6 DEF AmountFields
<1> QED
  BY <1>2, <1>7

LEMMA CreateOrderData ==
    ASSUME NEW d, Tagged(d), NEW i \in CreateOrderFields
    PROVE  /\ Upto(PackCreateOrder(i), 121)
           /\ Starts(d, PackCreateOrder(i)) <=> d[1] = 3
                                                /\ UnpackCreateOrder(Tail(d)) = i
<1> DEFINE r == Tail(d)
           a1 == <<3>> \o i.pool_seed
           a2 == a1 \o ByteOf(i.side, Sides)
           a3 == a2 \o LE(i.limit_price, 8)
           a4 == a3 \o LE(i.ratio_of_pool_assets_to_trade, 2)
           a5 == a4 \o ByteOf(i.order_type, OrderTypes)
           a6 == a5 \o LE(i.client_id, 8)
           a7 == a6 \o ByteOf(i.self_trade_behavior, SelfTrades)
           a8 == a7 \o LE(i.source_index, 8)
           a9 == a8 \o LE(i.target_index, 8)
           a10 == a9 \o LE(i.market_index, 2)
           a11 == a10 \o LE(i.coin_lot_size, 8)
           a12 == a11 \o LE(i.pc_lot_size, 8)
           a13 == a12 \o i.target_mint
           a14 == a13 \o LE(i.serum_limit, 2)
           u == [op |-> "CreateOrder", pool_seed |-> Get(r, 0, 32),
                 side |-> Variant(r, 32, Sides), limit_price |-> Num(r, 33, 41),
                 ratio_of_pool_assets_to_trade |-> Num(r, 41, 43),
                 order_type |-> Variant(r, 43, OrderTypes),
                 client_id |-> Num(r, 44, 52),
                 self_trade_behavior |-> Variant(r, 52, SelfTrades),
                 source_index |-> Num(r, 53, 61), target_index |-> Num(r, 61, 69),
                 market_index |-> Num(r, 69, 71),
                 coin_lot_size |-> Num(r, 71, 79), pc_lot_size |-> Num(r, 79, 87),
                 target_mint |-> Get(r, 87, 119),
                 serum_limit |-> Num(r, 119, 121)]
<1>1. /\ i.pool_seed \in Key /\ IsVariant(i.side, Sides)
      /\ i.limit_price \in NonZero(8)
      /\ i.ratio_of_pool_assets_to_trade \in NonZero(2)
      /\ IsVariant(i.order_type, OrderTypes) /\ i.client_id \in Unsigned(8)
      /\ IsVariant(i.self_trade_behavior, SelfTrades)
      /\ i.source_index \in Unsigned(8) /\ i.target_index \in Unsigned(8)
      /\ i.market_index \in Unsigned(2) /\ i.coin_lot_size \in Unsigned(8)
      /\ i.pc_lot_size \in Unsigned(8) /\ i.target_mint \in Key
      /\ i.serum_limit \in Unsigned(2)
  BY Enumerations DEF CreateOrderFields
<1>2. /\ i = [op |-> "CreateOrder", pool_seed |-> i.pool_seed, side |-> i.side,
             limit_price |-> i.limit_price,
             ratio_of_pool_assets_to_trade |-> i.ratio_of_pool_assets_to_trade,
             order_type |-> i.order_type, client_id |-> i.client_id,
             self_trade_behavior |-> i.self_trade_behavior,
             source_index |-> i.source_index, target_index |-> i.target_index,
             market_index |-> i.market_index, coin_lot_size |-> i.coin_lot_size,
             pc_lot_size |-> i.pc_lot_size, target_mint |-> i.target_mint,
             serum_limit |-> i.serum_limit]
      /\ i \notin {Refused, Panicked}
  BY DEF CreateOrderFields, Refused, Panicked
<1>3. /\ Field(32, 1, 33) /\ Field(33, 8, 41) /\ Field(41, 2, 43)
      /\ Field(43, 1, 44) /\ Field(44, 8, 52) /\ Field(52, 1, 53)
      /\ Field(53, 8, 61) /\ Field(61, 8, 69) /\ Field(69, 2, 71)
      /\ Field(71, 8, 79) /\ Field(79, 8, 87) /\ Field(87, 32, 119)
      /\ Field(119, 2, 121)
  BY DEF Field
<1>4. /\ Upto(a1, 32)
      /\ Starts(d, a1) <=> d[1] = 3 /\ 32 <= Len(r) /\ Get(r, 0, 32) = i.pool_seed
  BY <1>1, TagAndSeed
<1> HIDE DEF a1
<1>5. /\ Upto(a2, 33)
      /\ Starts(d, a2) <=> Starts(d, a1) /\ 33 <= Len(r)
                           /\ Variant(r, 32, Sides) = i.side
  BY <1>1, <1>3, <1>4, NextVariant, Enumerations
<1> HIDE DEF a2
<1>6. /\ Upto(a3, 41)
      /\ Starts(d, a3) <=> Starts(d, a2) /\ 41 <= Len(r)
                           /\ Num(r, 33, 41) = i.limit_price
  <2>1. i.limit_price \in Unsigned(8)
    BY <1>1, NonZeroIsUnsigned
  <2> QED
    BY <1>3, <1>5, <2>1, NextNumber
<1> HIDE DEF a3
<1>7. /\ Upto(a4, 43)
      /\ Starts(d, a4) <=> Starts(d, a3) /\ 43 <= Len(r)
                           /\ Num(r, 41, 43) = i.ratio_of_pool_assets_to_trade
  <2>1. i.ratio_of_pool_assets_to_trade \in Unsigned(2)
    BY <1>1, NonZeroIsUnsigned
  <2> QED
    BY <1>3, <1>6, <2>1, NextNumber
<1> HIDE DEF a4
<1>8. /\ Upto(a5, 44)
      /\ Starts(d, a5) <=> Starts(d, a4) /\ 44 <= Len(r)
                           /\ Variant(r, 43, OrderTypes) = i.order_type
  BY <1>1, <1>3, <1>7, NextVariant, Enumerations
<1> HIDE DEF a5
<1>9. /\ Upto(a6, 52)
      /\ Starts(d, a6) <=> Starts(d, a5) /\ 52 <= Len(r) /\ Num(r, 44, 52) = i.client_id
  BY <1>1, <1>3, <1>8, NextNumber
<1> HIDE DEF a6
<1>10. /\ Upto(a7, 53)
       /\ Starts(d, a7) <=> Starts(d, a6) /\ 53 <= Len(r)
                            /\ Variant(r, 52, SelfTrades) = i.self_trade_behavior
  BY <1>1, <1>3, <1>9, NextVariant, Enumerations
<1> HIDE DEF a7
<1>11. /\ Upto(a8, 61)
       /\ Starts(d, a8) <=> Starts(d, a7) /\ 61 <= Len(r)
                            /\ Num(r, 53, 61) = i.source_index
  BY <1>1, <1>3, <1>10, NextNumber
<1> HIDE DEF a8
<1>12. /\ Upto(a9, 69)
       /\ Starts(d, a9) <=> Starts(d, a8) /\ 69 <= Len(r)
                            /\ Num(r, 61, 69) = i.target_index
  BY <1>1, <1>3, <1>11, NextNumber
<1> HIDE DEF a9
<1>13. /\ Upto(a10, 71)
       /\ Starts(d, a10) <=> Starts(d, a9) /\ 71 <= Len(r)
                             /\ Num(r, 69, 71) = i.market_index
  BY <1>1, <1>3, <1>12, NextNumber
<1> HIDE DEF a10
<1>14. /\ Upto(a11, 79)
       /\ Starts(d, a11) <=> Starts(d, a10) /\ 79 <= Len(r)
                             /\ Num(r, 71, 79) = i.coin_lot_size
  BY <1>1, <1>3, <1>13, NextNumber
<1> HIDE DEF a11
<1>15. /\ Upto(a12, 87)
       /\ Starts(d, a12) <=> Starts(d, a11) /\ 87 <= Len(r)
                             /\ Num(r, 79, 87) = i.pc_lot_size
  BY <1>1, <1>3, <1>14, NextNumber
<1> HIDE DEF a12
<1>16. /\ Upto(a13, 119)
       /\ Starts(d, a13) <=> Starts(d, a12) /\ 119 <= Len(r)
                             /\ Get(r, 87, 119) = i.target_mint
  <2>1. i.target_mint \in Bytes(32)
    BY <1>1 DEF Key, Bytes
  <2> QED
    BY <1>3, <1>15, <2>1, NextField
<1> HIDE DEF a13
<1>17. /\ Upto(a14, 121)
       /\ Starts(d, a14) <=> Starts(d, a13) /\ 121 <= Len(r)
                             /\ Num(r, 119, 121) = i.serum_limit
  BY <1>1, <1>3, <1>16, NextNumber
<1> HIDE DEF a14
<1>18. a14 = PackCreateOrder(i)
  BY DEF PackCreateOrder, a1, a2, a3, a4, a5, a6, a7, a8, a9, a10, a11, a12, a13, a14
<1>19. Len(r) \in Nat
  BY RestType
<1>20. u = i <=> /\ Get(r, 0, 32) = i.pool_seed /\ Variant(r, 32, Sides) = i.side
                 /\ Num(r, 33, 41) = i.limit_price
                 /\ Num(r, 41, 43) = i.ratio_of_pool_assets_to_trade
                 /\ Variant(r, 43, OrderTypes) = i.order_type
                 /\ Num(r, 44, 52) = i.client_id
                 /\ Variant(r, 52, SelfTrades) = i.self_trade_behavior
                 /\ Num(r, 53, 61) = i.source_index /\ Num(r, 61, 69) = i.target_index
                 /\ Num(r, 69, 71) = i.market_index
                 /\ Num(r, 71, 79) = i.coin_lot_size /\ Num(r, 79, 87) = i.pc_lot_size
                 /\ Get(r, 87, 119) = i.target_mint
                 /\ Num(r, 119, 121) = i.serum_limit
  BY <1>2
<1>21. u = i => OrderIsSound(r)
  BY <1>1, <1>20, Enumerations DEF OrderIsSound, NonZero
<1> HIDE DEF u, r
<1>22. UnpackCreateOrder(r) = i <=> 121 <= Len(r) /\ u = i
  <2>1. UnpackCreateOrder(r) = IF Len(r) < 121 \/ ~OrderIsSound(r) THEN Refused ELSE u
    BY DEF UnpackCreateOrder, u, r
  <2> QED
    BY <1>2, <1>19, <1>21, <2>1
<1>23. Starts(d, a14) <=> d[1] = 3 /\ 121 <= Len(r) /\ u = i
  BY <1>4, <1>5, <1>6, <1>7, <1>8, <1>9, <1>10, <1>11, <1>12, <1>13, <1>14,
     <1>15, <1>16, <1>17, <1>19, <1>20
<1> QED
  BY <1>17, <1>18, <1>22, <1>23 DEF r

LEMMA CreateOrderRead ==
    ASSUME NEW d, Tagged(d), UnpackCreateOrder(Tail(d)) \notin {Refused, Panicked}
    PROVE  UnpackCreateOrder(Tail(d)) \in CreateOrderFields
<1> DEFINE r == Tail(d)
           u == [op |-> "CreateOrder", pool_seed |-> Get(r, 0, 32),
                 side |-> Variant(r, 32, Sides), limit_price |-> Num(r, 33, 41),
                 ratio_of_pool_assets_to_trade |-> Num(r, 41, 43),
                 order_type |-> Variant(r, 43, OrderTypes),
                 client_id |-> Num(r, 44, 52),
                 self_trade_behavior |-> Variant(r, 52, SelfTrades),
                 source_index |-> Num(r, 53, 61), target_index |-> Num(r, 61, 69),
                 market_index |-> Num(r, 69, 71),
                 coin_lot_size |-> Num(r, 71, 79), pc_lot_size |-> Num(r, 79, 87),
                 target_mint |-> Get(r, 87, 119),
                 serum_limit |-> Num(r, 119, 121)]
<1>1. Len(r) \in Nat
  BY RestType
<1>2. UnpackCreateOrder(r) = u /\ 121 <= Len(r) /\ OrderIsSound(r)
  BY <1>1 DEF UnpackCreateOrder
<1>3. /\ Field(0, 32, 32) /\ Field(32, 1, 33) /\ Field(33, 8, 41)
      /\ Field(41, 2, 43) /\ Field(43, 1, 44) /\ Field(44, 8, 52)
      /\ Field(52, 1, 53) /\ Field(53, 8, 61) /\ Field(61, 8, 69)
      /\ Field(69, 2, 71) /\ Field(71, 8, 79) /\ Field(79, 8, 87)
      /\ Field(87, 32, 119) /\ Field(119, 2, 121)
  BY DEF Field
<1>4. /\ 32 <= Len(r) /\ 33 <= Len(r) /\ 41 <= Len(r) /\ 43 <= Len(r)
      /\ 44 <= Len(r) /\ 52 <= Len(r) /\ 53 <= Len(r) /\ 61 <= Len(r)
      /\ 69 <= Len(r) /\ 71 <= Len(r) /\ 79 <= Len(r) /\ 87 <= Len(r)
      /\ 119 <= Len(r) /\ 121 <= Len(r)
  BY <1>1, <1>2
<1>5. Get(r, 0, 32) \in Key /\ Get(r, 87, 119) \in Key
  <2>1. Get(r, 0, 32) \in Bytes(32) /\ Get(r, 87, 119) \in Bytes(32)
    BY <1>3, <1>4, ReadType
  <2> QED
    BY <2>1 DEF Key, Bytes
<1>6. IsVariant(Variant(r, 32, Sides), Sides)
  <2>1. Variant(r, 32, Sides) # "unknown"
    BY <1>2 DEF OrderIsSound
  <2> QED
    BY <1>3, <1>4, <2>1, ReadVariant, Enumerations
<1>7. Num(r, 33, 41) \in Unsigned(8)
  BY <1>3, <1>4, ReadType
<1>8. Num(r, 33, 41) \in NonZero(8)
  <2>1. Num(r, 33, 41) # 0
    BY <1>2 DEF OrderIsSound
  <2> QED
    BY <1>7, <2>1, NonZeroIsUnsigned
<1>9. Num(r, 41, 43) \in Unsigned(2)
  BY <1>3, <1>4, ReadType
<1>10. Num(r, 41, 43) \in NonZero(2)
  <2>1. Num(r, 41, 43) # 0
    BY <1>2 DEF OrderIsSound
  <2> QED
    BY <1>9, <2>1, NonZeroIsUnsigned
<1>11. IsVariant(Variant(r, 43, OrderTypes), OrderTypes)
  <2>1. Variant(r, 43, OrderTypes) # "unknown"
    BY <1>2 DEF OrderIsSound
  <2> QED
    BY <1>3, <1>4, <2>1, ReadVariant, Enumerations
<1>12. Num(r, 44, 52) \in Unsigned(8)
  BY <1>3, <1>4, ReadType
<1>13. IsVariant(Variant(r, 52, SelfTrades), SelfTrades)
  <2>1. Variant(r, 52, SelfTrades) # "unknown"
    BY <1>2 DEF OrderIsSound
  <2> QED
    BY <1>3, <1>4, <2>1, ReadVariant, Enumerations
<1>14. Num(r, 53, 61) \in Unsigned(8)
  BY <1>3, <1>4, ReadType
<1>15. Num(r, 61, 69) \in Unsigned(8)
  BY <1>3, <1>4, ReadType
<1>16. Num(r, 69, 71) \in Unsigned(2)
  BY <1>3, <1>4, ReadType
<1>17. Num(r, 71, 79) \in Unsigned(8)
  BY <1>3, <1>4, ReadType
<1>18. Num(r, 79, 87) \in Unsigned(8)
  BY <1>3, <1>4, ReadType
<1>19. Num(r, 119, 121) \in Unsigned(2)
  BY <1>3, <1>4, ReadType
<1>20. u \in CreateOrderFields
  BY <1>5, <1>6, <1>8, <1>10, <1>11, <1>12, <1>13, <1>14, <1>15, <1>16, <1>17,
     <1>18, <1>19, Enumerations DEF CreateOrderFields
<1> QED
  BY <1>2, <1>20

LEMMA CancelOrderData ==
    ASSUME NEW d, Tagged(d), NEW i \in CancelOrderFields
    PROVE  /\ Upto(PackCancelOrder(i), 49)
           /\ Starts(d, PackCancelOrder(i)) <=> d[1] = 4
                                                /\ UnpackCancelOrder(Tail(d)) = i
<1> DEFINE r == Tail(d)
           a1 == <<4>> \o i.pool_seed
           a2 == a1 \o ByteOf(i.side, Sides)
           a3 == a2 \o LE(i.order_id[1], 8)
           a4 == a3 \o LE(i.order_id[2], 8)
           u == [op |-> "CancelOrder", pool_seed |-> Get(r, 0, 32),
                 side |-> Variant(r, 32, Sides),
                 order_id |-> <<Num(r, 33, 41), Num(r, 41, 49)>>]
<1>1. /\ i.pool_seed \in Key /\ IsVariant(i.side, Sides)
      /\ i.order_id[1] \in Unsigned(8) /\ i.order_id[2] \in Unsigned(8)
  BY Enumerations DEF CancelOrderFields
<1>2. /\ i = [op |-> "CancelOrder", pool_seed |-> i.pool_seed, side |-> i.side,
             order_id |-> i.order_id]
      /\ i \notin {Refused, Panicked}
  <2>1. i = [op |-> "CancelOrder", pool_seed |-> i.pool_seed, side |-> i.side,
             order_id |-> i.order_id]
    BY DEF CancelOrderFields
  <2> QED
    BY <2>1 DEF CancelOrderFields, Refused, Panicked
<1>3. Field(32, 1, 33) /\ Field(33, 8, 41) /\ Field(41, 8, 49)
  BY DEF Field
<1>4. /\ Upto(a1, 32)
      /\ Starts(d, a1) <=> d[1] = 4 /\ 32 <= Len(r) /\ Get(r, 0, 32) = i.pool_seed
  BY <1>1, TagAndSeed
<1> HIDE DEF a1
<1>5. /\ Upto(a2, 33)
      /\ Starts(d, a2) <=> Starts(d, a1) /\ 33 <= Len(r)
                           /\ Variant(r, 32, Sides) = i.side
  BY <1>1, <1>3, <1>4, NextVariant, Enumerations
<1> HIDE DEF a2
<1>6. /\ Upto(a3, 41)
      /\ Starts(d, a3) <=> Starts(d, a2) /\ 41 <= Len(r)
                           /\ Num(r, 33, 41) = i.order_id[1]
  BY <1>1, <1>3, <1>5, NextNumber
<1> HIDE DEF a3
<1>7. /\ Upto(a4, 49)
      /\ Starts(d, a4) <=> Starts(d, a3) /\ 49 <= Len(r)
                           /\ Num(r, 41, 49) = i.order_id[2]
  BY <1>1, <1>3, <1>6, NextNumber
<1> HIDE DEF a4
<1>8. a4 = PackCancelOrder(i)
  BY DEF PackCancelOrder, a1, a2, a3, a4
<1>9. Len(r) \in Nat
  BY RestType
<1>10. u = i <=> /\ Get(r, 0, 32) = i.pool_seed /\ Variant(r, 32, Sides) = i.side
                 /\ Num(r, 33, 41) = i.order_id[1] /\ Num(r, 41, 49) = i.order_id[2]
  <2>1. i.order_id = <<i.order_id[1], i.order_id[2]>>
    BY DEF CancelOrderFields
  <2> QED
    BY <1>2, <2>1
<1>11. u = i => Variant(r, 32, Sides) # "unknown"
  BY <1>1, <1>10, Enumerations
<1> HIDE DEF u, r
<1>12. UnpackCancelOrder(r) = i <=> 49 <= Len(r) /\ u = i
  <2>1. UnpackCancelOrder(r) = IF Len(r) >= 33 /\ Variant(r, 32, Sides) = "unknown" THEN Refused
              ELSE IF Len(r) < 32 THEN Panicked ELSE IF Len(r) < 49 THEN Refused ELSE u
    BY DEF UnpackCancelOrder, Understood, u, r
  <2> QED
    BY <1>2, <1>9, <1>11, <2>1
<1>13. Starts(d, a4) <=> d[1] = 4 /\ 49 <= Len(r) /\ u = i
  BY <1>4, <1>5, <1>6, <1>7, <1>9, <1>10
<1> QED
  BY <1>7, <1>8, <1>12, <1>13 DEF r

LEMMA CancelOrderRead ==
    ASSUME NEW d, Tagged(d), UnpackCancelOrder(Tail(d)) \notin {Refused, Panicked}
    PROVE  UnpackCancelOrder(Tail(d)) \in CancelOrderFields
<1> DEFINE r == Tail(d)
           u == [op |-> "CancelOrder", pool_seed |-> Get(r, 0, 32),
                 side |-> Variant(r, 32, Sides),
                 order_id |-> <<Num(r, 33, 41), Num(r, 41, 49)>>]
<1>1. Len(r) \in Nat
  BY RestType
<1>2. UnpackCancelOrder(r) = u /\ 49 <= Len(r) /\ Variant(r, 32, Sides) # "unknown"
  BY <1>1 DEF UnpackCancelOrder, Understood
<1>3. /\ Field(0, 32, 32) /\ Field(32, 1, 33) /\ Field(33, 8, 41)
      /\ Field(41, 8, 49)
  BY DEF Field
<1>4. 32 <= Len(r) /\ 33 <= Len(r) /\ 41 <= Len(r) /\ 49 <= Len(r)
  BY <1>1, <1>2
<1>5. Get(r, 0, 32) \in Key
  <2>1. Get(r, 0, 32) \in Bytes(32)
    BY <1>3, <1>4, ReadType
  <2> QED
    BY <2>1 DEF Key, Bytes
<1>6. IsVariant(Variant(r, 32, Sides), Sides)
  BY <1>2, <1>3, <1>4, ReadVariant, Enumerations
<1>7. Num(r, 33, 41) \in Unsigned(8)
  BY <1>3, <1>4, ReadType
<1>8. Num(r, 41, 49) \in Unsigned(8)
  BY <1>3, <1>4, ReadType
<1>9. u \in CancelOrderFields
  BY <1>5, <1>6, <1>7, <1>8, Enumerations DEF CancelOrderFields
<1> QED
  BY <1>2, <1>9

LEMMA SettleFundsData ==
    ASSUME NEW d, Tagged(d), NEW i \in SettleFundsFields
    PROVE  /\ Upto(PackSettleFunds(i), 48)
           /\ Starts(d, PackSettleFunds(i)) <=> d[1] = 5
                                                /\ UnpackSettleFunds(Tail(d)) = i
<1> DEFINE r == Tail(d)
           a1 == <<5>> \o i.pool_seed
           a2 == a1 \o LE(i.pc_index, 8)
           a3 == a2 \o LE(i.coin_index, 8)
           u == [op |-> "SettleFunds", pool_seed |-> Get(r, 0, 32),
                 pc_index |-> Num(r, 32, 40), coin_index |-> Num(r, 40, 48)]
<1>1. /\ i.pool_seed \in Key /\ i.pc_index \in Unsigned(8)
      /\ i.coin_index \in Unsigned(8)
  BY DEF SettleFundsFields
<1>2. /\ i = [op |-> "SettleFunds", pool_seed |-> i.pool_seed,
             pc_index |-> i.pc_index, coin_index |-> i.coin_index]
      /\ i \notin {Refused, Panicked}
  BY DEF SettleFundsFields, Refused, Panicked
<1>3. Field(32, 8, 40) /\ Field(40, 8, 48)
  BY DEF Field
<1>4. /\ Upto(a1, 32)
      /\ Starts(d, a1) <=> d[1] = 5 /\ 32 <= Len(r) /\ Get(r, 0, 32) = i.pool_seed
  BY <1>1, TagAndSeed
<1> HIDE DEF a1
<1>5. /\ Upto(a2, 40)
      /\ Starts(d, a2) <=> Starts(d, a1) /\ 40 <= Len(r) /\ Num(r, 32, 40) = i.pc_index
  BY <1>1, <1>3, <1>4, NextNumber
<1> HIDE DEF a2
<1>6. /\ Upto(a3, 48)
      /\ Starts(d, a3) <=> Starts(d, a2) /\ 48 <= Len(r)
                           /\ Num(r, 40, 48) = i.coin_index
  BY <1>1, <1>3, <1>5, NextNumber
<1> HIDE DEF a3
<1>7. a3 = PackSettleFunds(i)
  BY DEF PackSettleFunds, a1, a2, a3
<1>8. Len(r) \in Nat
  BY RestType
<1>9. u = i <=> /\ Get(r, 0, 32) = i.pool_seed /\ Num(r, 32, 40) = i.pc_index
                /\ Num(r, 40, 48) = i.coin_index
  BY <1>2
<1> HIDE DEF u, r
<1>10. UnpackSettleFunds(r) = i <=> 48 <= Len(r) /\ u = i
  <2>1. UnpackSettleFunds(r) = IF Len(r) < 32 THEN Panicked
              ELSE IF Len(r) < 48 THEN Refused ELSE u
    BY DEF UnpackSettleFunds, Understood, u, r
  <2> QED
    BY <1>2, <1>8, <2>1
<1>11. Starts(d, a3) <=> d[1] = 5 /\ 48 <= Len(r) /\ u = i
  BY <1>4, <1>5, <1>6, <1>8, <1>9
<1> QED
  BY <1>6, <1>7, <1>10, <1>11 DEF r

LEMMA SettleFundsRead ==
    ASSUME NEW d, Tagged(d), UnpackSettleFunds(Tail(d)) \notin {Refused, Panicked}
    PROVE  UnpackSettleFunds(Tail(d)) \in SettleFundsFields
<1> DEFINE r == Tail(d)
           u == [op |-> "SettleFunds", pool_seed |-> Get(r, 0, 32),
                 pc_index |-> Num(r, 32, 40), coin_index |-> Num(r, 40, 48)]
<1>1. Len(r) \in Nat
  BY RestType
<1>2. UnpackSettleFunds(r) = u /\ 48 <= Len(r)
  BY <1>1 DEF UnpackSettleFunds, Understood
<1>3. Field(0, 32, 32) /\ Field(32, 8, 40) /\ Field(40, 8, 48)
  BY DEF Field
<1>4. 32 <= Len(r) /\ 40 <= Len(r) /\ 48 <= Len(r)
  BY <1>1, <1>2
<1>5. Get(r, 0, 32) \in Key
  <2>1. Get(r, 0, 32) \in Bytes(32)
    BY <1>3, <1>4, ReadType
  <2> QED
    BY <2>1 DEF Key, Bytes
<1>6. Num(r, 32, 40) \in Unsigned(8)
  BY <1>3, <1>4, ReadType
<1>7. Num(r, 40, 48) \in Unsigned(8)
  BY <1>3, <1>4, ReadType
<1>8. u \in SettleFundsFields
  BY <1>5, <1>6, <1>7 DEF SettleFundsFields
<1> QED
  BY <1>2, <1>8

LEMMA CollectFeesData ==
    ASSUME NEW d, Tagged(d), NEW i \in CollectFeesFields
    PROVE  /\ Upto(<<7>> \o i.pool_seed, 32)
           /\ Starts(d, <<7>> \o i.pool_seed) <=> d[1] = 7
                                                  /\ UnpackCollectFees(Tail(d)) = i
<1> DEFINE r == Tail(d)
           a1 == <<7>> \o i.pool_seed
           u == [op |-> "CollectFees", pool_seed |-> Get(r, 0, 32)]
<1>1. i.pool_seed \in Key
  BY DEF CollectFeesFields
<1>2. /\ i = [op |-> "CollectFees", pool_seed |-> i.pool_seed]
      /\ i \notin {Refused, Panicked}
  BY DEF CollectFeesFields, Refused, Panicked
<1>4. /\ Upto(a1, 32)
      /\ Starts(d, a1) <=> d[1] = 7 /\ 32 <= Len(r) /\ Get(r, 0, 32) = i.pool_seed
  BY <1>1, TagAndSeed
<1> HIDE DEF a1
<1>5. a1 = <<7>> \o i.pool_seed
  BY DEF a1
<1>6. Len(r) \in Nat
  BY RestType
<1>7. u = i <=> /\ Get(r, 0, 32) = i.pool_seed
  BY <1>2
<1> HIDE DEF u, r
<1>8. UnpackCollectFees(r) = i <=> 32 <= Len(r) /\ u = i
  <2>1. UnpackCollectFees(r) = IF Len(r) < 32 THEN Panicked
              ELSE IF Len(r) < 32 THEN Refused ELSE u
    BY DEF UnpackCollectFees, Understood, u, r
  <2> QED
    BY <1>2, <1>6, <2>1
<1>9. Starts(d, a1) <=> d[1] = 7 /\ 32 <= Len(r) /\ u = i
  BY <1>4, <1>6, <1>7
<1> QED
  BY <1>4, <1>5, <1>8, <1>9 DEF r

LEMMA CollectFeesRead ==
    ASSUME NEW d, Tagged(d), UnpackCollectFees(Tail(d)) \notin {Refused, Panicked}
    PROVE  UnpackCollectFees(Tail(d)) \in CollectFeesFields
<1> DEFINE r == Tail(d)
           u == [op |-> "CollectFees", pool_seed |-> Get(r, 0, 32)]
<1>1. Len(r) \in Nat
  BY RestType
<1>2. UnpackCollectFees(r) = u /\ 32 <= Len(r)
  BY <1>1 DEF UnpackCollectFees, Understood
<1>3. Field(0, 32, 32)
  BY DEF Field
<1>4. 32 <= Len(r)
  BY <1>1, <1>2
<1>5. Get(r, 0, 32) \in Key
  <2>1. Get(r, 0, 32) \in Bytes(32)
    BY <1>3, <1>4, ReadType
  <2> QED
    BY <2>1 DEF Key, Bytes
<1>6. u \in CollectFeesFields
  BY <1>5 DEF CollectFeesFields
<1> QED
  BY <1>2, <1>6

LEMMA MarketPlace ==
    ASSUME NEW k \in Nat
    PROVE  12 + 32 * k = 44 + 32 * (k - 1)
OBVIOUS

\* The amounts take up what is left of the data but for less than one of them.
LEMMA AmountsFit ==
    ASSUME NEW n \in Nat, NEW last \in Nat, last <= n
    PROVE  /\ AmountCount(n - last) \in Nat
           /\ last + 8 * AmountCount(n - last) <= n
<1> DEFINE v == n - last  q == v \div 8
<1>1. v \in Nat /\ last + v = n
  OBVIOUS
<1> HIDE DEF v
<1>2. q \in Nat /\ v % 8 \in 0 .. 7 /\ v = 8 * q + (v % 8)
  BY <1>1, Quotient
<1> HIDE DEF q
<1>3. 8 * q <= v
  BY <1>1, <1>2
<1>4. last + 8 * q <= n
  BY <1>1, <1>2, <1>3
<1> QED
  BY <1>2, <1>4 DEF q, v, AmountCount

\* Where the amounts begin, and how many of them there are.
AfterMarkets(last, n) == last = 44 + 32 * n

LEMMA CreateData ==
    ASSUME NEW d, Tagged(d), NEW i \in CreateFields,
           NEW last, AfterMarkets(last, Len(i.markets))
    PROVE  /\ Upto(PackCreate(i), last + 8 * Len(i.deposit_amounts))
           /\ d[1] = 1 /\ UnpackCreate(Tail(d)) = i <=>
                /\ Starts(d, PackCreate(i))
                /\ AmountCount(Len(Tail(d)) - last) = Len(i.deposit_amounts)
<1> DEFINE r == Tail(d)
           n == Len(i.markets)
           m == Len(i.deposit_amounts)
           c == AmountCount(Len(r) - last)
           ps == [k \in DOMAIN i.deposit_amounts |-> LE(i.deposit_amounts[k], 8)]
           a1 == <<1>> \o i.pool_seed
           a2 == a1 \o LE(n, 2)
           a3 == a2 \o LE(i.fee_collection_period, 8)
           a4 == a3 \o LE(i.fee_ratio, 2)
           a5 == a4 \o Joined(i.markets, 32)
           a6 == a5 \o Joined(ps, 8)
           Market(k) == Get(r, 12 + 32 * k, 44 + 32 * k)
           Amount(k) == Num(r, last + 8 * (k - 1), last + 8 * k)
<1>1. /\ i.pool_seed \in Key /\ i.fee_collection_period \in Unsigned(8)
      /\ i.fee_ratio \in Unsigned(2) /\ i.markets \in Seq(Key)
      /\ i.deposit_amounts \in Seq(Unsigned(8))
      /\ Len(i.markets) < Values[2]
  BY DEF CreateFields
<1>2. n \in Unsigned(2) /\ n \in Nat /\ m \in Nat
  <2>1. n \in Nat /\ m \in Nat /\ Values[2] \in Nat
    <3>1. 2 \in Nat
      OBVIOUS
    <3> QED
      BY <1>1, <3>1, LenProperties, ValuesType
  <2>2. n < Values[2]
    BY <1>1
  <2> HIDE DEF n
  <2> QED
    BY <2>1, <2>2 DEF Unsigned
<1>3. ps \in Seq(Bytes(8)) /\ Len(ps) = m /\ \A k \in 1 .. m : ps[k] = LE(i.deposit_amounts[k], 8)
  <2>1. DOMAIN i.deposit_amounts = 1 .. m
    BY <1>1, LenProperties
  <2>2. ASSUME NEW k \in 1 .. m PROVE LE(i.deposit_amounts[k], 8) \in Bytes(8)
    <3>1. i.deposit_amounts[k] \in Unsigned(8) /\ 8 \in Nat
      BY <1>1, ElementOfSeq
    <3> QED
      BY <3>1, UnsignedIsNat, LEType DEF Bytes
  <2> HIDE DEF m
  <2>3. ps \in [1 .. m -> Bytes(8)]
    BY <2>1, <2>2
  <2> QED
    BY <1>2, <2>1, <2>3
<1>4. Field(32, 2, 34) /\ Field(34, 8, 42) /\ Field(42, 2, 44)
  BY DEF Field
<1>5. last \in Nat /\ Len(r) \in Nat
  BY <1>2, RestType DEF AfterMarkets
<1> HIDE DEF a1, ps
<1>6. /\ Upto(a1, 32)
      /\ Starts(d, a1) <=> d[1] = 1 /\ 32 <= Len(r) /\ Get(r, 0, 32) = i.pool_seed
  BY <1>1, TagAndSeed DEF a1
<1> HIDE DEF a2, n
<1>7. /\ Upto(a2, 34)
      /\ Starts(d, a2) <=> Starts(d, a1) /\ 34 <= Len(r) /\ Num(r, 32, 34) = n
  BY <1>2, <1>4, <1>6, NextNumber DEF a2
<1> HIDE DEF a3
<1>8. /\ Upto(a3, 42)
      /\ Starts(d, a3) <=> /\ Starts(d, a2) /\ 42 <= Len(r)
                           /\ Num(r, 34, 42) = i.fee_collection_period
  BY <1>1, <1>4, <1>7, NextNumber DEF a3
<1> HIDE DEF a4
<1>9. /\ Upto(a4, 44)
      /\ Starts(d, a4) <=> /\ Starts(d, a3) /\ 44 <= Len(r)
                           /\ Num(r, 42, 44) = i.fee_ratio
  BY <1>1, <1>4, <1>8, NextNumber DEF a4
<1> HIDE DEF a5, r
<1>10. /\ Upto(a5, last)
       /\ Starts(d, a5) <=> /\ Starts(d, a4) /\ last <= Len(r)
                            /\ \A k \in 1 .. n : Market(k) = i.markets[k]
  <2>1. 44 \in Nat /\ 32 \in Nat \ {0} /\ i.markets \in Seq(Bytes(32))
    BY <1>1 DEF Key, Bytes
  <2>2. /\ Upto(a5, 44 + 32 * n)
        /\ Starts(d, a5) <=>
             /\ Starts(d, a4) /\ 44 + 32 * n <= Len(r)
             /\ \A k \in 1 .. n : Get(r, 44 + 32 * (k - 1), 44 + 32 * k) = i.markets[k]
    BY <1>9, <2>1, NextPieces DEF a5, n, r
  <2>3. ASSUME NEW k \in 1 .. n PROVE Get(r, 44 + 32 * (k - 1), 44 + 32 * k) = Market(k)
    BY MarketPlace
  <2>4. last = 44 + 32 * n
    BY DEF n, AfterMarkets
  <2> HIDE DEF Market
  <2> QED
    BY <2>2, <2>3, <2>4
<1> HIDE DEF a6, m, Market
<1>11. /\ Upto(a6, last + 8 * m)
       /\ Starts(d, a6) <=>
            /\ Starts(d, a5) /\ last + 8 * m <= Len(r)
            /\ \A k \in 1 .. m : Get(r, last + 8 * (k - 1), last + 8 * k) = ps[k]
  <2>1. 8 \in Nat \ {0}
    OBVIOUS
  <2>2. /\ Upto(a6, last + 8 * Len(ps))
        /\ Starts(d, a6) <=>
             /\ Starts(d, a5) /\ last + 8 * Len(ps) <= Len(r)
             /\ \A k \in 1 .. Len(ps) : Get(r, last + 8 * (k - 1), last + 8 * k) = ps[k]
    <3>1. ps \in Seq(Bytes(8)) /\ Upto(a5, last)
      BY <1>3, <1>10
    <3> QED
      BY <1>5, <2>1, <3>1, NextPieces DEF a6, r
  <2> QED
    BY <1>3, <2>2
<1>12. last + 8 * m <= Len(r) =>
         \A k \in 1 .. m :
           Get(r, last + 8 * (k - 1), last + 8 * k) = ps[k] <=> Amount(k) = i.deposit_amounts[k]
  <2> SUFFICES ASSUME last + 8 * m <= Len(r), NEW k \in 1 .. m
               PROVE  Get(r, last + 8 * (k - 1), last + 8 * k) = ps[k]
                        <=> Amount(k) = i.deposit_amounts[k]
    OBVIOUS
  <2> DEFINE from == last + 8 * (k - 1)  to == last + 8 * k
  <2>1. Field(from, 8, to) /\ to <= Len(r)
    BY <1>2, <1>5 DEF Field
  <2>2. i.deposit_amounts[k] \in Unsigned(8)
    BY <1>1, ElementOfSeq DEF m
  <2> HIDE DEF from, to
  <2>3. Get(r, from, to) = LE(i.deposit_amounts[k], 8) <=> Num(r, from, to) = i.deposit_amounts[k]
    BY <2>1, <2>2, NumberAt DEF r
  <2> QED
    BY <1>3, <2>3 DEF from, to
<1> HIDE DEF Amount, c
<1>13. Starts(d, a6) <=>
         /\ d[1] = 1 /\ Get(r, 0, 32) = i.pool_seed /\ Num(r, 32, 34) = n
         /\ Num(r, 34, 42) = i.fee_collection_period /\ Num(r, 42, 44) = i.fee_ratio
         /\ 44 <= Len(r) /\ last <= Len(r) /\ last + 8 * m <= Len(r)
         /\ \A k \in 1 .. n : Market(k) = i.markets[k]
         /\ \A k \in 1 .. m : Amount(k) = i.deposit_amounts[k]
  <2>1. Starts(d, a4) <=>
         /\ d[1] = 1 /\ Get(r, 0, 32) = i.pool_seed /\ Num(r, 32, 34) = n
         /\ Num(r, 34, 42) = i.fee_collection_period /\ Num(r, 42, 44) = i.fee_ratio
         /\ 44 <= Len(r)
    BY <1>5, <1>6, <1>7, <1>8, <1>9
  <2>2. last + 8 * m <= Len(r) =>
          ((\A k \in 1 .. m : Get(r, last + 8 * (k - 1), last + 8 * k) = ps[k]) <=>
           (\A k \in 1 .. m : Amount(k) = i.deposit_amounts[k]))
    BY <1>12
  <2> QED
    BY <1>10, <1>11, <2>1, <2>2
<1>14. a6 = PackCreate(i)
  BY DEF PackCreate, a1, a2, a3, a4, a5, a6, n, ps
<1>14a. last <= Len(r) => c \in Nat /\ last + 8 * c <= Len(r)
  BY <1>5, AmountsFit DEF c
<1> DEFINE p == Num(r, 32, 34)
           Rec(l) == [op |-> "Create", pool_seed |-> Get(r, 0, 32),
                      fee_collection_period |-> Num(r, 34, 42),
                      fee_ratio |-> Num(r, 42, 44),
                      markets |-> [k \in 1 .. p |-> Market(k)],
                      deposit_amounts |-> [k \in 1 .. AmountCount(Len(r) - l) |->
                                             Num(r, l + 8 * (k - 1), l + 8 * k)]]
           u == Rec(last)
<1>15. 44 <= Len(r) => p \in Nat
  <2>1. 34 <= Len(r) => p \in Unsigned(2)
    BY <1>4, ReadType DEF r
  <2>2. 2 \in Nat
    OBVIOUS
  <2> QED
    BY <1>5, <2>1, <2>2, UnsignedIsNat
<1>16. UnpackCreate(r) = i <=> p = n /\ 44 <= Len(r) /\ last <= Len(r) /\ u = i
  <2>1. UnpackCreate(r) =
          IF Len(r) < 32 THEN Panicked
          ELSE IF Len(r) < (IF Len(r) < 44 THEN 44 ELSE 44 + 32 * p) THEN Refused
          ELSE Rec(44 + 32 * p)
    BY DEF UnpackCreate, Understood, Market
  <2>2. \A l : Rec(l).markets = [k \in 1 .. p |-> Market(k)]
    OBVIOUS
  <2>3. i \notin {Refused, Panicked} /\ DOMAIN i.markets = 1 .. n
    BY <1>1, LenProperties DEF CreateFields, Refused, Panicked, n
  <2> HIDE DEF Rec, p
  <2>4. ASSUME 44 <= Len(r), NEW l, Rec(l) = i PROVE p = n
    <3>1. i.markets = [k \in 1 .. p |-> Market(k)]
      BY <2>2, <2>4
    <3>2. 1 .. p = 1 .. n
      BY <2>3, <3>1
    <3> QED
      BY <1>2, <1>15, <2>4, <3>2
  <2>5. p = n => 44 + 32 * p = last
    BY DEF AfterMarkets, n
  <2>6. CASE Len(r) < 44
    BY <1>5, <2>1, <2>3, <2>6
  <2>7. CASE 44 <= Len(r)
    <3>1. UnpackCreate(r) = i <=> 44 + 32 * p <= Len(r) /\ Rec(44 + 32 * p) = i
      BY <1>5, <1>15, <2>1, <2>3, <2>7
    <3> DEFINE e == 44 + 32 * p
    <3>2. UnpackCreate(r) = i <=> e <= Len(r) /\ Rec(e) = i
      BY <3>1
    <3>3. p = n => e = last
      BY <2>5
    <3> HIDE DEF e
    <3>4. Rec(e) = i => p = n
      BY <2>4, <2>7
    <3>5. Rec(last) = i => p = n
      BY <2>4, <2>7
    <3> QED
      BY <2>7, <3>2, <3>3, <3>4, <3>5
  <2> QED
    BY <1>5, <2>6, <2>7
<1>17. u = i <=> /\ Get(r, 0, 32) = i.pool_seed
                 /\ Num(r, 34, 42) = i.fee_collection_period
                 /\ Num(r, 42, 44) = i.fee_ratio
                 /\ [k \in 1 .. p |-> Market(k)] = i.markets
                 /\ [k \in 1 .. c |-> Amount(k)] = i.deposit_amounts
  <2> DEFINE ms == [k \in 1 .. p |-> Market(k)]
             as == [k \in 1 .. c |-> Amount(k)]
  <2>1. u = [op |-> "Create", pool_seed |-> Get(r, 0, 32),
             fee_collection_period |-> Num(r, 34, 42),
             fee_ratio |-> Num(r, 42, 44), markets |-> ms, deposit_amounts |-> as]
    BY DEF c, Amount
  <2>2. i = [op |-> "Create", pool_seed |-> i.pool_seed,
             fee_collection_period |-> i.fee_collection_period,
             fee_ratio |-> i.fee_ratio, markets |-> i.markets,
             deposit_amounts |-> i.deposit_amounts]
    BY DEF CreateFields
  <2> HIDE DEF ms, as, u, p
  <2>3. u = i <=> /\ Get(r, 0, 32) = i.pool_seed
                  /\ Num(r, 34, 42) = i.fee_collection_period
                  /\ Num(r, 42, 44) = i.fee_ratio
                  /\ ms = i.markets /\ as = i.deposit_amounts
    <3>1. ASSUME u = i
          PROVE  /\ Get(r, 0, 32) = i.pool_seed
                 /\ Num(r, 34, 42) = i.fee_collection_period
                 /\ Num(r, 42, 44) = i.fee_ratio
                 /\ ms = i.markets /\ as = i.deposit_amounts
      <4>1. /\ u.pool_seed = Get(r, 0, 32)
            /\ u.fee_collection_period = Num(r, 34, 42)
            /\ u.fee_ratio = Num(r, 42, 44)
            /\ u.markets = ms /\ u.deposit_amounts = as
        BY <2>1
      <4> QED
        BY <3>1, <4>1, Zenon
    <3>2. ASSUME Get(r, 0, 32) = i.pool_seed,
                 Num(r, 34, 42) = i.fee_collection_period,
                 Num(r, 42, 44) = i.fee_ratio, ms = i.markets, as = i.deposit_amounts
          PROVE  u = i
      <4>1. u = [op |-> "Create", pool_seed |-> i.pool_seed,
                 fee_collection_period |-> i.fee_collection_period,
                 fee_ratio |-> i.fee_ratio, markets |-> i.markets,
                 deposit_amounts |-> i.deposit_amounts]
        BY <2>1, <3>2
      <4> QED
        BY <2>2, <4>1, Zenon
    <3> QED
      BY <3>1, <3>2
  <2> QED
    BY <2>3 DEF ms, as
<1> HIDE DEF u, Rec
<1>18. p = n => ([k \in 1 .. p |-> Market(k)] = i.markets <=>
                   \A k \in 1 .. n : Market(k) = i.markets[k])
  <2>1. i.markets = [k \in 1 .. n |-> i.markets[k]]
    BY <1>1, LenProperties DEF n
  <2> HIDE DEF p
  <2> QED
    BY <2>1
<1>19. c \in Nat => ([k \in 1 .. c |-> Amount(k)] = i.deposit_amounts <=>
                       c = m /\ \A k \in 1 .. m : Amount(k) = i.deposit_amounts[k])
  <2>1. i.deposit_amounts = [k \in 1 .. m |-> i.deposit_amounts[k]]
    BY <1>1, LenProperties DEF m
  <2>2. ASSUME c \in Nat, [k \in 1 .. c |-> Amount(k)] = i.deposit_amounts PROVE c = m
    <3>1. 1 .. c = 1 .. m
      BY <2>1, <2>2
    <3> QED
      BY <1>2, <2>2, <3>1
  <2>3. ASSUME c = m PROVE [k \in 1 .. c |-> Amount(k)] = i.deposit_amounts <=>
                            \A k \in 1 .. m : Amount(k) = i.deposit_amounts[k]
    BY <2>1, <2>3
  <2> QED
    BY <2>2, <2>3
<1> HIDE DEF p
<1>20. d[1] = 1 /\ UnpackCreate(r) = i <=>
         /\ d[1] = 1 /\ Get(r, 0, 32) = i.pool_seed /\ p = n
         /\ Num(r, 34, 42) = i.fee_collection_period /\ Num(r, 42, 44) = i.fee_ratio
         /\ 44 <= Len(r) /\ last <= Len(r) /\ c = m
         /\ \A k \in 1 .. n : Market(k) = i.markets[k]
         /\ \A k \in 1 .. m : Amount(k) = i.deposit_amounts[k]
  BY <1>14a, <1>16, <1>17, <1>18, <1>19
<1>21. last <= Len(r) /\ c = m => last + 8 * m <= Len(r)
  BY <1>14a
<1> QED
  BY <1>11, <1>13, <1>14, <1>20, <1>21 DEF c, m, p, r

LEMMA CreateRead ==
    ASSUME NEW d, Tagged(d), UnpackCreate(Tail(d)) \notin {Refused, Panicked}
    PROVE  UnpackCreate(Tail(d)) \in CreateFields
<1> DEFINE r == Tail(d)
           p == Num(r, 32, 34)
           last == 44 + 32 * p
           c == AmountCount(Len(r) - last)
           ms == [k \in 1 .. p |-> Get(r, 12 + 32 * k, 44 + 32 * k)]
           as == [k \in 1 .. c |-> Num(r, last + 8 * (k - 1), last + 8 * k)]
           u == [op |-> "Create", pool_seed |-> Get(r, 0, 32),
                 fee_collection_period |-> Num(r, 34, 42),
                 fee_ratio |-> Num(r, 42, 44), markets |-> ms, deposit_amounts |-> as]
<1>1. Len(r) \in Nat
  BY RestType
<1>2. /\ 44 <= Len(r)
      /\ UnpackCreate(r) = IF Len(r) < last THEN Refused ELSE u
  BY <1>1 DEF UnpackCreate, Understood
<1> HIDE DEF u
<1>3. /\ Field(0, 32, 32) /\ Field(32, 2, 34) /\ Field(34, 8, 42) /\ Field(42, 2, 44)
      /\ 32 <= Len(r) /\ 34 <= Len(r) /\ 42 <= Len(r)
  BY <1>1, <1>2 DEF Field
<1>4. Get(r, 0, 32) \in Key
  <2>1. Get(r, 0, 32) \in Bytes(32)
    BY <1>3, ReadType
  <2> QED
    BY <2>1 DEF Key, Bytes
<1>5. p \in Unsigned(2) /\ Num(r, 34, 42) \in Unsigned(8) /\ Num(r, 42, 44) \in Unsigned(2)
  BY <1>2, <1>3, ReadType
<1>6. p \in Nat /\ p < Values[2]
  <2>1. 2 \in Nat
    OBVIOUS
  <2>2. Values[2] \in Nat
    BY <2>1, ValuesType
  <2> HIDE DEF p
  <2> QED
    BY <1>5, <2>2 DEF Unsigned
<1> HIDE DEF p
<1>7. last \in Nat
  BY <1>6
<1>8. UnpackCreate(r) # Refused
  OBVIOUS
<1>9. last <= Len(r)
  <2> HIDE DEF last, ms, as
  <2> QED
    BY <1>1, <1>2, <1>7, <1>8
<1>10. ms \in Seq(Key) /\ Len(ms) = p
  <2>1. ASSUME NEW k \in 1 .. p PROVE Get(r, 12 + 32 * k, 44 + 32 * k) \in Key
    <3> DEFINE from == 12 + 32 * k  to == 44 + 32 * k
    <3>1. Field(from, 32, to) /\ to <= Len(r)
      BY <1>1, <1>6, <1>9 DEF Field
    <3> HIDE DEF from, to, r
    <3>2. Get(r, from, to) \in Bytes(32)
      BY <3>1, ReadType DEF r
    <3> QED
      BY <3>2 DEF Key, Bytes, from, to
  <2>2. ms \in [1 .. p -> Key]
    BY <2>1
  <2> HIDE DEF ms
  <2> QED
    BY <1>6, <2>2
<1>11. c \in Nat /\ last + 8 * c <= Len(r)
  <2> HIDE DEF last
  <2> QED
    BY <1>1, <1>7, <1>9, AmountsFit
<1> HIDE DEF c, last
<1>12. as \in Seq(Unsigned(8))
  <2>1. ASSUME NEW k \in 1 .. c PROVE Num(r, last + 8 * (k - 1), last + 8 * k) \in Unsigned(8)
    <3> DEFINE from == last + 8 * (k - 1)  to == last + 8 * k
    <3>1. Field(from, 8, to) /\ to <= Len(r)
      BY <1>1, <1>7, <1>11 DEF Field
    <3> HIDE DEF from, to, r
    <3>2. Num(r, from, to) \in Unsigned(8)
      BY <3>1, ReadType DEF r
    <3> QED
      BY <3>2 DEF from, to
  <2>2. as \in [1 .. c -> Unsigned(8)]
    BY <2>1
  <2> HIDE DEF as
  <2> QED
    BY <1>11, <2>2, SeqOf
<1> HIDE DEF ms, as
<1>13. UnpackCreate(r) = u
  BY <1>1, <1>2, <1>7, <1>9
<1>14. ms \in {m \in Seq(Key) : Len(m) < Values[2]}
  BY <1>6, <1>10
<1>15. u \in CreateFields
  BY <1>4, <1>5, <1>12, <1>14 DEF u, CreateFields
<1> QED
  BY <1>13, <1>15

-----------------------------------------------------------------------------
(* The two tables of instructions                                          *)

LEMMA PackOf ==
    /\ \A i \in InitFields : Pack(i) = PackInit(i)
    /\ \A i \in CreateFields : Pack(i) = PackCreate(i)
    /\ \A i \in AmountFields : Pack(i) = PackAmount(IF i.op = "Deposit" THEN 2 ELSE 6, i)
    /\ \A i \in CreateOrderFields : Pack(i) = PackCreateOrder(i)
    /\ \A i \in CancelOrderFields : Pack(i) = PackCancelOrder(i)
    /\ \A i \in SettleFundsFields : Pack(i) = PackSettleFunds(i)
    /\ \A i \in CollectFeesFields : Pack(i) = <<7>> \o i.pool_seed
<1>1. ASSUME NEW i \in InitFields PROVE Pack(i) = PackInit(i)
  <2>1. i.op = "Init"
    BY DEF InitFields
  <2> QED
    BY <2>1 DEF Pack
<1>2. ASSUME NEW i \in CreateFields PROVE Pack(i) = PackCreate(i)
  <2>1. i.op = "Create"
    BY DEF CreateFields
  <2> QED
    BY <2>1 DEF Pack
<1>3. ASSUME NEW i \in AmountFields
      PROVE  Pack(i) = PackAmount(IF i.op = "Deposit" THEN 2 ELSE 6, i)
  <2>1. i.op \in {"Deposit", "Redeem"}
    BY DEF AmountFields
  <2> QED
    BY <2>1 DEF Pack
<1>4. ASSUME NEW i \in CreateOrderFields PROVE Pack(i) = PackCreateOrder(i)
  <2>1. i.op = "CreateOrder"
    BY DEF CreateOrderFields
  <2> QED
    BY <2>1 DEF Pack
<1>5. ASSUME NEW i \in CancelOrderFields PROVE Pack(i) = PackCancelOrder(i)
  <2>1. i.op = "CancelOrder"
    BY DEF CancelOrderFields
  <2> QED
    BY <2>1 DEF Pack
<1>6. ASSUME NEW i \in SettleFundsFields PROVE Pack(i) = PackSettleFunds(i)
  <2>1. i.op = "SettleFunds"
    BY DEF SettleFundsFields
  <2> QED
    BY <2>1 DEF Pack
<1>7. ASSUME NEW i \in CollectFeesFields PROVE Pack(i) = <<7>> \o i.pool_seed
  <2>1. i.op = "CollectFees"
    BY DEF CollectFeesFields
  <2> QED
    BY <2>1 DEF Pack
<1> QED
  BY <1>1, <1>2, <1>3, <1>4, <1>5, <1>6, <1>7

LEMMA UnpackOf ==
    ASSUME NEW d, Tagged(d)
    PROVE  /\ d[1] = 0 => Unpack(d) = UnpackInit(Tail(d))
           /\ d[1] = 1 => Unpack(d) = UnpackCreate(Tail(d))
           /\ d[1] = 2 => Unpack(d) = UnpackAmount("Deposit", Tail(d))
           /\ d[1] = 3 => Unpack(d) = UnpackCreateOrder(Tail(d))
           /\ d[1] = 4 => Unpack(d) = UnpackCancelOrder(Tail(d))
           /\ d[1] = 5 => Unpack(d) = UnpackSettleFunds(Tail(d))
           /\ d[1] = 6 => Unpack(d) = UnpackAmount("Redeem", Tail(d))
           /\ d[1] = 7 => Unpack(d) = UnpackCollectFees(Tail(d))
           /\ d[1] \notin 0 .. 7 => Unpack(d) = Refused
BY DEF Tagged, Unpack

\* Data of some length begins with itself.
LEMMA Itself ==
    ASSUME NEW at \in Nat, NEW p, Upto(p, at)
    PROVE  Tagged(p) /\ Starts(p, p) /\ Len(Tail(p)) = at
<1>1. p \in Seq(Byte) /\ Len(p) = at + 1
  BY DEF Upto
<1>2. p # <<>>
  BY <1>1
<1>3. Tagged(p) /\ Len(Tail(p)) = Len(p) - 1
  BY <1>1, <1>2, HeadTailProperties DEF Tagged
<1>4. Starts(p, p) <=> Len(p) <= Len(p) /\ \A k \in 1 .. Len(p) : p[k] = p[k]
  <2>1. p \in Seq(Byte)
    BY <1>1
  <2> QED
    BY <2>1, StartsAt
<1> QED
  BY <1>1, <1>3, <1>4
\* What is packed is bytes, and unpacks to what it was.
LEMMA RoundTrip ==
    ASSUME NEW i \in PoolInstruction
    PROVE  Pack(i) \in Seq(Byte) /\ Pack(i) # <<>> /\ Unpack(Pack(i)) = i
<1>1. Tagged(<<0>>)
  <2>1. 0 \in Byte
    BY DataAssumption DEF Byte
  <2> QED
    BY <2>1 DEF Tagged
<1>2. i \in InitFields \/ i \in CreateFields \/ i \in AmountFields
      \/ i \in CreateOrderFields \/ i \in CancelOrderFields
      \/ i \in SettleFundsFields \/ i \in CollectFeesFields
  BY DEF PoolInstruction
<1>3. CASE i \in InitFields
  <2> DEFINE p == PackInit(i)
  <2>1. Upto(p, 38)
    BY <1>1, <1>3, InitData
  <2>2. Tagged(p) /\ Starts(p, p)
    BY <2>1, Itself
  <2>3. p[1] = 0 /\ UnpackInit(Tail(p)) = i
    BY <1>3, <2>2, InitData
  <2>4. Pack(i) = p
    BY <1>3, PackOf
  <2> HIDE DEF p
  <2>5. Unpack(p) = i
    BY <2>2, <2>3, UnpackOf
  <2> QED
    BY <2>2, <2>4, <2>5 DEF Tagged
<1>4. CASE i \in CreateOrderFields
  <2> DEFINE p == PackCreateOrder(i)
  <2>1. Upto(p, 121)
    BY <1>1, <1>4, CreateOrderData
  <2>2. Tagged(p) /\ Starts(p, p)
    BY <2>1, Itself
  <2>3. p[1] = 3 /\ UnpackCreateOrder(Tail(p)) = i
    BY <1>4, <2>2, CreateOrderData
  <2>4. Pack(i) = p
    BY <1>4, PackOf
  <2> HIDE DEF p
  <2>5. Unpack(p) = i
    BY <2>2, <2>3, UnpackOf
  <2> QED
    BY <2>2, <2>4, <2>5 DEF Tagged
<1>5. CASE i \in CancelOrderFields
  <2> DEFINE p == PackCancelOrder(i)
  <2>1. Upto(p, 49)
    BY <1>1, <1>5, CancelOrderData
  <2>2. Tagged(p) /\ Starts(p, p)
    BY <2>1, Itself
  <2>3. p[1] = 4 /\ UnpackCancelOrder(Tail(p)) = i
    BY <1>5, <2>2, CancelOrderData
  <2>4. Pack(i) = p
    BY <1>5, PackOf
  <2> HIDE DEF p
  <2>5. Unpack(p) = i
    BY <2>2, <2>3, UnpackOf
  <2> QED
    BY <2>2, <2>4, <2>5 DEF Tagged
<1>6. CASE i \in SettleFundsFields
  <2> DEFINE p == PackSettleFunds(i)
  <2>1. Upto(p, 48)
    BY <1>1, <1>6, SettleFundsData
  <2>2. Tagged(p) /\ Starts(p, p)
    BY <2>1, Itself
  <2>3. p[1] = 5 /\ UnpackSettleFunds(Tail(p)) = i
    BY <1>6, <2>2, SettleFundsData
  <2>4. Pack(i) = p
    BY <1>6, PackOf
  <2> HIDE DEF p
  <2>5. Unpack(p) = i
    BY <2>2, <2>3, UnpackOf
  <2> QED
    BY <2>2, <2>4, <2>5 DEF Tagged
<1>7. CASE i \in CollectFeesFields
  <2> DEFINE p == <<7>> \o i.pool_seed
  <2>1. Upto(p, 32)
    BY <1>1, <1>7, CollectFeesData
  <2>2. Tagged(p) /\ Starts(p, p)
    BY <2>1, Itself
  <2>3. p[1] = 7 /\ UnpackCollectFees(Tail(p)) = i
    BY <1>7, <2>2, CollectFeesData
  <2>4. Pack(i) = p
    BY <1>7, PackOf
  <2> HIDE DEF p
  <2>5. Unpack(p) = i
    BY <2>2, <2>3, UnpackOf
  <2> QED
    BY <2>2, <2>4, <2>5 DEF Tagged
<1>8. CASE i \in AmountFields
  <2> DEFINE tag == IF i.op = "Deposit" THEN 2 ELSE 6
             p == PackAmount(tag, i)
  <2>1. tag \in 0 .. 8 /\ ((i.op = "Deposit" /\ tag = 2) \/ (i.op = "Redeem" /\ tag = 6))
    BY <1>8 DEF AmountFields
  <2>2. Pack(i) = p
    BY <1>8, PackOf
  <2> HIDE DEF tag
  <2>3. Upto(p, 40)
    BY <1>1, <1>8, <2>1, AmountData
  <2>4. Tagged(p) /\ Starts(p, p)
    BY <2>3, Itself
  <2>5. p[1] = tag /\ UnpackAmount(i.op, Tail(p)) = i
    BY <1>8, <2>1, <2>4, AmountData
  <2> HIDE DEF p
  <2>6. Unpack(p) = UnpackAmount(i.op, Tail(p))
    <3>1. CASE i.op = "Deposit" /\ tag = 2
      BY <2>4, <2>5, <3>1, UnpackOf
    <3>2. CASE i.op = "Redeem" /\ tag = 6
      BY <2>4, <2>5, <3>2, UnpackOf
    <3> QED
      BY <2>1, <3>1, <3>2
  <2> QED
    BY <2>2, <2>4, <2>5, <2>6 DEF Tagged
<1>9. CASE i \in CreateFields
  <2> DEFINE p == PackCreate(i)
             n == Len(i.markets)
             m == Len(i.deposit_amounts)
             last == 44 + 32 * n
  <2>1. n \in Nat /\ m \in Nat /\ last \in Nat /\ last + 8 * m \in Nat
    <3>1. i.markets \in Seq(Key) /\ i.deposit_amounts \in Seq(Unsigned(8))
      BY <1>9 DEF CreateFields
    <3>2. n \in Nat /\ m \in Nat
      BY <3>1, LenProperties
    <3> HIDE DEF n, m
    <3> QED
      BY <3>2
  <2>2. AfterMarkets(last, n)
    BY DEF AfterMarkets
  <2>3. Pack(i) = p
    BY <1>9, PackOf
  <2> HIDE DEF last, p
  <2>4. Upto(p, last + 8 * m)
    BY <1>1, <1>9, <2>2, CreateData DEF p
  <2> DEFINE e == last + 8 * m
  <2>5. Tagged(p) /\ Starts(p, p) /\ Len(Tail(p)) = e
    <3> HIDE DEF e
    <3>1. e \in Nat /\ Upto(p, e)
      BY <2>1, <2>4 DEF e
    <3> QED
      BY <3>1, Itself
  <2>6. AmountCount(Len(Tail(p)) - last) = m
    <3> HIDE DEF m
    <3>1. e - last = 8 * m
      BY <2>1
    <3>2. 8 * m \in Nat /\ 0 \in 0 .. 8 - 1 /\ 8 \in Nat \ {0} /\ 8 * m = 8 * m + 0
      BY <2>1
    <3> DEFINE v == 8 * m
    <3>3. v \in Nat /\ v = 8 * m + 0
      BY <3>2
    <3> HIDE DEF v, e
    <3>4. v \div 8 = m
      BY <2>1, <3>2, <3>3, QuotientUnique
    <3> QED
      BY <2>5, <3>1, <3>4 DEF AmountCount, v
  <2> HIDE DEF m, n, e
  <2>7. p[1] = 1 /\ UnpackCreate(Tail(p)) = i
    BY <1>9, <2>2, <2>5, <2>6, CreateData DEF p, m, n
  <2>8. Unpack(p) = i
    BY <2>5, <2>7, UnpackOf
  <2> QED
    BY <2>3, <2>5, <2>8 DEF Tagged
<1> QED
  BY <1>2, <1>3, <1>4, <1>5, <1>6, <1>7, <1>8, <1>9

\* What is understood is an instruction, and packs to what the data begins with.
LEMMA Reading ==
    ASSUME NEW d \in Seq(Byte), Unpack(d) \notin {Refused, Panicked}
    PROVE  Unpack(d) \in PoolInstruction /\ Starts(d, Pack(Unpack(d)))
<1> DEFINE u == Unpack(d)
<1>1. Tagged(d)
  BY DEF Tagged, Unpack
<1>2. d[1] \in 0 .. 7
  BY <1>1, UnpackOf
<1>3. CASE d[1] = 0
  <2>1. u = UnpackInit(Tail(d))
    BY <1>1, <1>3, UnpackOf
  <2>2. u \in InitFields
    BY <1>1, <2>1, InitRead
  <2> HIDE DEF u
  <2>3. Starts(d, PackInit(u))
    BY <1>1, <1>3, <2>1, <2>2, InitData
  <2> QED
    BY <2>2, <2>3, PackOf DEF u, PoolInstruction
<1>4. CASE d[1] = 3
  <2>1. u = UnpackCreateOrder(Tail(d))
    BY <1>1, <1>4, UnpackOf
  <2>2. u \in CreateOrderFields
    BY <1>1, <2>1, CreateOrderRead
  <2> HIDE DEF u
  <2>3. Starts(d, PackCreateOrder(u))
    BY <1>1, <1>4, <2>1, <2>2, CreateOrderData
  <2> QED
    BY <2>2, <2>3, PackOf DEF u, PoolInstruction
<1>5. CASE d[1] = 4
  <2>1. u = UnpackCancelOrder(Tail(d))
    BY <1>1, <1>5, UnpackOf
  <2>2. u \in CancelOrderFields
    BY <1>1, <2>1, CancelOrderRead
  <2> HIDE DEF u
  <2>3. Starts(d, PackCancelOrder(u))
    BY <1>1, <1>5, <2>1, <2>2, CancelOrderData
  <2> QED
    BY <2>2, <2>3, PackOf DEF u, PoolInstruction
<1>6. CASE d[1] = 5
  <2>1. u = UnpackSettleFunds(Tail(d))
    BY <1>1, <1>6, UnpackOf
  <2>2. u \in SettleFundsFields
    BY <1>1, <2>1, SettleFundsRead
  <2> HIDE DEF u
  <2>3. Starts(d, PackSettleFunds(u))
    BY <1>1, <1>6, <2>1, <2>2, SettleFundsData
  <2> QED
    BY <2>2, <2>3, PackOf DEF u, PoolInstruction
<1>7. CASE d[1] = 7
  <2>1. u = UnpackCollectFees(Tail(d))
    BY <1>1, <1>7, UnpackOf
  <2>2. u \in CollectFeesFields
    BY <1>1, <2>1, CollectFeesRead
  <2> HIDE DEF u
  <2>3. Starts(d, <<7>> \o u.pool_seed)
    BY <1>1, <1>7, <2>1, <2>2, CollectFeesData
  <2> QED
    BY <2>2, <2>3, PackOf DEF u, PoolInstruction
<1>8. CASE d[1] = 1
  <2>1. u = UnpackCreate(Tail(d))
    BY <1>1, <1>8, UnpackOf
  <2>2. u \in CreateFields
    BY <1>1, <2>1, CreateRead
  <2> HIDE DEF u
  <2> DEFINE last == 44 + 32 * Len(u.markets)
  <2>3. AfterMarkets(last, Len(u.markets))
    BY DEF AfterMarkets
  <2> HIDE DEF last
  <2>4. Starts(d, PackCreate(u))
    BY <1>1, <1>8, <2>1, <2>2, <2>3, CreateData
  <2> QED
    BY <2>2, <2>4, PackOf DEF u, PoolInstruction
<1>9. CASE d[1] = 2
  <2>1. u = UnpackAmount("Deposit", Tail(d))
    BY <1>1, <1>9, UnpackOf
  <2>2. u \in AmountFields /\ u.op = "Deposit"
    <3>1. u \in AmountFields
      BY <1>1, <2>1, AmountRead
    <3>2. u.op = "Deposit"
      BY <2>1, RestType, <1>1 DEF UnpackAmount, Understood, Refused, Panicked
    <3> QED
      BY <3>1, <3>2
  <2> HIDE DEF u
  <2>3. Starts(d, PackAmount(2, u))
    <3>1. 2 \in 0 .. 8
      OBVIOUS
    <3> QED
      BY <1>1, <1>9, <2>1, <2>2, <3>1, AmountData
  <2> QED
    BY <2>2, <2>3, PackOf DEF u, PoolInstruction
<1>10. CASE d[1] = 6
  <2>1. u = UnpackAmount("Redeem", Tail(d))
    BY <1>1, <1>10, UnpackOf
  <2>2. u \in AmountFields /\ u.op = "Redeem"
    <3>1. u \in AmountFields
      BY <1>1, <2>1, AmountRead
    <3>2. u.op = "Redeem"
      BY <2>1, RestType, <1>1 DEF UnpackAmount, Understood, Refused, Panicked
    <3> QED
      BY <3>1, <3>2
  <2> HIDE DEF u
  <2>3. Starts(d, PackAmount(6, u))
    <3>1. 6 \in 0 .. 8
      OBVIOUS
    <3> QED
      BY <1>1, <1>10, <2>1, <2>2, <3>1, AmountData
  <2> QED
    BY <2>2, <2>3, PackOf DEF u, PoolInstruction
<1>11. d[1] \in {0, 1, 2, 3, 4, 5, 6, 7}
  BY <1>2
<1> QED
  BY <1>3, <1>4, <1>5, <1>6, <1>7, <1>8, <1>9, <1>10, <1>11

-----------------------------------------------------------------------------
(* Lists of accounts and of roles                                          *)

\* The roles of the accounts, and what an account of a list is.
Roles ==
    {"spl", "clock", "rent", "system", "serum", "dex", "provider", "owner", "payer",
     "pool", "mint", "poolTokens", "asset", "source", "target", "providerFee",
     "bonfidaFee", "buyBurnFee", "market", "payerAsset", "openOrders", "eventQueue",
     "requestQueue", "bids", "asks", "coinVault", "pcVault", "coinWallet",
     "pcWallet", "vaultSigner"}
Metas == [key : [owner : Roles, mint : Nat], writable : BOOLEAN, signer : BOOLEAN]

(* The accounts of a role that come one after the other are counted by     *)
(* Place.                                                                  *)
LEMMA PlaceOfRun ==
    ASSUME NEW roles, NEW h \in Nat, NEW n \in Nat, NEW role, Run(roles, h, n, role),
           NEW k \in 1 .. n
    PROVE  Place(roles, h + k) = k
BY RunIsCounted DEF Place

-----------------------------------------------------------------------------
(* The lists of the builders are the roles that the handlers take          *)

\* Accounts there is one of each, writable and signing by their role.
Named(s, roles, n, W, G) ==
    /\ Long(s, Metas, n) /\ Long(roles, Roles, n)
    /\ \A p \in 1 .. n : s[p] = Meta(The(roles[p]), roles[p] \in W, roles[p] \in G)

LEMMA NamedReadonly ==
    ASSUME NEW n, NEW roles, Long(roles, Roles, n), NEW W, NEW G,
           \A p \in 1 .. n : roles[p] \notin W /\ roles[p] \notin G
    PROVE  Named(Readonly(roles), roles, n, W, G)
<1>1. n \in Nat /\ roles \in Seq(Roles) /\ Len(roles) = n /\ DOMAIN roles = 1 .. n
  BY LenProperties DEF Long
<1>2. ASSUME NEW p \in 1 .. n PROVE Meta(The(roles[p]), FALSE, FALSE) \in Metas
  <2>1. roles[p] \in Roles
    BY <1>1, ElementOfSeq
  <2> QED
    BY <2>1 DEF Meta, Metas, The
<1>3. Readonly(roles) = [p \in 1 .. n |-> Meta(The(roles[p]), FALSE, FALSE)]
  BY <1>1 DEF Readonly
<1>4. Long(Readonly(roles), Metas, n)
  <2> DEFINE f == [p \in 1 .. n |-> Meta(The(roles[p]), FALSE, FALSE)]
  <2>1. f \in [1 .. n -> Metas]
    BY <1>2
  <2> HIDE DEF f
  <2>2. f \in Seq(Metas) /\ Len(f) = n
    BY <1>1, <2>1, SeqOf
  <2> QED
    BY <1>1, <1>3, <2>2 DEF Long, f
<1>5. ASSUME NEW p \in 1 .. n
      PROVE  Readonly(roles)[p] = Meta(The(roles[p]), roles[p] \in W, roles[p] \in G)
  <2>1. (roles[p] \in W) = FALSE /\ (roles[p] \in G) = FALSE
    OBVIOUS
  <2>2. Readonly(roles)[p] = Meta(The(roles[p]), FALSE, FALSE)
    BY <1>3
  <2> QED
    BY <2>1, <2>2
<1> QED
  BY <1>4, <1>5 DEF Named

LEMMA NamedWritable ==
    ASSUME NEW n, NEW roles, Long(roles, Roles, n), NEW W, NEW G,
           \A p \in 1 .. n : roles[p] \in W /\ roles[p] \notin G
    PROVE  Named(Writable(roles), roles, n, W, G)
<1>1. n \in Nat /\ roles \in Seq(Roles) /\ Len(roles) = n /\ DOMAIN roles = 1 .. n
  BY LenProperties DEF Long
<1>2. ASSUME NEW p \in 1 .. n PROVE Meta(The(roles[p]), TRUE, FALSE) \in Metas
  <2>1. roles[p] \in Roles
    BY <1>1, ElementOfSeq
  <2> QED
    BY <2>1 DEF Meta, Metas, The
<1>3. Writable(roles) = [p \in 1 .. n |-> Meta(The(roles[p]), TRUE, FALSE)]
  BY <1>1 DEF Writable
<1>4. Long(Writable(roles), Metas, n)
  <2> DEFINE f == [p \in 1 .. n |-> Meta(The(roles[p]), TRUE, FALSE)]
  <2>1. f \in [1 .. n -> Metas]
    BY <1>2
  <2> HIDE DEF f
  <2>2. f \in Seq(Metas) /\ Len(f) = n
    BY <1>1, <2>1, SeqOf
  <2> QED
    BY <1>1, <1>3, <2>2 DEF Long, f
<1>5. ASSUME NEW p \in 1 .. n
      PROVE  Writable(roles)[p] = Meta(The(roles[p]), roles[p] \in W, roles[p] \in G)
  <2>1. (roles[p] \in W) = TRUE /\ (roles[p] \in G) = FALSE
    OBVIOUS
  <2>2. Writable(roles)[p] = Meta(The(roles[p]), TRUE, FALSE)
    BY <1>3
  <2> QED
    BY <2>1, <2>2
<1> QED
  BY <1>4, <1>5 DEF Named

LEMMA NamedOne ==
    ASSUME NEW role \in Roles, NEW w \in BOOLEAN, NEW W, NEW G, role \in G,
           role \in W <=> w
    PROVE  Named(<<Meta(The(role), w, TRUE)>>, <<role>>, 1, W, G)
<1>1. Meta(The(role), w, TRUE) \in Metas
  BY DEF Meta, Metas, The
<1> DEFINE x == Meta(The(role), w, TRUE)
<1> HIDE DEF x
<1>2. Long(<<x>>, Metas, 1) /\ Long(<<role>>, Roles, 1)
  <2>1. x \in Metas
    BY <1>1 DEF x
  <2> QED
    BY <2>1 DEF Long
<1>3. x = Meta(The(role), role \in W, role \in G)
  <2>1. (role \in W) = w /\ (role \in G) = TRUE
    OBVIOUS
  <2> QED
    BY <2>1 DEF x
<1>4. Named(<<x>>, <<role>>, 1, W, G)
  BY <1>2, <1>3 DEF Named
<1> QED
  BY <1>4 DEF x

LEMMA NamedThen ==
    ASSUME NEW m, NEW n, NEW a, NEW b, NEW ra, NEW rb, NEW r, NEW W, NEW G,
           Named(a, ra, m, W, G), Named(b, rb, n, W, G),
           NEW e, e = m + n, Long(r, Roles, e), OneAfter(r, ra, m, rb, n)
    PROVE  Named(a \o b, r, e, W, G)
<1>1. m \in Nat /\ n \in Nat
  BY DEF Named, Long
<1> DEFINE s == a \o b
<1>2. Long(s, Metas, m + n) /\ OneAfter(s, a, m, b, n)
  BY Then DEF Named
<1> HIDE DEF s
<1>3. ASSUME NEW p \in 1 .. m + n
      PROVE  s[p] = Meta(The(r[p]), r[p] \in W, r[p] \in G)
  <2>1. CASE p <= m
    <3>1. p \in 1 .. m
      BY <2>1
    <3>2. s[p] = a[p] /\ r[p] = ra[p]
      BY <1>2, <3>1 DEF OneAfter
    <3> QED
      BY <3>1, <3>2 DEF Named
  <2>2. CASE ~(p <= m)
    <3>1. PICK k \in 1 .. n : p = m + k
      <4>1. p - m \in 1 .. n /\ p = m + (p - m)
        BY <1>1, <2>2
      <4> QED
        BY <4>1
    <3>2. s[m + k] = b[k] /\ r[m + k] = rb[k]
      BY <1>2 DEF OneAfter
    <3>3. b[k] = Meta(The(rb[k]), rb[k] \in W, rb[k] \in G)
      BY DEF Named
    <3> QED
      BY <3>1, <3>2, <3>3
  <2> QED
    BY <2>1, <2>2
<1>4. Named(s, r, e, W, G)
  BY <1>2, <1>3 DEF Named
<1> QED
  BY <1>4 DEF s

\* Init: the six accounts.
LEMMA InitNamed == Named(init, InitTakes, 6, {"pool", "mint", "payer"}, {"payer"})
<1> DEFINE W == {"pool", "mint", "payer"}
           G == {"payer"}
           a == Readonly(<<"system", "rent", "spl">>)
           b == Writable(<<"pool", "mint">>)
<1>1. Named(a, <<"system", "rent", "spl">>, 3, W, G)
  <2>1. Long(<<"system", "rent", "spl">>, Roles, 3)
    BY DEF Long, Roles
  <2>2. \A p \in 1 .. 3 : <<"system", "rent", "spl">>[p] \in {"system", "rent", "spl"}
    OBVIOUS
  <2> QED
    BY <2>1, <2>2, NamedReadonly
<1>2. Named(b, <<"pool", "mint">>, 2, W, G)
  <2>1. Long(<<"pool", "mint">>, Roles, 2)
    BY DEF Long, Roles
  <2>2. \A p \in 1 .. 2 : <<"pool", "mint">>[p] \in {"pool", "mint"}
    OBVIOUS
  <2> QED
    BY <2>1, <2>2, NamedWritable
<1>3. Named(Payer, <<"payer">>, 1, W, G)
  <2>1. "payer" \in Roles
    BY DEF Roles
  <2> QED
    BY <2>1, NamedOne DEF Payer
<1> DEFINE r == <<"system", "rent", "spl", "pool", "mint">>
<1>5. Named(a \o b, r, 5, W, G)
  <2>1. Long(r, Roles, 5)
    BY DEF Long, Roles
  <2>2. OneAfter(r, <<"system", "rent", "spl">>, 3, <<"pool", "mint">>, 2)
    BY DEF OneAfter
  <2> QED
    BY <1>1, <1>2, <2>1, <2>2, NamedThen
<1>6. Named(a \o b \o Payer, InitTakes, 6, W, G)
  <2>1. Long(InitTakes, Roles, 6)
    BY DEF Long, Roles, InitTakes
  <2>2. OneAfter(InitTakes, r, 5, <<"payer">>, 1)
    BY DEF OneAfter, InitTakes
  <2> QED
    BY <1>3, <1>5, <2>1, <2>2, NamedThen
<1> QED
  BY <1>6 DEF init

\* The accounts that come before those of the assets.
CreateRoles  == <<"spl", "clock", "serum", "provider", "mint", "poolTokens", "pool">>
DepositRoles ==
    <<"spl", "mint", "poolTokens", "providerFee", "bonfidaFee", "buyBurnFee",
      "pool">>
RedeemRoles  == <<"spl", "clock", "mint", "owner", "poolTokens", "pool">>
OrderRoles   ==
    <<"provider", "market", "payerAsset", "openOrders", "eventQueue",
      "requestQueue", "bids", "asks", "pool", "coinVault", "pcVault", "spl", "rent",
      "dex">>

\* CancelOrder: the eight accounts.
LEMMA CancelNamed ==
    Named(cancel_order, CancelTakes, 8,
          {"openOrders", "bids", "asks", "eventQueue"}, {"provider"})
<1> DEFINE W == {"openOrders", "bids", "asks", "eventQueue"}
           G == {"provider"}
           t1 == <<"provider">>
           s1 == Signer("provider")
           t2 == <<"market">>
           s2 == Readonly(t2)
           t3 == <<"openOrders", "bids", "asks", "eventQueue">>
           s3 == Writable(t3)
           t4 == <<"pool", "dex">>
           s4 == Readonly(t4)
           r2 == <<"provider", "market">>
           r3 == <<"provider", "market", "openOrders", "bids", "asks",
                 "eventQueue">>
<1>1. Named(s1, t1, 1, W, G)
  <2>1. "provider" \in Roles
    BY DEF Roles
  <2> QED
    BY <2>1, NamedOne DEF Signer
<1>2. Named(s2, t2, 1, W, G)
  <2>1. Long(t2, Roles, 1)
    BY DEF Long, Roles
  <2>2. \A p \in 1 .. 1 : t2[p] \notin W /\ t2[p] \notin G
    OBVIOUS
  <2> HIDE DEF t2
  <2> QED
    BY <2>1, <2>2, NamedReadonly
<1>3. Named(s3, t3, 4, W, G)
  <2>1. Long(t3, Roles, 4)
    BY DEF Long, Roles
  <2>2. \A p \in 1 .. 4 : t3[p] \in W /\ t3[p] \notin G
    OBVIOUS
  <2> HIDE DEF t3
  <2> QED
    BY <2>1, <2>2, NamedWritable
<1>4. Named(s4, t4, 2, W, G)
  <2>1. Long(t4, Roles, 2)
    BY DEF Long, Roles
  <2>2. \A p \in 1 .. 2 : t4[p] \notin W /\ t4[p] \notin G
    OBVIOUS
  <2> HIDE DEF t4
  <2> QED
    BY <2>1, <2>2, NamedReadonly
<1>5. Named(s1 \o s2, r2, 2, W, G)
  <2>1. Long(r2, Roles, 2)
    BY DEF Long, Roles
  <2>2. OneAfter(r2, t1, 1, t2, 1)
    BY DEF OneAfter
  <2>3. 2 = 1 + 1
    OBVIOUS
  <2> HIDE DEF r2, t1, t2
  <2> QED
    BY <1>1, <1>2, <2>1, <2>2, <2>3, NamedThen
<1>6. Named(s1 \o s2 \o s3, r3, 6, W, G)
  <2>1. Long(r3, Roles, 6)
    BY DEF Long, Roles
  <2>2. OneAfter(r3, r2, 2, t3, 4)
    BY DEF OneAfter
  <2>3. 6 = 2 + 4
    OBVIOUS
  <2> HIDE DEF r3, r2, t3
  <2> QED
    BY <1>5, <1>3, <2>1, <2>2, <2>3, NamedThen
<1>7. Named(s1 \o s2 \o s3 \o s4, CancelTakes, 8, W, G)
  <2>1. Long(CancelTakes, Roles, 8)
    BY DEF Long, Roles, CancelTakes
  <2>2. OneAfter(CancelTakes, r3, 6, t4, 2)
    BY DEF OneAfter, CancelTakes
  <2>3. 8 = 6 + 2
    OBVIOUS
  <2> HIDE DEF r3, t4
  <2> QED
    BY <1>6, <1>4, <2>1, <2>2, <2>3, NamedThen
<1> QED
  BY <1>7 DEF cancel_order

\* SettleFunds: the eleven accounts.
LEMMA SettleNamed ==
    Named(settle_funds, SettleTakes, 11,
          {"market", "openOrders", "pool", "coinVault", "pcVault", "coinWallet",
          "pcWallet"}, {})
<1> DEFINE W == {"market", "openOrders", "pool", "coinVault", "pcVault",
               "coinWallet", "pcWallet"}
           G == {}
           t1 == <<"market", "openOrders", "pool">>
           s1 == Writable(t1)
           t2 == <<"mint">>
           s2 == Readonly(t2)
           t3 == <<"coinVault", "pcVault", "coinWallet", "pcWallet">>
           s3 == Writable(t3)
           t4 == <<"vaultSigner", "spl", "dex">>
           s4 == Readonly(t4)
           r2 == <<"market", "openOrders", "pool", "mint">>
           r3 == <<"market", "openOrders", "pool", "mint", "coinVault", "pcVault",
                 "coinWallet", "pcWallet">>
<1>1. Named(s1, t1, 3, W, G)
  <2>1. Long(t1, Roles, 3)
    BY DEF Long, Roles
  <2>2. \A p \in 1 .. 3 : t1[p] \in W /\ t1[p] \notin G
    OBVIOUS
  <2> HIDE DEF t1
  <2> QED
    BY <2>1, <2>2, NamedWritable
<1>2. Named(s2, t2, 1, W, G)
  <2>1. Long(t2, Roles, 1)
    BY DEF Long, Roles
  <2>2. \A p \in 1 .. 1 : t2[p] \notin W /\ t2[p] \notin G
    OBVIOUS
  <2> HIDE DEF t2
  <2> QED
    BY <2>1, <2>2, NamedReadonly
<1>3. Named(s3, t3, 4, W, G)
  <2>1. Long(t3, Roles, 4)
    BY DEF Long, Roles
  <2>2. \A p \in 1 .. 4 : t3[p] \in W /\ t3[p] \notin G
    OBVIOUS
  <2> HIDE DEF t3
  <2> QED
    BY <2>1, <2>2, NamedWritable
<1>4. Named(s4, t4, 3, W, G)
  <2>1. Long(t4, Roles, 3)
    BY DEF Long, Roles
  <2>2. \A p \in 1 .. 3 : t4[p] \notin W /\ t4[p] \notin G
    OBVIOUS
  <2> HIDE DEF t4
  <2> QED
    BY <2>1, <2>2, NamedReadonly
<1>5. Named(s1 \o s2, r2, 4, W, G)
  <2>1. Long(r2, Roles, 4)
    BY DEF Long, Roles
  <2>2. OneAfter(r2, t1, 3, t2, 1)
    BY DEF OneAfter
  <2>3. 4 = 3 + 1
    OBVIOUS
  <2> HIDE DEF r2, t1, t2
  <2> QED
    BY <1>1, <1>2, <2>1, <2>2, <2>3, NamedThen
<1>6. Named(s1 \o s2 \o s3, r3, 8, W, G)
  <2>1. Long(r3, Roles, 8)
    BY DEF Long, Roles
  <2>2. OneAfter(r3, r2, 4, t3, 4)
    BY DEF OneAfter
  <2>3. 8 = 4 + 4
    OBVIOUS
  <2> HIDE DEF r3, r2, t3
  <2> QED
    BY <1>5, <1>3, <2>1, <2>2, <2>3, NamedThen
<1>7. Named(s1 \o s2 \o s3 \o s4, SettleTakes, 11, W, G)
  <2>1. Long(SettleTakes, Roles, 11)
    BY DEF Long, Roles, SettleTakes
  <2>2. OneAfter(SettleTakes, r3, 8, t4, 3)
    BY DEF OneAfter, SettleTakes
  <2>3. 11 = 8 + 3
    OBVIOUS
  <2> HIDE DEF r3, t4
  <2> QED
    BY <1>6, <1>4, <2>1, <2>2, <2>3, NamedThen
<1> QED
  BY <1>7 DEF settle_funds

\* CollectFees: the seven accounts.
LEMMA CollectNamed ==
    Named(collect_fees, CollectFeesTakes, 7,
          {"pool", "mint", "providerFee", "bonfidaFee", "buyBurnFee"}, {})
<1> DEFINE W == {"pool", "mint", "providerFee", "bonfidaFee", "buyBurnFee"}
           G == {}
           t1 == <<"spl", "clock">>
           s1 == Readonly(t1)
           t2 == <<"pool", "mint", "providerFee", "bonfidaFee", "buyBurnFee">>
           s2 == Writable(t2)
<1>1. Named(s1, t1, 2, W, G)
  <2>1. Long(t1, Roles, 2)
    BY DEF Long, Roles
  <2>2. \A p \in 1 .. 2 : t1[p] \notin W /\ t1[p] \notin G
    OBVIOUS
  <2> HIDE DEF t1
  <2> QED
    BY <2>1, <2>2, NamedReadonly
<1>2. Named(s2, t2, 5, W, G)
  <2>1. Long(t2, Roles, 5)
    BY DEF Long, Roles
  <2>2. \A p \in 1 .. 5 : t2[p] \in W /\ t2[p] \notin G
    OBVIOUS
  <2> HIDE DEF t2
  <2> QED
    BY <2>1, <2>2, NamedWritable
<1>3. Named(s1 \o s2, CollectFeesTakes, 7, W, G)
  <2>1. Long(CollectFeesTakes, Roles, 7)
    BY DEF Long, Roles, CollectFeesTakes
  <2>2. OneAfter(CollectFeesTakes, t1, 2, t2, 5)
    BY DEF OneAfter, CollectFeesTakes
  <2>3. 7 = 2 + 5
    OBVIOUS
  <2> HIDE DEF t1, t2
  <2> QED
    BY <1>1, <1>2, <2>1, <2>2, <2>3, NamedThen
<1> QED
  BY <1>3 DEF collect_fees

\* CreateOrder: the fourteen accounts that its builder lists.
LEMMA OrderNamed ==
    Named(create_order, OrderRoles, 14,
          {"market", "payerAsset", "openOrders", "eventQueue", "requestQueue",
          "bids", "asks", "pool", "coinVault", "pcVault"}, {"provider"})
<1> DEFINE W == {"market", "payerAsset", "openOrders", "eventQueue", "requestQueue",
               "bids", "asks", "pool", "coinVault", "pcVault"}
           G == {"provider"}
           t1 == <<"provider">>
           s1 == Signer("provider")
           t2 == <<"market", "payerAsset", "openOrders", "eventQueue",
                 "requestQueue", "bids", "asks", "pool", "coinVault", "pcVault">>
           s2 == Writable(t2)
           t3 == <<"spl", "rent", "dex">>
           s3 == Readonly(t3)
           r2 == <<"provider", "market", "payerAsset", "openOrders", "eventQueue",
                 "requestQueue", "bids", "asks", "pool", "coinVault", "pcVault">>
<1>1. Named(s1, t1, 1, W, G)
  <2>1. "provider" \in Roles
    BY DEF Roles
  <2> QED
    BY <2>1, NamedOne DEF Signer
<1>2. Named(s2, t2, 10, W, G)
  <2>1. Long(t2, Roles, 10)
    BY DEF Long, Roles
  <2>2. \A p \in 1 .. 10 : t2[p] \in W /\ t2[p] \notin G
    OBVIOUS
  <2> HIDE DEF t2
  <2> QED
    BY <2>1, <2>2, NamedWritable
<1>3. Named(s3, t3, 3, W, G)
  <2>1. Long(t3, Roles, 3)
    BY DEF Long, Roles
  <2>2. \A p \in 1 .. 3 : t3[p] \notin W /\ t3[p] \notin G
    OBVIOUS
  <2> HIDE DEF t3
  <2> QED
    BY <2>1, <2>2, NamedReadonly
<1>4. Named(s1 \o s2, r2, 11, W, G)
  <2>1. Long(r2, Roles, 11)
    BY DEF Long, Roles
  <2>2. OneAfter(r2, t1, 1, t2, 10)
    BY DEF OneAfter
  <2>3. 11 = 1 + 10
    OBVIOUS
  <2> HIDE DEF r2, t1, t2
  <2> QED
    BY <1>1, <1>2, <2>1, <2>2, <2>3, NamedThen
<1>5. Named(s1 \o s2 \o s3, OrderRoles, 14, W, G)
  <2>1. Long(OrderRoles, Roles, 14)
    BY DEF Long, Roles, OrderRoles
  <2>2. OneAfter(OrderRoles, r2, 11, t3, 3)
    BY DEF OneAfter, OrderRoles
  <2>3. 14 = 11 + 3
    OBVIOUS
  <2> HIDE DEF r2, t3
  <2> QED
    BY <1>4, <1>3, <2>1, <2>2, <2>3, NamedThen
<1> QED
  BY <1>5 DEF create_order

\* Create: the accounts before the assets.
LEMMA CreateHead ==
    Named(Readonly(<<"spl", "clock", "serum", "provider">>)
            \o Writable(<<"mint", "poolTokens", "pool">>), CreateRoles, 7,
          {"mint", "poolTokens", "pool"}, {})
<1> DEFINE W == {"mint", "poolTokens", "pool"}
           G == {}
           t1 == <<"spl", "clock", "serum", "provider">>
           s1 == Readonly(t1)
           t2 == <<"mint", "poolTokens", "pool">>
           s2 == Writable(t2)
<1>1. Named(s1, t1, 4, W, G)
  <2>1. Long(t1, Roles, 4)
    BY DEF Long, Roles
  <2>2. \A p \in 1 .. 4 : t1[p] \notin W /\ t1[p] \notin G
    OBVIOUS
  <2> HIDE DEF t1
  <2> QED
    BY <2>1, <2>2, NamedReadonly
<1>2. Named(s2, t2, 3, W, G)
  <2>1. Long(t2, Roles, 3)
    BY DEF Long, Roles
  <2>2. \A p \in 1 .. 3 : t2[p] \in W /\ t2[p] \notin G
    OBVIOUS
  <2> HIDE DEF t2
  <2> QED
    BY <2>1, <2>2, NamedWritable
<1>3. Named(s1 \o s2, CreateRoles, 7, W, G)
  <2>1. Long(CreateRoles, Roles, 7)
    BY DEF Long, Roles, CreateRoles
  <2>2. OneAfter(CreateRoles, t1, 4, t2, 3)
    BY DEF OneAfter, CreateRoles
  <2>3. 7 = 4 + 3
    OBVIOUS
  <2> HIDE DEF t1, t2
  <2> QED
    BY <1>1, <1>2, <2>1, <2>2, <2>3, NamedThen
<1> QED
  BY <1>3

\* Deposit: the accounts before the assets.
LEMMA DepositHead ==
    Named(Readonly(<<"spl">>)
            \o Writable(<<"mint", "poolTokens", "providerFee", "bonfidaFee", "buyBurnFee">>)
            \o Readonly(<<"pool">>), DepositRoles, 7,
          {"mint", "poolTokens", "providerFee", "bonfidaFee", "buyBurnFee"}, {})
<1> DEFINE W == {"mint", "poolTokens", "providerFee", "bonfidaFee", "buyBurnFee"}
           G == {}
           t1 == <<"spl">>
           s1 == Readonly(t1)
           t2 == <<"mint", "poolTokens", "providerFee", "bonfidaFee", "buyBurnFee">>
           s2 == Writable(t2)
           t3 == <<"pool">>
           s3 == Readonly(t3)
           r2 == <<"spl", "mint", "poolTokens", "providerFee", "bonfidaFee",
                 "buyBurnFee">>
<1>1. Named(s1, t1, 1, W, G)
  <2>1. Long(t1, Roles, 1)
    BY DEF Long, Roles
  <2>2. \A p \in 1 .. 1 : t1[p] \notin W /\ t1[p] \notin G
    OBVIOUS
  <2> HIDE DEF t1
  <2> QED
    BY <2>1, <2>2, NamedReadonly
<1>2. Named(s2, t2, 5, W, G)
  <2>1. Long(t2, Roles, 5)
    BY DEF Long, Roles
  <2>2. \A p \in 1 .. 5 : t2[p] \in W /\ t2[p] \notin G
    OBVIOUS
  <2> HIDE DEF t2
  <2> QED
    BY <2>1, <2>2, NamedWritable
<1>3. Named(s3, t3, 1, W, G)
  <2>1. Long(t3, Roles, 1)
    BY DEF Long, Roles
  <2>2. \A p \in 1 .. 1 : t3[p] \notin W /\ t3[p] \notin G
    OBVIOUS
  <2> HIDE DEF t3
  <2> QED
    BY <2>1, <2>2, NamedReadonly
<1>4. Named(s1 \o s2, r2, 6, W, G)
  <2>1. Long(r2, Roles, 6)
    BY DEF Long, Roles
  <2>2. OneAfter(r2, t1, 1, t2, 5)
    BY DEF OneAfter
  <2>3. 6 = 1 + 5
    OBVIOUS
  <2> HIDE DEF r2, t1, t2
  <2> QED
    BY <1>1, <1>2, <2>1, <2>2, <2>3, NamedThen
<1>5. Named(s1 \o s2 \o s3, DepositRoles, 7, W, G)
  <2>1. Long(DepositRoles, Roles, 7)
    BY DEF Long, Roles, DepositRoles
  <2>2. OneAfter(DepositRoles, r2, 6, t3, 1)
    BY DEF OneAfter, DepositRoles
  <2>3. 7 = 6 + 1
    OBVIOUS
  <2> HIDE DEF r2, t3
  <2> QED
    BY <1>4, <1>3, <2>1, <2>2, <2>3, NamedThen
<1> QED
  BY <1>5

\* Redeem: the accounts before the assets.
LEMMA RedeemHead ==
    Named(Readonly(<<"spl", "clock">>) \o Writable(<<"mint">>) \o Signer("owner")
            \o Writable(<<"poolTokens", "pool">>), RedeemRoles, 6,
          {"mint", "poolTokens", "pool"}, {"owner"})
<1> DEFINE W == {"mint", "poolTokens", "pool"}
           G == {"owner"}
           t1 == <<"spl", "clock">>
           s1 == Readonly(t1)
           t2 == <<"mint">>
           s2 == Writable(t2)
           t3 == <<"owner">>
           s3 == Signer("owner")
           t4 == <<"poolTokens", "pool">>
           s4 == Writable(t4)
           r2 == <<"spl", "clock", "mint">>
           r3 == <<"spl", "clock", "mint", "owner">>
<1>1. Named(s1, t1, 2, W, G)
  <2>1. Long(t1, Roles, 2)
    BY DEF Long, Roles
  <2>2. \A p \in 1 .. 2 : t1[p] \notin W /\ t1[p] \notin G
    OBVIOUS
  <2> HIDE DEF t1
  <2> QED
    BY <2>1, <2>2, NamedReadonly
<1>2. Named(s2, t2, 1, W, G)
  <2>1. Long(t2, Roles, 1)
    BY DEF Long, Roles
  <2>2. \A p \in 1 .. 1 : t2[p] \in W /\ t2[p] \notin G
    OBVIOUS
  <2> HIDE DEF t2
  <2> QED
    BY <2>1, <2>2, NamedWritable
<1>3. Named(s3, t3, 1, W, G)
  <2>1. "owner" \in Roles
    BY DEF Roles
  <2> QED
    BY <2>1, NamedOne DEF Signer
<1>4. Named(s4, t4, 2, W, G)
  <2>1. Long(t4, Roles, 2)
    BY DEF Long, Roles
  <2>2. \A p \in 1 .. 2 : t4[p] \in W /\ t4[p] \notin G
    OBVIOUS
  <2> HIDE DEF t4
  <2> QED
    BY <2>1, <2>2, NamedWritable
<1>5. Named(s1 \o s2, r2, 3, W, G)
  <2>1. Long(r2, Roles, 3)
    BY DEF Long, Roles
  <2>2. OneAfter(r2, t1, 2, t2, 1)
    BY DEF OneAfter
  <2>3. 3 = 2 + 1
    OBVIOUS
  <2> HIDE DEF r2, t1, t2
  <2> QED
    BY <1>1, <1>2, <2>1, <2>2, <2>3, NamedThen
<1>6. Named(s1 \o s2 \o s3, r3, 4, W, G)
  <2>1. Long(r3, Roles, 4)
    BY DEF Long, Roles
  <2>2. OneAfter(r3, r2, 3, t3, 1)
    BY DEF OneAfter
  <2>3. 4 = 3 + 1
    OBVIOUS
  <2> HIDE DEF r3, r2, t3
  <2> QED
    BY <1>5, <1>3, <2>1, <2>2, <2>3, NamedThen
<1>7. Named(s1 \o s2 \o s3 \o s4, RedeemRoles, 6, W, G)
  <2>1. Long(RedeemRoles, Roles, 6)
    BY DEF Long, Roles, RedeemRoles
  <2>2. OneAfter(RedeemRoles, r3, 4, t4, 2)
    BY DEF OneAfter, RedeemRoles
  <2>3. 6 = 4 + 2
    OBVIOUS
  <2> HIDE DEF r3, t4
  <2> QED
    BY <1>6, <1>4, <2>1, <2>2, <2>3, NamedThen
<1> QED
  BY <1>7

-----------------------------------------------------------------------------
(* A list of accounts matches a list of roles: each place has the key that *)
(* its role means, and what a role changes or signs with, it may.          *)
Wallets == {"asset", "source", "target"}

MatchesAt(L, R, W, G, p) ==
    /\ L[p].key = Meant(R, p)
    /\ R[p] \in W => L[p].writable
    /\ R[p] \in G => L[p].signer
Matches(L, R, W, G) ==
    /\ Len(L) = Len(R) /\ Len(R) \in Nat /\ DOMAIN R = 1 .. Len(R)
    /\ \A p \in 1 .. Len(R) : MatchesAt(L, R, W, G, p)

IsMeta(e, k, w, s) == e.key = k /\ (e.writable <=> w) /\ (e.signer <=> s)

LEMMA MetaParts ==
    ASSUME NEW k, NEW w \in BOOLEAN, NEW s \in BOOLEAN, NEW e, e = Meta(k, w, s)
    PROVE  IsMeta(e, k, w, s)
<1>1. e = [key |-> k, writable |-> w, signer |-> s]
  BY DEF Meta
<1>2. e.key = k /\ e.writable = w /\ e.signer = s
  BY <1>1
<1> QED
  BY <1>2 DEF IsMeta

LEMMA MatchesOne ==
    ASSUME NEW L, NEW R, NEW W, NEW G, NEW p, R[p] \notin Wallets,
           L[p] = Meta(The(R[p]), R[p] \in W, R[p] \in G)
    PROVE  MatchesAt(L, R, W, G, p)
<1>1. Meant(R, p) = The(R[p])
  BY DEF Meant, Wallets
<1>2. (R[p] \in W) \in BOOLEAN /\ (R[p] \in G) \in BOOLEAN
  OBVIOUS
<1>3. IsMeta(L[p], The(R[p]), R[p] \in W, R[p] \in G)
  BY <1>2, MetaParts
<1>4. L[p].key = The(R[p]) /\ (L[p].writable <=> R[p] \in W)
        /\ (L[p].signer <=> R[p] \in G)
  BY ONLY <1>3 DEF IsMeta
<1>5. L[p].key = Meant(R, p)
  BY <1>1, <1>4
<1> QED
  BY <1>4, <1>5 DEF MatchesAt

LEMMA MatchesToken ==
    ASSUME NEW L, NEW R, NEW W, NEW G, NEW p, NEW k, R[p] \in Wallets, R[p] \notin G,
           Place(R, p) = k, L[p] = Meta(Token(R[p], k), TRUE, FALSE)
    PROVE  MatchesAt(L, R, W, G, p)
<1>1. Meant(R, p) = Token(R[p], k)
  BY DEF Meant, Wallets
<1>2. IsMeta(L[p], Token(R[p], k), TRUE, FALSE)
  BY MetaParts
<1>3. L[p].key = Meant(R, p) /\ L[p].writable
  BY <1>1, <1>2 DEF IsMeta
<1> QED
  BY <1>3 DEF MatchesAt

LEMMA NamedMatches ==
    ASSUME NEW L, NEW R, NEW n, NEW W, NEW G, Named(L, R, n, W, G),
           \A p \in 1 .. n : R[p] \notin Wallets
    PROVE  Matches(L, R, W, G)
<1>1. /\ Len(L) = n /\ Len(R) = n /\ n \in Nat /\ DOMAIN R = 1 .. n
      /\ \A p \in 1 .. n : L[p] = Meta(The(R[p]), R[p] \in W, R[p] \in G)
  BY LenProperties DEF Named, Long
<1>2. \A p \in 1 .. n : MatchesAt(L, R, W, G, p)
  BY <1>1, MatchesOne
<1> QED
  BY <1>1, <1>2 DEF Matches

\* The accounts of the assets and of the caller.
LEMMA KeysOf ==
    ASSUME NEW role \in Roles, NEW n \in Nat
    PROVE  /\ Keys(Nth(role, n)) \in [1 .. n -> Metas]
           /\ Times(n, role) \in [1 .. n -> Roles]
           /\ \A k \in 1 .. n : /\ Keys(Nth(role, n))[k] = Meta(Token(role, k), TRUE, FALSE)
                                /\ Times(n, role)[k] = role
<1>1. Keys(Nth(role, n)) = [k \in 1 .. n |-> Meta(Token(role, k), TRUE, FALSE)]
  BY DEF Keys, Nth
<1>2. ASSUME NEW k \in 1 .. n PROVE Meta(Token(role, k), TRUE, FALSE) \in Metas
  BY DEF Meta, Token, Metas
<1>3. Keys(Nth(role, n)) \in [1 .. n -> Metas]
  BY <1>1, <1>2
<1>4. /\ Times(n, role) \in [1 .. n -> Roles]
      /\ \A k \in 1 .. n : Times(n, role)[k] = role
  BY DEF Times
<1> QED
  BY <1>1, <1>3, <1>4

\* The lists and the roles with the caller's accounts after those of the assets.
OfOwner(L, h, n) ==
    L = h \o Keys(Nth("asset", n)) \o Signer("owner") \o Keys(Nth("source", n))
OwnerRoles(R, rh, n) == R = rh \o Times(n, "asset") \o <<"owner">> \o Times(n, "source")

OfTarget(L, h, n) == L = h \o Keys(Nth("asset", n)) \o Keys(Nth("target", n))
TargetRoles(R, rh, n) == R = rh \o Times(n, "asset") \o Times(n, "target")

\* The owner is after the n assets, none of which signs.
Owned(L, R, m, n) ==
    /\ Len(R) = m + n + 1 + n /\ R[m + n + 1] = "owner"
    /\ \A k \in 1 .. n : ~L[m + k].signer

LEMMA LaidMatches ==
    ASSUME NEW n \in Nat, NEW h, NEW rh, NEW m, NEW W, NEW G, Named(h, rh, m, W, G),
           \A p \in 1 .. m : rh[p] \notin Wallets /\ rh[p] # "owner",
           \A role \in Wallets : role \notin G, "owner" \in G, "owner" \notin W,
           NEW L, OfOwner(L, h, n), NEW R, OwnerRoles(R, rh, n)
    PROVE  /\ Matches(L, R, W, G) /\ Owned(L, R, m, n)
           /\ \A p \in 1 .. m : R[p] = rh[p]
<1> DEFINE y == Meta(The("owner"), FALSE, TRUE)
           x == Keys(Nth("asset", n))  z == Keys(Nth("source", n))
           rx == Times(n, "asset")  rz == Times(n, "source")
<1>1. m \in Nat /\ Long(h, Metas, m) /\ Long(rh, Roles, m)
  BY DEF Named, Long
<1>2. "asset" \in Roles /\ "source" \in Roles /\ "owner" \in Roles
  BY DEF Roles
<1>3. y \in Metas
  BY <1>2 DEF Meta, Metas, The
<1>4. /\ x \in [1 .. n -> Metas] /\ z \in [1 .. n -> Metas]
      /\ rx \in [1 .. n -> Roles] /\ rz \in [1 .. n -> Roles]
      /\ \A k \in 1 .. n : /\ x[k] = Meta(Token("asset", k), TRUE, FALSE)
                           /\ z[k] = Meta(Token("source", k), TRUE, FALSE)
                           /\ rx[k] = "asset" /\ rz[k] = "source"
  BY <1>2, KeysOf
<1> HIDE DEF x, z, rx, rz
<1>5. Laid(L, h, m, x, y, z, n)
  <2>1. L = LaidSeq(h, x, y, z)
    BY DEF OfOwner, LaidSeq, Signer, x, z
  <2> HIDE DEF y
  <2>2. Laid(LaidSeq(h, x, y, z), h, m, x, y, z, n)
    BY <1>1, <1>3, <1>4, LaidOut
  <2> QED
    BY <2>1, <2>2
<1>6. Laid(R, rh, m, rx, "owner", rz, n) /\ R \in Seq(Roles)
  <2>1. R = LaidSeq(rh, rx, "owner", rz)
    BY DEF OwnerRoles, LaidSeq, rx, rz
  <2>2. /\ Laid(LaidSeq(rh, rx, "owner", rz), rh, m, rx, "owner", rz, n)
        /\ LaidSeq(rh, rx, "owner", rz) \in Seq(Roles)
    BY <1>1, <1>2, <1>4, LaidOut
  <2> QED
    BY <2>1, <2>2
<1>7. R \in Seq(Roles)
  BY <1>6
<1>8. /\ \A p \in 1 .. m : R[p] = rh[p]
      /\ \A k \in 1 .. n : R[m + k] = "asset"
      /\ R[m + n + 1] = "owner"
      /\ \A k \in 1 .. n : R[m + n + 1 + k] = "source"
      /\ Len(R) = m + n + 1 + n /\ Len(L) = m + n + 1 + n
  <2>1. /\ \A p \in 1 .. m : R[p] = rh[p]
        /\ R[m + n + 1] = "owner" /\ Len(R) = m + n + 1 + n
    BY <1>6 DEF Laid
  <2>2. Len(L) = m + n + 1 + n
    BY <1>5 DEF Laid
  <2>3. ASSUME NEW k \in 1 .. n PROVE R[m + k] = "asset"
    <3>1. R[m + k] = rx[k]
      BY <1>6 DEF Laid
    <3> QED
      BY <1>4, <3>1
  <2>4. ASSUME NEW k \in 1 .. n PROVE R[m + n + 1 + k] = "source"
    <3>1. R[m + n + 1 + k] = rz[k]
      BY <1>6 DEF Laid
    <3> QED
      BY <1>4, <3>1
  <2> QED
    BY <2>1, <2>2, <2>3, <2>4
<1>9. ASSUME NEW p \in 1 .. m PROVE MatchesAt(L, R, W, G, p)
  <2>1. L[p] = h[p] /\ R[p] = rh[p]
    BY <1>5, <1>8 DEF Laid
  <2>2. h[p] = Meta(The(rh[p]), rh[p] \in W, rh[p] \in G)
    BY DEF Named
  <2>3. L[p] = Meta(The(R[p]), R[p] \in W, R[p] \in G) /\ R[p] \notin Wallets
    BY <2>1, <2>2
  <2> QED
    BY <2>3, MatchesOne
<1>10. ASSUME NEW k \in 1 .. n PROVE MatchesAt(L, R, W, G, m + k)
  <2>1. \A q \in 1 .. m : R[q] # "asset"
    BY <1>8 DEF Wallets
  <2>2. Place(R, m + k) = k
    <3>1. Run(R, m, n, "asset")
      BY <1>8, <2>1 DEF Run
    <3> QED
      BY <1>1, <3>1, PlaceOfRun
  <2>3. L[m + k] = Meta(Token("asset", k), TRUE, FALSE) /\ R[m + k] = "asset"
    BY <1>4, <1>5, <1>8 DEF Laid
  <2>4. "asset" \in Wallets
    BY DEF Wallets
  <2> QED
    BY <2>2, <2>3, <2>4, MatchesToken
<1>11. MatchesAt(L, R, W, G, m + n + 1)
  <2>1. L[m + n + 1] = y /\ R[m + n + 1] = "owner"
    BY <1>5, <1>8 DEF Laid
  <2>2. ("owner" \in W) = FALSE /\ ("owner" \in G) = TRUE /\ "owner" \notin Wallets
    BY DEF Wallets
  <2>3. L[m + n + 1] = Meta(The("owner"), "owner" \in W, "owner" \in G)
    BY <2>1, <2>2
  <2> QED
    BY <2>1, <2>2, <2>3, MatchesOne
<1>12. ASSUME NEW k \in 1 .. n PROVE MatchesAt(L, R, W, G, m + n + 1 + k)
  <2> DEFINE h2 == m + n + 1
  <2>1. ASSUME NEW q \in 1 .. h2 PROVE R[q] # "source"
    <3>1. CASE q <= m
      BY <1>8, <3>1 DEF Wallets
    <3>2. CASE q = m + n + 1
      BY <1>8, <3>2
    <3>3. CASE ~(q <= m) /\ q # m + n + 1
      <4>1. q - m \in 1 .. n /\ m + (q - m) = q
        BY <1>1, <3>3
      <4>2. R[m + (q - m)] = "asset"
        BY <1>8, <4>1
      <4> QED
        BY <4>1, <4>2
    <3> QED
      BY <3>1, <3>2, <3>3
  <2>2. Place(R, h2 + k) = k
    <3>1. \A q \in 1 .. m + n + 1 : R[q] # "source"
      BY <2>1
    <3>2. Run(R, m + n + 1, n, "source")
      BY <1>8, <3>1 DEF Run
    <3>3. h2 \in Nat
      BY <1>1
    <3>4. Run(R, h2, n, "source")
      BY <3>2
    <3> HIDE DEF h2
    <3> QED
      BY <3>3, <3>4, PlaceOfRun
  <2>3. L[h2 + k] = Meta(Token("source", k), TRUE, FALSE) /\ R[h2 + k] = "source"
    BY <1>4, <1>5, <1>8 DEF Laid
  <2>4. "source" \in Wallets
    BY DEF Wallets
  <2> HIDE DEF h2
  <2>5. MatchesAt(L, R, W, G, h2 + k)
    BY <2>2, <2>3, <2>4, MatchesToken
  <2> QED
    BY <2>5 DEF h2
<1>13. ASSUME NEW p \in 1 .. m + n + 1 + n PROVE MatchesAt(L, R, W, G, p)
  <2>1. CASE p <= m
    BY <1>9, <2>1
  <2>2. CASE ~(p <= m) /\ p <= m + n
    <3>1. p - m \in 1 .. n /\ m + (p - m) = p
      BY <1>1, <2>2
    <3>2. MatchesAt(L, R, W, G, m + (p - m))
      BY <1>10, <3>1
    <3> QED
      BY <3>1, <3>2
  <2>3. CASE p = m + n + 1
    BY <1>11, <2>3
  <2>4. CASE ~(p <= m + n + 1)
    <3>1. p - (m + n + 1) \in 1 .. n /\ m + n + 1 + (p - (m + n + 1)) = p
      BY <1>1, <2>4
    <3>2. MatchesAt(L, R, W, G, m + n + 1 + (p - (m + n + 1)))
      BY <1>12, <3>1
    <3> QED
      BY <3>1, <3>2
  <2> QED
    BY <1>1, <2>1, <2>2, <2>3, <2>4
<1>14. Matches(L, R, W, G)
  <2>1. DOMAIN R = 1 .. Len(R) /\ Len(R) \in Nat
    BY <1>7, LenProperties
  <2> QED
    BY <1>8, <1>13, <2>1 DEF Matches
<1>15. ASSUME NEW k \in 1 .. n PROVE ~L[m + k].signer
  <2>1. L[m + k] = Meta(Token("asset", k), TRUE, FALSE)
    BY <1>4, <1>5 DEF Laid
  <2>2. IsMeta(L[m + k], Token("asset", k), TRUE, FALSE)
    BY <2>1, MetaParts
  <2> QED
    BY <2>2 DEF IsMeta
<1>16. Owned(L, R, m, n)
  BY <1>8, <1>15 DEF Owned
<1> QED
  BY <1>8, <1>14, <1>16

LEMMA PairedMatches ==
    ASSUME NEW n \in Nat, NEW h, NEW rh, NEW m, NEW W, NEW G, Named(h, rh, m, W, G),
           \A p \in 1 .. m : rh[p] \notin Wallets,
           \A role \in Wallets : role \notin G,
           NEW L, OfTarget(L, h, n), NEW R, TargetRoles(R, rh, n)
    PROVE  /\ Matches(L, R, W, G)
           /\ Len(R) = m + n + n
           /\ \A p \in 1 .. m : R[p] = rh[p]
<1> DEFINE x == Keys(Nth("asset", n))  z == Keys(Nth("target", n))
           rx == Times(n, "asset")  rz == Times(n, "target")
<1>1. m \in Nat /\ Long(h, Metas, m) /\ Long(rh, Roles, m)
  BY DEF Named, Long
<1>2. "asset" \in Roles /\ "target" \in Roles
  BY DEF Roles
<1>4. /\ x \in [1 .. n -> Metas] /\ z \in [1 .. n -> Metas]
      /\ rx \in [1 .. n -> Roles] /\ rz \in [1 .. n -> Roles]
      /\ \A k \in 1 .. n : /\ x[k] = Meta(Token("asset", k), TRUE, FALSE)
                           /\ z[k] = Meta(Token("target", k), TRUE, FALSE)
                           /\ rx[k] = "asset" /\ rz[k] = "target"
  BY <1>2, KeysOf
<1> HIDE DEF x, z, rx, rz
<1>5. Paired(L, h, m, x, z, n)
  <2>1. L = PairSeq(h, x, z)
    BY DEF OfTarget, PairSeq, x, z
  <2>2. Paired(PairSeq(h, x, z), h, m, x, z, n)
    BY <1>1, <1>4, PairedOut
  <2> QED
    BY <2>1, <2>2
<1>6. Paired(R, rh, m, rx, rz, n) /\ R \in Seq(Roles)
  <2>1. R = PairSeq(rh, rx, rz)
    BY DEF TargetRoles, PairSeq, rx, rz
  <2>2. /\ Paired(PairSeq(rh, rx, rz), rh, m, rx, rz, n)
        /\ PairSeq(rh, rx, rz) \in Seq(Roles)
    BY <1>1, <1>4, PairedOut
  <2> QED
    BY <2>1, <2>2
<1>7. R \in Seq(Roles)
  BY <1>6
<1>8. /\ \A p \in 1 .. m : R[p] = rh[p]
      /\ \A k \in 1 .. n : R[m + k] = "asset"
      /\ \A k \in 1 .. n : R[m + n + k] = "target"
      /\ Len(R) = m + n + n /\ Len(L) = m + n + n
  BY <1>4, <1>5, <1>6 DEF Paired
<1>9. ASSUME NEW p \in 1 .. m PROVE MatchesAt(L, R, W, G, p)
  <2>1. L[p] = h[p] /\ R[p] = rh[p]
    BY <1>5, <1>8 DEF Paired
  <2>2. h[p] = Meta(The(rh[p]), rh[p] \in W, rh[p] \in G)
    BY DEF Named
  <2>3. L[p] = Meta(The(R[p]), R[p] \in W, R[p] \in G) /\ R[p] \notin Wallets
    BY <2>1, <2>2
  <2> QED
    BY <2>3, MatchesOne
<1>10. ASSUME NEW k \in 1 .. n PROVE MatchesAt(L, R, W, G, m + k)
  <2>1. \A q \in 1 .. m : R[q] # "asset"
    BY <1>8 DEF Wallets
  <2>2. Place(R, m + k) = k
    <3>1. Run(R, m, n, "asset")
      BY <1>8, <2>1 DEF Run
    <3> QED
      BY <1>1, <3>1, PlaceOfRun
  <2>3. L[m + k] = Meta(Token("asset", k), TRUE, FALSE) /\ R[m + k] = "asset"
    BY <1>4, <1>5, <1>8 DEF Paired
  <2>4. "asset" \in Wallets
    BY DEF Wallets
  <2> QED
    BY <2>2, <2>3, <2>4, MatchesToken
<1>12. ASSUME NEW k \in 1 .. n PROVE MatchesAt(L, R, W, G, m + n + k)
  <2> DEFINE h2 == m + n
  <2>1. ASSUME NEW q \in 1 .. h2 PROVE R[q] # "target"
    <3>1. CASE q <= m
      BY <1>8, <3>1 DEF Wallets
    <3>3. CASE ~(q <= m)
      <4>1. q - m \in 1 .. n /\ m + (q - m) = q
        BY <1>1, <3>3
      <4>2. R[m + (q - m)] = "asset"
        BY <1>8, <4>1
      <4> QED
        BY <4>1, <4>2
    <3> QED
      BY <3>1, <3>3
  <2>2. Place(R, h2 + k) = k
    <3>1. \A q \in 1 .. m + n : R[q] # "target"
      BY <2>1
    <3>2. Run(R, m + n, n, "target")
      BY <1>8, <3>1 DEF Run
    <3>3. h2 \in Nat
      BY <1>1
    <3>4. Run(R, h2, n, "target")
      BY <3>2
    <3> HIDE DEF h2
    <3> QED
      BY <3>3, <3>4, PlaceOfRun
  <2>3. L[h2 + k] = Meta(Token("target", k), TRUE, FALSE) /\ R[h2 + k] = "target"
    BY <1>4, <1>5, <1>8 DEF Paired
  <2>4. "target" \in Wallets
    BY DEF Wallets
  <2> HIDE DEF h2
  <2>5. MatchesAt(L, R, W, G, h2 + k)
    BY <2>2, <2>3, <2>4, MatchesToken
  <2> QED
    BY <2>5 DEF h2
<1>13. ASSUME NEW p \in 1 .. m + n + n PROVE MatchesAt(L, R, W, G, p)
  <2>1. CASE p <= m
    BY <1>9, <2>1
  <2>2. CASE ~(p <= m) /\ p <= m + n
    <3>1. p - m \in 1 .. n /\ m + (p - m) = p
      BY <1>1, <2>2
    <3>2. MatchesAt(L, R, W, G, m + (p - m))
      BY <1>10, <3>1
    <3> QED
      BY <3>1, <3>2
  <2>4. CASE ~(p <= m + n)
    <3>1. p - (m + n) \in 1 .. n /\ m + n + (p - (m + n)) = p
      BY <1>1, <2>4
    <3>2. MatchesAt(L, R, W, G, m + n + (p - (m + n)))
      BY <1>12, <3>1
    <3> QED
      BY <3>1, <3>2
  <2> QED
    BY <1>1, <2>1, <2>2, <2>4
<1>14. Matches(L, R, W, G)
  <2>1. DOMAIN R = 1 .. Len(R) /\ Len(R) \in Nat
    BY <1>7, LenProperties
  <2> QED
    BY <1>8, <1>13, <2>1 DEF Matches
<1> QED
  BY <1>8, <1>14

\* The same list over other sets that agree on its roles.
LEMMA NamedOver ==
    ASSUME NEW s, NEW roles, NEW n, NEW W, NEW G, Named(s, roles, n, W, G), NEW V, NEW H,
           \A p \in 1 .. n : (roles[p] \in V <=> roles[p] \in W)
                               /\ (roles[p] \in H <=> roles[p] \in G)
    PROVE  Named(s, roles, n, V, H)
<1>1. ASSUME NEW p \in 1 .. n
      PROVE  s[p] = Meta(The(roles[p]), roles[p] \in V, roles[p] \in H)
  <2>1. (roles[p] \in V) = (roles[p] \in W) /\ (roles[p] \in H) = (roles[p] \in G)
    OBVIOUS
  <2>2. s[p] = Meta(The(roles[p]), roles[p] \in W, roles[p] \in G)
    BY DEF Named
  <2> QED
    BY <2>1, <2>2
<1> QED
  BY <1>1 DEF Named

LEMMA MatchesLess ==
    ASSUME NEW L, NEW R, NEW W, NEW G, Matches(L, R, W, G), NEW V, V \subseteq W
    PROVE  Matches(L, R, V, G)
BY DEF Matches, MatchesAt

\* The roles of the list of an instruction start like this.
HeadOf(op) ==
    CASE op = "Init"        -> InitTakes
      [] op = "Create"      -> CreateRoles
      [] op = "Deposit"     -> DepositRoles
      [] op = "CreateOrder" -> OrderRoles
      [] op = "CancelOrder" -> CancelTakes
      [] op = "SettleFunds" -> SettleTakes
      [] op = "Redeem"      -> RedeemRoles
      [] op = "CollectFees" -> CollectFeesTakes
StartsLike(R, head) == Len(R) >= Len(head) /\ \A p \in 1 .. Len(head) : R[p] = head[p]

\* Every list with the roles that its handler takes.
LEMMA InitListed ==
    /\ Matches(init, InitTakes, InitNeeds.changed, InitNeeds.signers)
    /\ StartsLike(InitTakes, InitTakes)
<1>1. \A p \in 1 .. 6 : InitTakes[p] \notin Wallets
  BY DEF InitTakes, Wallets
<1>2. Matches(init, InitTakes, {"pool", "mint", "payer"}, {"payer"})
  BY <1>1, InitNamed, NamedMatches
<1> QED
  BY <1>2 DEF InitNeeds, StartsLike, Matches

LEMMA CancelListed ==
    /\ Matches(cancel_order, CancelTakes, CancelNeeds.changed, CancelNeeds.signers)
    /\ StartsLike(CancelTakes, CancelTakes)
<1>1. \A p \in 1 .. 8 : CancelTakes[p] \notin Wallets
  BY DEF CancelTakes, Wallets
<1>2. Matches(cancel_order, CancelTakes, {"openOrders", "bids", "asks", "eventQueue"},
              {"provider"})
  BY <1>1, CancelNamed, NamedMatches
<1> QED
  BY <1>2 DEF CancelNeeds, check_signal_provider, StartsLike, Matches

LEMMA SettleListed ==
    /\ Matches(settle_funds, SettleTakes, SettleNeeds.changed, SettleNeeds.signers)
    /\ StartsLike(SettleTakes, SettleTakes) /\ Len(SettleTakes) = 11
<1> DEFINE W == {"market", "openOrders", "pool", "coinVault", "pcVault", "coinWallet",
                 "pcWallet"}
<1>1. \A p \in 1 .. 11 : SettleTakes[p] \notin Wallets
  BY DEF SettleTakes, Wallets
<1>2. Matches(settle_funds, SettleTakes, W, {})
  BY <1>1, SettleNamed, NamedMatches
<1>3. SettleNeeds.changed \subseteq W /\ SettleNeeds.signers = {}
  BY DEF SettleNeeds
<1>4. Matches(settle_funds, SettleTakes, SettleNeeds.changed, {})
  <2> HIDE DEF W
  <2> QED
    BY <1>2, <1>3, MatchesLess
<1>5. Len(SettleTakes) = 11
  BY DEF SettleTakes
<1> QED
  BY <1>3, <1>4, <1>5 DEF StartsLike, Matches

LEMMA CollectListed ==
    /\ Matches(collect_fees, CollectFeesTakes, CollectFeesNeeds.changed,
               CollectFeesNeeds.signers)
    /\ StartsLike(CollectFeesTakes, CollectFeesTakes) /\ Len(CollectFeesTakes) = 7
<1> DEFINE W == {"pool", "mint", "providerFee", "bonfidaFee", "buyBurnFee"}
<1>1. \A p \in 1 .. 7 : CollectFeesTakes[p] \notin Wallets
  BY DEF CollectFeesTakes, Wallets
<1>2. Matches(collect_fees, CollectFeesTakes, W, {})
  BY <1>1, CollectNamed, NamedMatches
<1>3. CollectFeesNeeds.changed = W /\ CollectFeesNeeds.signers = {}
  BY DEF CollectFeesNeeds, Fees
<1>4. Len(CollectFeesTakes) = 7
  BY DEF CollectFeesTakes
<1> QED
  BY <1>2, <1>3, <1>4 DEF StartsLike, Matches

LEMMA OrderListed ==
    Matches(create_order, OrderRoles, {}, {"provider"}) /\ StartsLike(OrderRoles, OrderRoles)
<1> DEFINE W == {"market", "payerAsset", "openOrders", "eventQueue", "requestQueue",
                 "bids", "asks", "pool", "coinVault", "pcVault"}
<1>1. \A p \in 1 .. 14 : OrderRoles[p] \notin Wallets
  BY DEF OrderRoles, Wallets
<1>2. Matches(create_order, OrderRoles, W, {"provider"})
  BY <1>1, OrderNamed, NamedMatches
<1> HIDE DEF W
<1>3. Matches(create_order, OrderRoles, {}, {"provider"})
  BY <1>2, MatchesLess
<1> QED
  BY <1>3 DEF StartsLike, Matches

LEMMA CreateListed ==
    ASSUME NEW n \in Nat
    PROVE  LET L == create(Nth("asset", n), Nth("source", n))
           IN  /\ Matches(L, CreateTakes(n), CreateNeeds.changed, CreateNeeds.signers)
               /\ StartsLike(CreateTakes(n), CreateRoles) /\ Owned(L, CreateTakes(n), 7, n)
<1> DEFINE h == Readonly(<<"spl", "clock", "serum", "provider">>)
                  \o Writable(<<"mint", "poolTokens", "pool">>)
           L == create(Nth("asset", n), Nth("source", n))
           R == CreateTakes(n)
           W == {"pool", "mint", "poolTokens", "asset", "source"}
<1>1. \A p \in 1 .. 7 : CreateRoles[p] \notin Wallets /\ CreateRoles[p] # "owner"
  BY DEF CreateRoles, Wallets
<1>2. Named(h, CreateRoles, 7, W, {"owner"})
  <2>1. \A p \in 1 .. 7 : CreateRoles[p] \notin {"asset", "source"}
    BY <1>1 DEF Wallets
  <2>2. Named(h, CreateRoles, 7, {"mint", "poolTokens", "pool"}, {})
    BY CreateHead
  <2> HIDE DEF h
  <2>3. \A p \in 1 .. 7 :
          /\ CreateRoles[p] \in W <=> CreateRoles[p] \in {"mint", "poolTokens", "pool"}
          /\ CreateRoles[p] \in {"owner"} <=> CreateRoles[p] \in {}
    BY <1>1, <2>1
  <2> HIDE DEF W
  <2> QED
    BY <2>2, <2>3, NamedOver
<1>3. OfOwner(L, h, n) /\ OwnerRoles(R, CreateRoles, n)
  BY DEF OfOwner, OwnerRoles, create, CreateTakes, CreateRoles
<1>4. \A role \in Wallets : role \notin {"owner"}
  BY DEF Wallets
<1>5. "owner" \in {"owner"} /\ "owner" \notin W
  OBVIOUS
<1> DEFINE G == {"owner"}
<1> HIDE DEF h, L, R, W, G
<1>6. /\ Matches(L, R, W, G)
      /\ Owned(L, R, 7, n)
      /\ \A p \in 1 .. 7 : R[p] = CreateRoles[p]
  BY <1>1, <1>2, <1>3, <1>4, <1>5, LaidMatches DEF G
<1>7. StartsLike(R, CreateRoles)
  <2>1. Len(CreateRoles) = 7
    BY DEF CreateRoles
  <2>2. Len(R) >= 7
    BY <1>6 DEF Owned
  <2> QED
    BY <1>6, <2>1, <2>2 DEF StartsLike
<1>9. Matches(L, R, CreateNeeds.changed, CreateNeeds.signers)
  BY <1>6 DEF CreateNeeds, W, G
<1> QED
  BY <1>6, <1>7, <1>9 DEF L, R

LEMMA DepositListed ==
    ASSUME NEW n \in Nat
    PROVE  LET L == deposit(Nth("asset", n), Nth("source", n))
           IN  /\ Matches(L, DepositTakes(n), DepositNeeds.changed, DepositNeeds.signers)
               /\ StartsLike(DepositTakes(n), DepositRoles)
<1> DEFINE h == Readonly(<<"spl">>)
                  \o Writable(<<"mint", "poolTokens", "providerFee", "bonfidaFee",
                                "buyBurnFee">>)
                  \o Readonly(<<"pool">>)
           L == deposit(Nth("asset", n), Nth("source", n))
           R == DepositTakes(n)
           V == {"mint", "poolTokens", "providerFee", "bonfidaFee", "buyBurnFee"}
           W == {"mint", "poolTokens", "asset", "source", "providerFee", "bonfidaFee",
                 "buyBurnFee"}
<1>1. \A p \in 1 .. 7 : DepositRoles[p] \notin Wallets /\ DepositRoles[p] # "owner"
  BY DEF DepositRoles, Wallets
<1>2. Named(h, DepositRoles, 7, W, {"owner"})
  <2>1. \A p \in 1 .. 7 : DepositRoles[p] \notin {"asset", "source"}
    BY <1>1 DEF Wallets
  <2>2. Named(h, DepositRoles, 7, V, {})
    BY DepositHead
  <2> HIDE DEF h
  <2>3. \A p \in 1 .. 7 : /\ DepositRoles[p] \in W <=> DepositRoles[p] \in V
                          /\ DepositRoles[p] \in {"owner"} <=> DepositRoles[p] \in {}
    BY <1>1, <2>1
  <2> HIDE DEF W, V
  <2> QED
    BY <2>2, <2>3, NamedOver
<1>3. OfOwner(L, h, n) /\ OwnerRoles(R, DepositRoles, n)
  BY DEF OfOwner, OwnerRoles, deposit, DepositTakes, DepositRoles
<1>4. \A role \in Wallets : role \notin {"owner"}
  BY DEF Wallets
<1>5. "owner" \in {"owner"} /\ "owner" \notin W
  OBVIOUS
<1> DEFINE G == {"owner"}
<1> HIDE DEF h, L, R, W, V, G
<1>6. /\ Matches(L, R, W, G)
      /\ Owned(L, R, 7, n)
      /\ \A p \in 1 .. 7 : R[p] = DepositRoles[p]
  BY <1>1, <1>2, <1>3, <1>4, <1>5, LaidMatches DEF G
<1>7. StartsLike(R, DepositRoles)
  <2>1. Len(DepositRoles) = 7
    BY DEF DepositRoles
  <2>2. Len(R) >= 7
    BY <1>6 DEF Owned
  <2> QED
    BY <1>6, <2>1, <2>2 DEF StartsLike
<1>8. DepositNeeds.changed = W /\ DepositNeeds.signers = G
  BY DEF DepositNeeds, Fees, W, G
<1> QED
  BY <1>6, <1>7, <1>8 DEF L, R

LEMMA RedeemListed ==
    ASSUME NEW n \in Nat
    PROVE  LET L == redeem(Nth("asset", n), Nth("target", n))
           IN  /\ Matches(L, RedeemTakes(n), RedeemNeeds.changed, RedeemNeeds.signers)
               /\ StartsLike(RedeemTakes(n), RedeemRoles)
<1> DEFINE h == Readonly(<<"spl", "clock">>) \o Writable(<<"mint">>) \o Signer("owner")
                  \o Writable(<<"poolTokens", "pool">>)
           L == redeem(Nth("asset", n), Nth("target", n))
           R == RedeemTakes(n)
           V == {"mint", "poolTokens", "pool"}
           W == {"mint", "poolTokens", "pool", "asset", "target"}
           G == {"owner"}
<1>1. \A p \in 1 .. 6 : RedeemRoles[p] \notin Wallets
  BY DEF RedeemRoles, Wallets
<1>2. Named(h, RedeemRoles, 6, W, G)
  <2>1. \A p \in 1 .. 6 : RedeemRoles[p] \notin {"asset", "target"}
    BY <1>1 DEF Wallets
  <2>2. Named(h, RedeemRoles, 6, V, G)
    BY RedeemHead
  <2> HIDE DEF h, G
  <2>3. \A p \in 1 .. 6 : RedeemRoles[p] \in W <=> RedeemRoles[p] \in V
    BY <2>1
  <2> HIDE DEF W, V
  <2> QED
    BY <2>2, <2>3, NamedOver
<1>3. OfTarget(L, h, n) /\ TargetRoles(R, RedeemRoles, n)
  BY DEF OfTarget, TargetRoles, redeem, RedeemTakes, RedeemRoles
<1>4. \A role \in Wallets : role \notin G
  BY DEF Wallets
<1> HIDE DEF h, L, R, W, V, G
<1>6. /\ Matches(L, R, W, G)
      /\ Len(R) = 6 + n + n
      /\ \A p \in 1 .. 6 : R[p] = RedeemRoles[p]
  BY <1>1, <1>2, <1>3, <1>4, PairedMatches
<1>7. StartsLike(R, RedeemRoles)
  <2>1. Len(RedeemRoles) = 6
    BY DEF RedeemRoles
  <2> QED
    BY <1>6, <2>1 DEF StartsLike
<1>8. RedeemNeeds.changed = W /\ RedeemNeeds.signers = G
  BY DEF RedeemNeeds, W, G
<1> QED
  BY <1>6, <1>7, <1>8 DEF L, R

-----------------------------------------------------------------------------
(* What the handlers make of the lists                                     *)

\* Every operation but the disabled one takes accounts.
Operations == {"Init", "Create", "Deposit", "CancelOrder", "SettleFunds", "Redeem",
               "CollectFees"}

LEMMA OpOf ==
    ASSUME NEW i \in PoolInstruction
    PROVE  /\ i.op \in Operations \/ i.op = "CreateOrder"
           /\ i.op = "Create" => Len(i.deposit_amounts) \in Nat
<1>1. CASE i \in InitFields
  BY <1>1 DEF InitFields, Operations
<1>2. CASE i \in CreateFields
  <2>1. i.op = "Create" /\ i.deposit_amounts \in Seq(Unsigned(8))
    BY <1>2 DEF CreateFields
  <2> QED
    BY <2>1, LenProperties DEF Operations
<1>3. CASE i \in AmountFields
  BY <1>3 DEF AmountFields, Operations
<1>4. CASE i \in CreateOrderFields
  BY <1>4 DEF CreateOrderFields
<1>5. CASE i \in CancelOrderFields
  BY <1>5 DEF CancelOrderFields, Operations
<1>6. CASE i \in SettleFundsFields
  BY <1>6 DEF SettleFundsFields, Operations
<1>7. CASE i \in CollectFeesFields
  BY <1>7 DEF CollectFeesFields, Operations
<1> QED
  BY <1>1, <1>2, <1>3, <1>4, <1>5, <1>6, <1>7 DEF PoolInstruction

\* The roles of the list of an instruction on n assets.
RolesOf(op, n) ==
    CASE op = "Init"        -> InitTakes
      [] op = "Create"      -> CreateTakes(n)
      [] op = "Deposit"     -> DepositTakes(n)
      [] op = "CreateOrder" -> OrderRoles
      [] op = "CancelOrder" -> CancelTakes
      [] op = "SettleFunds" -> SettleTakes
      [] op = "Redeem"      -> RedeemTakes(n)
      [] op = "CollectFees" -> CollectFeesTakes

LEMMA TakesRoles ==
    ASSUME NEW i, i.op \in Operations
    PROVE  Takes(i) = RolesOf(i.op, AssetsOf(i))
BY DEF Takes, RolesOf, AssetsOf, Operations

LEMMA Listed ==
    ASSUME NEW i, i.op \in Operations, NEW n \in Nat
    PROVE  /\ Matches(AccountsOf(i, n), RolesOf(i.op, n), Needs(i.op).changed,
                      Needs(i.op).signers)
           /\ StartsLike(RolesOf(i.op, n), HeadOf(i.op))
           /\ i.op = "Create" => Owned(AccountsOf(i, n), RolesOf(i.op, n), 7, n)
<1>1. CASE i.op = "Init"
  BY <1>1, InitListed DEF AccountsOf, RolesOf, Needs, HeadOf
<1>2. CASE i.op = "Create"
  BY <1>2, CreateListed DEF AccountsOf, RolesOf, Needs, HeadOf
<1>3. CASE i.op = "Deposit"
  BY <1>3, DepositListed DEF AccountsOf, RolesOf, Needs, HeadOf
<1>4. CASE i.op = "CancelOrder"
  BY <1>4, CancelListed DEF AccountsOf, RolesOf, Needs, HeadOf
<1>5. CASE i.op = "SettleFunds"
  BY <1>5, SettleListed DEF AccountsOf, RolesOf, Needs, HeadOf
<1>6. CASE i.op = "Redeem"
  BY <1>6, RedeemListed DEF AccountsOf, RolesOf, Needs, HeadOf
<1>7. CASE i.op = "CollectFees"
  BY <1>7, CollectListed DEF AccountsOf, RolesOf, Needs, HeadOf
<1> QED
  BY <1>1, <1>2, <1>3, <1>4, <1>5, <1>6, <1>7 DEF Operations

\* The lists of all eight by their roles.
LEMMA ListRoles ==
    ASSUME NEW i \in PoolInstruction, NEW n \in Nat
    PROVE  /\ \E W, G : Matches(AccountsOf(i, n), RolesOf(i.op, n), W, G)
           /\ StartsLike(RolesOf(i.op, n), HeadOf(i.op))
<1>1. CASE i.op \in Operations
  BY <1>1, Listed
<1>2. CASE i.op = "CreateOrder"
  <2>1. AccountsOf(i, n) = create_order /\ RolesOf(i.op, n) = OrderRoles
          /\ HeadOf(i.op) = OrderRoles
    BY <1>2 DEF AccountsOf, RolesOf, HeadOf
  <2> QED
    BY <2>1, OrderListed
<1> QED
  BY <1>1, <1>2, OpOf

\* What a handler tests of an account, and what it answers.
RightAt(i, list, roles, p) ==
    /\ roles[p] \in Needs(i.op).keys => list[p].key = Meant(roles, p)
    /\ roles[p] = "asset" => AssetWillDo(i, list[p].key, Place(roles, p))
    /\ roles[p] \in Needs(i.op).signers => list[p].signer
    /\ roles[p] \in Needs(i.op).changed => list[p].writable
AllRight(i, list, roles) ==
    ~(Len(list) < Len(roles)) /\ \A p \in DOMAIN roles : RightAt(i, list, roles, p)

LEMMA HandledServes ==
    ASSUME NEW i, i.op \in Operations, NEW list
    PROVE  /\ Handled(i, list).understood = i
           /\ Handled(i, list).result = "served" <=> AllRight(i, list, Takes(i))
           /\ AllRight(i, list, Takes(i)) =>
                Handled(i, list).found = SubSeq(list, 1, Len(Takes(i)))
<1> DEFINE R == Takes(i)
<1>1. Handled(i, list) =
        IF Len(list) < Len(R)
        THEN [result |-> "not enough keys", understood |-> i, found |-> <<>>]
        ELSE [result |-> IF \A p \in DOMAIN R : RightAt(i, list, R, p)
                         THEN "served" ELSE "refused",
              understood |-> i, found |-> SubSeq(list, 1, Len(R))]
  BY DEF Handled, RightAt, Operations
<1> HIDE DEF R
<1>2. CASE Len(list) < Len(R)
  <2> DEFINE few == "not enough keys"
  <2>1. Handled(i, list) = [result |-> few, understood |-> i, found |-> <<>>]
    BY <1>1, <1>2
  <2>2. ~AllRight(i, list, R) /\ few # "served"
    BY <1>2 DEF AllRight
  <2> HIDE DEF few
  <2>3. Handled(i, list).understood = i /\ Handled(i, list).result = few
    BY <2>1
  <2> QED
    BY <2>2, <2>3 DEF R
<1>3. CASE ~(Len(list) < Len(R)) /\ \A p \in DOMAIN R : RightAt(i, list, R, p)
  <2> DEFINE found == SubSeq(list, 1, Len(R))
  <2>1. Handled(i, list) = [result |-> "served", understood |-> i, found |-> found]
    BY <1>1, <1>3
  <2>2. AllRight(i, list, R)
    BY <1>3 DEF AllRight
  <2> HIDE DEF found
  <2>3. /\ Handled(i, list).understood = i /\ Handled(i, list).result = "served"
        /\ Handled(i, list).found = found
    BY <2>1
  <2> QED
    BY <2>2, <2>3 DEF R, found
<1>4. CASE ~(Len(list) < Len(R)) /\ ~(\A p \in DOMAIN R : RightAt(i, list, R, p))
  <2> DEFINE found == SubSeq(list, 1, Len(R))
  <2>1. Handled(i, list) = [result |-> "refused", understood |-> i, found |-> found]
    BY <1>1, <1>4
  <2>2. ~AllRight(i, list, R)
    BY <1>4 DEF AllRight
  <2> HIDE DEF found
  <2>3. Handled(i, list).understood = i /\ Handled(i, list).result = "refused"
    BY <2>1
  <2> QED
    BY <2>2, <2>3 DEF R
<1> QED
  BY <1>2, <1>3, <1>4

\* The builder's list is served.
LEMMA BuilderServed ==
    ASSUME NEW i \in PoolInstruction, i.op \in Operations, listed \in Nat
    PROVE  AllRight(i, AccountsOf(i, AssetsOf(i)), Takes(i))
<1> DEFINE n == AssetsOf(i)
           L == AccountsOf(i, n)
           R == RolesOf(i.op, n)
<1>1. n \in Nat
  BY OpOf DEF AssetsOf
<1>2. Takes(i) = R
  BY TakesRoles
<1>3. Matches(L, R, Needs(i.op).changed, Needs(i.op).signers)
  <2> HIDE DEF n
  <2> QED
    BY <1>1, Listed
<1> HIDE DEF n, L, R
<1>4. Len(L) = Len(R) /\ Len(R) \in Nat /\ DOMAIN R = 1 .. Len(R)
  BY <1>3 DEF Matches
<1>5. ASSUME NEW p \in DOMAIN R PROVE RightAt(i, L, R, p)
  <2>1. MatchesAt(L, R, Needs(i.op).changed, Needs(i.op).signers, p)
    BY <1>3, <1>4 DEF Matches
  <2>2. R[p] = "asset" => L[p].key.owner = "asset"
    BY <2>1 DEF MatchesAt, Meant, Token
  <2>3. R[p] = "asset" => AssetWillDo(i, L[p].key, Place(R, p))
    BY <2>2 DEF AssetWillDo
  <2> QED
    BY <2>1, <2>3 DEF MatchesAt, RightAt
<1>6. AllRight(i, L, R)
  BY <1>4, <1>5 DEF AllRight
<1> QED
  BY <1>2, <1>6 DEF L, n

-----------------------------------------------------------------------------
(* A list that was written for another instruction is refused              *)

\* No two operations put the accounts that they test at the same places.
AllOperations == Operations \cup {"CreateOrder"}

LEMMA LenOfHead ==
    ASSUME NEW i \in PoolInstruction
    PROVE  i.op \in AllOperations /\ Len(HeadOf(i.op)) \in Nat /\ Len(HeadOf(i.op)) >= 6
<1>1. i.op \in AllOperations
  BY OpOf DEF AllOperations
<1>2. /\ Len(InitTakes) = 6 /\ Len(CreateRoles) = 7 /\ Len(DepositRoles) = 7
      /\ Len(OrderRoles) = 14 /\ Len(CancelTakes) = 8 /\ Len(SettleTakes) = 11
      /\ Len(RedeemRoles) = 6 /\ Len(CollectFeesTakes) = 7
  BY DEF InitTakes, CreateRoles, DepositRoles, OrderRoles, CancelTakes, SettleTakes,
         RedeemRoles, CollectFeesTakes
<1>3. HeadOf(i.op) \in {InitTakes, CreateRoles, DepositRoles, OrderRoles, CancelTakes,
                        SettleTakes, RedeemRoles, CollectFeesTakes}
  BY <1>1 DEF AllOperations, Operations, HeadOf
<1>4. \A H \in {InitTakes, CreateRoles, DepositRoles, OrderRoles, CancelTakes,
                SettleTakes, RedeemRoles, CollectFeesTakes} : Len(H) \in 6 .. 14
  BY <1>2
<1>5. Len(HeadOf(i.op)) \in 6 .. 14
  BY ONLY <1>3, <1>4, Zenon
<1> DEFINE l == Len(HeadOf(i.op))
<1>6. l \in Nat /\ l >= 6
  <2>1. l \in 6 .. 14
    BY <1>5
  <2> HIDE DEF l
  <2> QED
    BY <2>1
<1> QED
  BY <1>1, <1>6

Telling(op, H) ==
    /\ H[2] = "rent" => op = "Init"
    /\ H[2] = "clock" /\ H[5] = "mint" => op = "Create"
    /\ H[2] = "mint" => op = "Deposit"
    /\ H[2] = "clock" /\ H[3] = "mint" => op = "Redeem"
    /\ H[1] = "provider" => op = "CancelOrder" \/ op = "CreateOrder"
    /\ H[3] = "pool" /\ H[4] = "mint" => op = "SettleFunds" \/ op = "CollectFees"
    /\ H[2] = "clock" /\ H[3] = "pool" => op = "CollectFees"

LEMMA HeadsTell == \A op \in AllOperations : Telling(op, HeadOf(op))
<1>1. Telling("Init", InitTakes)
  BY DEF Telling, InitTakes
<1>2. Telling("Create", CreateRoles)
  BY DEF Telling, CreateRoles
<1>3. Telling("Deposit", DepositRoles)
  BY DEF Telling, DepositRoles
<1>4. Telling("CreateOrder", OrderRoles)
  BY DEF Telling, OrderRoles
<1>5. Telling("CancelOrder", CancelTakes)
  BY DEF Telling, CancelTakes
<1>6. Telling("SettleFunds", SettleTakes)
  BY DEF Telling, SettleTakes
<1>7. Telling("Redeem", RedeemRoles)
  BY DEF Telling, RedeemRoles
<1>8. Telling("CollectFees", CollectFeesTakes)
  BY DEF Telling, CollectFeesTakes
<1> QED
  BY <1>1, <1>2, <1>3, <1>4, <1>5, <1>6, <1>7, <1>8 DEF AllOperations, Operations, HeadOf

LEMMA MeantOwner == ASSUME NEW R, NEW p PROVE Meant(R, p).owner = R[p]
BY DEF Meant, Token, The

\* Where a handler compares the key, the list has the same role.
LEMMA SameRole ==
    ASSUME NEW i \in PoolInstruction, i.op \in Operations, listed \in Nat,
           NEW s \in PoolInstruction, NEW n \in Nat,
           AllRight(i, AccountsOf(s, n), Takes(i)),
           NEW p \in 1 .. Len(HeadOf(i.op)), HeadOf(i.op)[p] \in Needs(i.op).keys,
           HeadOf(i.op)[p] \notin Wallets, p <= Len(HeadOf(s.op))
    PROVE  HeadOf(s.op)[p] = HeadOf(i.op)[p]
<1> DEFINE L == AccountsOf(s, n)
           R == RolesOf(s.op, n)
           m == AssetsOf(i)
           T == RolesOf(i.op, m)
<1>1. m \in Nat
  BY OpOf DEF AssetsOf
<1>2. Takes(i) = T
  BY TakesRoles
<1> HIDE DEF m
<1>3. StartsLike(T, HeadOf(i.op)) /\ \E W, G : Matches(AccountsOf(i, m), T, W, G)
  BY <1>1, ListRoles
<1>4. StartsLike(R, HeadOf(s.op)) /\ \E W, G : Matches(L, R, W, G)
  BY ListRoles
<1> HIDE DEF L, R, T
<1>5. p \in DOMAIN T /\ T[p] = HeadOf(i.op)[p]
  <2>1. DOMAIN T = 1 .. Len(T) /\ Len(T) \in Nat
    BY <1>3 DEF Matches
  <2>2. Len(T) >= Len(HeadOf(i.op))
    BY <1>3 DEF StartsLike
  <2>3. Len(HeadOf(i.op)) \in Nat
    BY LenOfHead
  <2> QED
    BY <1>3, <2>1, <2>2, <2>3 DEF StartsLike
<1>6. p \in 1 .. Len(R) /\ R[p] = HeadOf(s.op)[p]
  <2>1. Len(R) \in Nat
    BY <1>4 DEF Matches
  <2>2. Len(R) >= Len(HeadOf(s.op))
    BY <1>4 DEF StartsLike
  <2>3. Len(HeadOf(s.op)) \in Nat /\ Len(HeadOf(i.op)) \in Nat
    BY LenOfHead
  <2>4. p \in 1 .. Len(HeadOf(s.op))
    BY <2>3
  <2> QED
    BY <1>4, <2>1, <2>2, <2>3, <2>4 DEF StartsLike
<1>7. L[p].key = The(T[p])
  <2>1. RightAt(i, L, T, p)
    BY <1>2, <1>5 DEF AllRight, L
  <2>2. L[p].key = Meant(T, p)
    BY <1>5, <2>1 DEF RightAt
  <2> QED
    BY <1>5, <2>2 DEF Meant, Wallets
<1>8. L[p].key = Meant(R, p)
  BY <1>4, <1>6 DEF Matches, MatchesAt
<1>9. L[p].key.owner = T[p]
  BY <1>7 DEF The
<1>10. L[p].key.owner = R[p]
  BY <1>8, MeantOwner
<1> QED
  BY <1>5, <1>6, <1>9, <1>10

LEMMA SameOp ==
    ASSUME NEW i \in PoolInstruction, i.op \in Operations, listed \in Nat,
           NEW s \in PoolInstruction, NEW n \in Nat,
           AllRight(i, AccountsOf(s, n), Takes(i))
    PROVE  s.op = i.op
<1> DEFINE H == HeadOf(i.op)
           J == HeadOf(s.op)
<1>1. /\ Len(H) \in Nat /\ Len(H) >= 6 /\ Len(J) \in Nat /\ Len(J) >= 6
      /\ s.op \in AllOperations
  BY LenOfHead
<1>2. Telling(s.op, J)
  BY <1>1, HeadsTell
<1>3. ASSUME NEW p \in 1 .. Len(H), H[p] \in Needs(i.op).keys, H[p] \notin Wallets,
             p <= Len(J)
      PROVE  J[p] = H[p]
  BY <1>3, SameRole
<1>4. ASSUME NEW p \in 1 .. 6, H[p] \in Needs(i.op).keys, H[p] \notin Wallets
      PROVE  J[p] = H[p]
  BY <1>1, <1>3, <1>4
<1>5. CASE i.op = "Init"
  <2>1. H = InitTakes /\ Needs(i.op) = InitNeeds
    BY <1>5 DEF HeadOf, Needs
  <2>2. InitTakes[2] = "rent" /\ "rent" \in InitNeeds.keys /\ "rent" \notin Wallets
    BY DEF InitTakes, InitNeeds, Wallets
  <2> HIDE DEF H, J
  <2>3. J[2] = "rent"
    BY <1>4, <2>1, <2>2
  <2> QED
    BY <1>2, <1>5, <2>3 DEF Telling
<1>6. CASE i.op = "Create"
  <2>1. H = CreateRoles /\ Needs(i.op) = CreateNeeds
    BY <1>6 DEF HeadOf, Needs
  <2>2. /\ CreateRoles[2] = "clock" /\ "clock" \in CreateNeeds.keys
        /\ CreateRoles[5] = "mint" /\ "mint" \in CreateNeeds.keys
        /\ "clock" \notin Wallets /\ "mint" \notin Wallets
    BY DEF CreateRoles, CreateNeeds, Wallets
  <2> HIDE DEF H, J
  <2>3. J[2] = "clock" /\ J[5] = "mint"
    BY <1>4, <2>1, <2>2
  <2> QED
    BY <1>2, <1>6, <2>3 DEF Telling
<1>7. CASE i.op = "Deposit"
  <2>1. H = DepositRoles /\ Needs(i.op) = DepositNeeds
    BY <1>7 DEF HeadOf, Needs
  <2>2. DepositRoles[2] = "mint" /\ "mint" \in DepositNeeds.keys /\ "mint" \notin Wallets
    BY DEF DepositRoles, DepositNeeds, Wallets
  <2> HIDE DEF H, J
  <2>3. J[2] = "mint"
    BY <1>4, <2>1, <2>2
  <2> QED
    BY <1>2, <1>7, <2>3 DEF Telling
<1>8. CASE i.op = "Redeem"
  <2>1. H = RedeemRoles /\ Needs(i.op) = RedeemNeeds
    BY <1>8 DEF HeadOf, Needs
  <2>2. /\ RedeemRoles[2] = "clock" /\ "clock" \in RedeemNeeds.keys
        /\ RedeemRoles[3] = "mint" /\ "mint" \in RedeemNeeds.keys
        /\ "clock" \notin Wallets /\ "mint" \notin Wallets
    BY DEF RedeemRoles, RedeemNeeds, Wallets
  <2> HIDE DEF H, J
  <2>3. J[2] = "clock" /\ J[3] = "mint"
    BY <1>4, <2>1, <2>2
  <2> QED
    BY <1>2, <1>8, <2>3 DEF Telling
<1>9. CASE i.op = "CancelOrder"
  <2>1. H = CancelTakes /\ Needs(i.op) = CancelNeeds
    BY <1>9 DEF HeadOf, Needs
  <2>2. /\ CancelTakes[1] = "provider" /\ "provider" \in CancelNeeds.keys
        /\ CancelTakes[7] = "pool" /\ "pool" \in CancelNeeds.keys
        /\ "provider" \notin Wallets /\ "pool" \notin Wallets /\ Len(CancelTakes) = 8
    BY DEF CancelTakes, CancelNeeds, Wallets, check_pool_key, check_signal_provider
  <2>3. J[1] = "provider"
    <3> HIDE DEF H, J
    <3> QED
      BY <1>4, <2>1, <2>2
  <2>4. CASE s.op = "CreateOrder"
    <3>1. J = OrderRoles
      BY <2>4 DEF HeadOf
    <3>2. Len(OrderRoles) = 14 /\ OrderRoles[7] # "pool"
      BY DEF OrderRoles
    <3> HIDE DEF H, J
    <3>3. 7 \in 1 .. Len(H) /\ 7 <= Len(J)
      BY <2>1, <2>2, <3>1, <3>2
    <3>4. J[7] = H[7]
      BY <1>3, <2>1, <2>2, <3>3
    <3> QED
      BY <2>1, <2>2, <3>1, <3>2, <3>4
  <2> HIDE DEF H, J
  <2> QED
    BY <1>2, <1>9, <2>3, <2>4 DEF Telling
<1>10. CASE i.op = "SettleFunds"
  <2>1. H = SettleTakes /\ Needs(i.op) = SettleNeeds
    BY <1>10 DEF HeadOf, Needs
  <2>2. /\ SettleTakes[3] = "pool" /\ "pool" \in SettleNeeds.keys
        /\ SettleTakes[4] = "mint" /\ "mint" \in SettleNeeds.keys
        /\ "pool" \notin Wallets /\ "mint" \notin Wallets
    BY DEF SettleTakes, SettleNeeds, Wallets, check_pool_key
  <2> HIDE DEF H, J
  <2>3. J[3] = "pool" /\ J[4] = "mint"
    BY <1>4, <2>1, <2>2
  <2>4. s.op # "CollectFees"
    <3> SUFFICES ASSUME s.op = "CollectFees" PROVE FALSE
      OBVIOUS
    <3>1. AccountsOf(s, n) = collect_fees /\ Takes(i) = SettleTakes
      BY <1>10 DEF AccountsOf, Takes
    <3>2. Len(collect_fees) = 7
      BY CollectListed DEF Matches
    <3>3. ~(Len(collect_fees) < Len(SettleTakes))
      BY <3>1 DEF AllRight
    <3> QED
      BY <3>2, <3>3, SettleListed
  <2> QED
    BY <1>2, <1>10, <2>3, <2>4 DEF Telling
<1>11. CASE i.op = "CollectFees"
  <2>1. H = CollectFeesTakes /\ Needs(i.op) = CollectFeesNeeds
    BY <1>11 DEF HeadOf, Needs
  <2>2. /\ CollectFeesTakes[2] = "clock" /\ "clock" \in CollectFeesNeeds.keys
        /\ CollectFeesTakes[3] = "pool" /\ "pool" \in CollectFeesNeeds.keys
        /\ "clock" \notin Wallets /\ "pool" \notin Wallets
    BY DEF CollectFeesTakes, CollectFeesNeeds, Wallets, check_pool_key
  <2> HIDE DEF H, J
  <2>3. J[2] = "clock" /\ J[3] = "pool"
    BY <1>4, <2>1, <2>2
  <2> QED
    BY <1>2, <1>11, <2>3 DEF Telling
<1> QED
  BY <1>5, <1>6, <1>7, <1>8, <1>9, <1>10, <1>11 DEF Operations

\* For two Creates the number of assets is the same as well.
LEMMA SameAssets ==
    ASSUME NEW i \in PoolInstruction, i.op \in Operations, listed \in Nat,
           NEW s \in PoolInstruction, AllRight(i, AccountsOf(s, AssetsOf(s)), Takes(i))
    PROVE  s.op = i.op /\ AssetsOf(s) = AssetsOf(i)
<1> DEFINE n == AssetsOf(s)  m == AssetsOf(i)  L == AccountsOf(s, n)
<1>1. n \in Nat /\ m \in Nat
  BY OpOf DEF AssetsOf
<1>2. s.op = i.op
  <2> HIDE DEF n
  <2> QED
    BY <1>1, SameOp DEF n
<1>3. CASE i.op # "Create"
  BY <1>2, <1>3 DEF AssetsOf
<1>4. CASE i.op = "Create"
  <2> HIDE DEF n, m
  <2> DEFINE R == RolesOf("Create", n)
             T == RolesOf("Create", m)
  <2>1. /\ Owned(L, R, 7, n) /\ \E W, G : Matches(L, R, W, G)
    BY <1>1, <1>2, <1>4, Listed
  <2>2. /\ Owned(AccountsOf(i, m), T, 7, m)
        /\ \E W, G : Matches(AccountsOf(i, m), T, W, G)
    BY <1>1, <1>4, Listed
  <2>3. Takes(i) = T
    BY <1>4, TakesRoles DEF m
  <2>4. AllRight(i, L, T)
    BY <2>3 DEF n
  <2> HIDE DEF R, T, L
  <2>5. Len(L) = 7 + n + 1 + n /\ Len(T) = 7 + m + 1 + m
    BY <2>1, <2>2 DEF Matches, Owned
  <2>6. m <= n
    BY <1>1, <2>4, <2>5 DEF AllRight
  <2>7. ASSUME m < n PROVE FALSE
    <3>1. 7 + m + 1 \in DOMAIN T /\ T[7 + m + 1] = "owner"
      BY <1>1, <2>2, <2>5 DEF Matches, Owned
    <3>2. "owner" \in Needs(i.op).signers
      BY <1>4 DEF Needs, CreateNeeds
    <3>3. L[7 + m + 1].signer
      BY <2>4, <3>1, <3>2 DEF AllRight, RightAt
    <3>4. m + 1 \in 1 .. n /\ 7 + m + 1 = 7 + (m + 1)
      BY <1>1, <2>7
    <3>5. ~L[7 + (m + 1)].signer
      BY <2>1, <3>4 DEF Owned
    <3> QED
      BY <3>3, <3>4, <3>5
  <2>8. n = m
    BY <1>1, <2>6, <2>7
  <2> QED
    BY <1>2, <2>8 DEF n, m
<1> QED
  BY <1>3, <1>4

\* What is served has at each place the key that its role means.
LEMMA ServedIsMeant ==
    ASSUME NEW i \in PoolInstruction, i.op \in Operations, listed \in Nat,
           NEW s \in PoolInstruction,
           AllRight(i, AccountsOf(s, AssetsOf(s)), Takes(i))
    PROVE  LET found == SubSeq(AccountsOf(s, AssetsOf(s)), 1, Len(Takes(i)))
           IN  \A p \in DOMAIN found : found[p].key = Meant(Takes(i), p)
<1> DEFINE n == AssetsOf(i)
           L == AccountsOf(i, n)
           T == Takes(i)
<1>1. n \in Nat
  BY OpOf DEF AssetsOf
<1>2. AccountsOf(s, AssetsOf(s)) = L
  BY SameAssets DEF AccountsOf
<1>3. \E W, G : Matches(L, T, W, G)
  <2>1. T = RolesOf(i.op, n)
    BY TakesRoles
  <2> HIDE DEF n, T
  <2> QED
    BY <1>1, <2>1, Listed
<1> HIDE DEF L, T
<1> DEFINE found == SubSeq(L, 1, Len(T))
<1>4. DOMAIN found = 1 .. Len(T) /\ \A p \in 1 .. Len(T) : found[p] = L[p]
  <2>1. Len(T) \in Nat
    BY <1>3 DEF Matches
  <2> QED
    BY <2>1
<1>5. ASSUME NEW p \in DOMAIN found PROVE found[p].key = Meant(T, p)
  <2>1. p \in 1 .. Len(T) /\ found[p] = L[p]
    BY <1>4
  <2>2. L[p].key = Meant(T, p)
    BY <1>3, <2>1 DEF Matches, MatchesAt
  <2> QED
    BY <2>1, <2>2
<1> QED
  BY <1>2, <1>5 DEF T

-----------------------------------------------------------------------------
(* The specification                                                       *)

\* What the program answers to data and accounts.
AnswerTo(d, list) ==
    IF Unpack(d) \in {Refused, Panicked}
    THEN [result |-> Unpack(d).op, understood |-> Unpack(d), found |-> <<>>]
    ELSE Handled(Unpack(d), list)
Thrown == [Waiting EXCEPT !.result = "thrown"]

(* A builder and the client pack the instruction that is meant; only the   *)
(* client lists other accounts; whatever was answered was answered to the  *)
(* data and the accounts of the request, or the client threw.              *)
ReqTypes ==
    /\ caller \in {"builder", "client", "anyone"}
    /\ sent \in PoolInstruction /\ listed \in Nat /\ data \in Seq(Byte)
PackedAsMeant == caller # "anyone" => data = Pack(sent)
ListedAsMeant == caller # "client" => accounts = AccountsOf(sent, AssetsOf(sent))
AnsweredAsAsked ==
    \/ answer = Waiting
    \/ caller = "client" /\ answer = Thrown
    \/ answer = AnswerTo(data, accounts)
ReqInv == ReqTypes /\ PackedAsMeant /\ ListedAsMeant /\ AnsweredAsAsked

LEMMA NotAnError == ASSUME NEW i \in PoolInstruction PROVE i \notin {Refused, Panicked}
<1>1. i.op \in Operations \/ i.op = "CreateOrder"
  BY OpOf
<1>2. Refused.op = "InvalidInstruction" /\ Panicked.op = "Panic"
  BY DEF Refused, Panicked
<1> QED
  BY <1>1, <1>2 DEF Operations

LEMMA ReqInitially == ReqInit => ReqInv
<1> SUFFICES ASSUME ReqInit PROVE ReqInv
  OBVIOUS
<1>1. ReqTypes
  <2>1. sent \in PoolInstruction /\ listed \in Nat
    BY RequestsAssumption DEF ReqInit
  <2>2. Pack(sent) \in Seq(Byte)
    BY <2>1, RoundTrip
  <2> QED
    BY <2>1, <2>2 DEF ReqInit, ReqTypes
<1> QED
  BY <1>1 DEF ReqInit, ReqInv, PackedAsMeant, ListedAsMeant, AnsweredAsAsked

LEMMA ClientCreatesInv ==
    ASSUME ReqInv, NEW percentage \in Percentages, ClientCreates(percentage)
    PROVE  ReqInv'
<1> DEFINE ratio == (Values[2] * percentage) \div 100
           other == [sent EXCEPT !.fee_ratio = ratio]
<1>1. ReqTypes /\ data = Pack(sent) /\ sent.op = "Create"
  BY DEF ReqInv, PackedAsMeant, ClientCreates
<1>2. CASE FitsNumberu(ratio, 2)
  <2>1. sent' = other /\ data' = Pack(sent') /\ answer' = Waiting
    BY <1>2 DEF ClientCreates
  <2>2. ratio \in Unsigned(2)
    <3>1. Values[2] \in Nat /\ percentage \in Nat
      BY ValuesType, RequestsAssumption
    <3> DEFINE v == Values[2] * percentage
    <3>2. v \in Nat
      BY <3>1
    <3> HIDE DEF v
    <3>3. v \div 100 \in Nat
      BY <3>2
    <3>4. ratio = v \div 100
      BY DEF v
    <3> HIDE DEF ratio
    <3>5. ratio \in Nat /\ ratio < Values[2]
      BY <1>2, <3>3, <3>4 DEF FitsNumberu
    <3> QED
      BY <3>1, <3>5 DEF Unsigned
  <2> HIDE DEF ratio
  <2>3. sent \in CreateFields
    <3>1. sent \in PoolInstruction
      BY <1>1 DEF ReqTypes
    <3> QED
      BY <1>1, <3>1 DEF PoolInstruction, InitFields, AmountFields, CreateOrderFields,
                        CancelOrderFields, SettleFundsFields, CollectFeesFields
  <2>4. other \in PoolInstruction
    BY <2>2, <2>3 DEF CreateFields, PoolInstruction
  <2> HIDE DEF other
  <2>5. Pack(other) \in Seq(Byte)
    BY <2>4, RoundTrip
  <2>6. caller' = "client" /\ listed' = listed
    BY DEF ClientCreates
  <2>7. ReqTypes'
    BY <1>1, <2>1, <2>4, <2>5, <2>6 DEF ReqTypes
  <2> QED
    BY <2>1, <2>6, <2>7
       DEF ReqInv, PackedAsMeant, ListedAsMeant, AnsweredAsAsked, Waiting
<1>3. CASE ~FitsNumberu(ratio, 2)
  <2>1. /\ answer' = Thrown /\ caller' = "client"
        /\ sent' = sent /\ data' = data /\ listed' = listed
    BY <1>3 DEF ClientCreates, Thrown
  <2>2. ReqTypes'
    BY <1>1, <2>1 DEF ReqTypes
  <2> QED
    BY <1>1, <2>1, <2>2
       DEF ReqInv, PackedAsMeant, ListedAsMeant, AnsweredAsAsked, Thrown, Waiting
<1> QED
  BY <1>2, <1>3

LEMMA ReqStep == ReqInv /\ [ReqNext]_reqVars => ReqInv'
<1> SUFFICES ASSUME ReqInv, [ReqNext]_reqVars PROVE ReqInv'
  OBVIOUS
<1>1. CASE ClientWrites
  <2>1. /\ caller' = "client" /\ answer' = Waiting /\ caller = "builder"
        /\ sent' = sent /\ listed' = listed /\ data' = data
    BY <1>1 DEF ClientWrites
  <2> QED
    BY <2>1 DEF ReqInv, ReqTypes, PackedAsMeant, ListedAsMeant, AnsweredAsAsked, Waiting
<1>2. ASSUME NEW percentage \in Percentages, ClientCreates(percentage) PROVE ReqInv'
  BY <1>2, ClientCreatesInv
<1>3. ASSUME NEW length \in 0 .. Len(data) - 1, Cut(length) PROVE ReqInv'
  <2>1. /\ caller' = "anyone" /\ answer' = Waiting /\ caller = "builder"
        /\ sent' = sent /\ listed' = listed /\ accounts' = accounts
        /\ data' = SubSeq(data, 1, length)
    BY <1>3 DEF Cut
  <2>2. SubSeq(data, 1, length) \in Seq(Byte)
    BY <1>3, LenProperties DEF ReqInv, ReqTypes
  <2> QED
    BY <2>1, <2>2 DEF ReqInv, ReqTypes, PackedAsMeant, ListedAsMeant, AnsweredAsAsked,
                      Waiting, AssetsOf, AccountsOf
<1>4. ASSUME NEW at \in DOMAIN data, NEW byte \in Tampered, Change(at, byte)
      PROVE  ReqInv'
  <2>1. /\ caller' = "anyone" /\ answer' = Waiting /\ caller = "builder"
        /\ sent' = sent /\ listed' = listed /\ accounts' = accounts
        /\ data' = [data EXCEPT ![at] = byte]
    BY <1>4 DEF Change
  <2>2. [data EXCEPT ![at] = byte] \in Seq(Byte)
    BY RequestsAssumption, ExceptSeq DEF ReqInv, ReqTypes
  <2> QED
    BY <2>1, <2>2 DEF ReqInv, ReqTypes, PackedAsMeant, ListedAsMeant, AnsweredAsAsked,
                      Waiting, AssetsOf, AccountsOf
<1>5. CASE process_instruction
  <2>1. answer' = AnswerTo(data, accounts) /\ UNCHANGED request
    BY <1>5 DEF process_instruction, AnswerTo
  <2>2. AnswerTo(data, accounts) = AnswerTo(data, accounts)'
    BY <2>1 DEF request, AnswerTo, Handled, Takes
  <2> QED
    BY <2>1, <2>2 DEF ReqInv, ReqTypes, PackedAsMeant, ListedAsMeant, AnsweredAsAsked,
                      request, AssetsOf, AccountsOf
<1>6. CASE UNCHANGED reqVars
  BY <1>6 DEF reqVars, request, ReqInv, ReqTypes, PackedAsMeant, ListedAsMeant,
              AnsweredAsAsked, AssetsOf, AccountsOf, AnswerTo, Handled, Takes
<1> QED
  BY <1>1, <1>2, <1>3, <1>4, <1>5, <1>6 DEF ReqNext

\* The invariant of the requests holds always.
THEOREM ReqAlways == ReqSpec => []ReqInv
<1>1. ReqInit => ReqInv
  BY ReqInitially
<1>2. ReqInv /\ [ReqNext]_reqVars => ReqInv'
  BY ReqStep
<1> QED
  BY <1>1, <1>2, PTL DEF ReqSpec

\* What was packed as it was meant is understood as it was meant.
LEMMA AnswerToPacked ==
    ASSUME NEW i \in PoolInstruction, NEW list
    PROVE  /\ AnswerTo(Pack(i), list) = Handled(i, list)
           /\ AnswerTo(Pack(i), list).understood = i
           /\ i.op = "CreateOrder" => AnswerTo(Pack(i), list).result = "disabled"
<1>1. AnswerTo(Pack(i), list) = Handled(i, list)
  BY RoundTrip, NotAnError DEF AnswerTo
<1>2. CASE i.op = "CreateOrder"
  <2>1. Handled(i, list) = [result |-> "disabled", understood |-> i, found |-> <<>>]
    BY <1>2 DEF Handled, process_create_order
  <2> HIDE DEF Handled
  <2>2. Handled(i, list).understood = i /\ Handled(i, list).result = "disabled"
    BY <2>1
  <2> QED
    BY <1>1, <2>2
<1>3. CASE i.op \in Operations
  BY <1>1, <1>3, HandledServes DEF Operations
<1> QED
  BY <1>2, <1>3, OpOf

LEMMA WaitingParts ==
    /\ Waiting.result = "waiting" /\ Waiting.understood = Refused
    /\ Thrown.result = "thrown" /\ Thrown.understood = Refused
BY DEF Waiting, Thrown

LEMMA ReqInvServes == ReqInv => BuildersAreServed
<1> SUFFICES ASSUME ReqInv, caller = "builder", answer # Waiting
             PROVE  /\ answer.understood = sent
                    /\ answer.result = IF sent.op = "CreateOrder" THEN "disabled" ELSE "served"
  BY DEF BuildersAreServed
<1>1. /\ sent \in PoolInstruction /\ listed \in Nat /\ data = Pack(sent)
      /\ accounts = AccountsOf(sent, AssetsOf(sent))
      /\ answer = AnswerTo(Pack(sent), accounts)
  BY DEF ReqInv, ReqTypes, PackedAsMeant, ListedAsMeant, AnsweredAsAsked
<1>2. answer.understood = sent /\ answer = Handled(sent, accounts)
  BY <1>1, AnswerToPacked
<1>3. CASE sent.op = "CreateOrder"
  BY <1>1, <1>2, <1>3, AnswerToPacked
<1>4. CASE sent.op # "CreateOrder"
  <2>1. sent.op \in Operations
    BY <1>1, <1>4, OpOf
  <2>2. AllRight(sent, accounts, Takes(sent))
    BY <1>1, <2>1, BuilderServed
  <2>3. answer.result = "served"
    BY <1>2, <2>1, <2>2, HandledServes
  <2> QED
    BY <1>2, <1>4, <2>3
<1> QED
  BY <1>3, <1>4

LEMMA ReqInvUnderstands == ReqInv => OnlyPackedIsUnderstood
<1> SUFFICES ASSUME ReqInv, answer.understood \notin {Refused, Panicked}
             PROVE  /\ Len(Pack(answer.understood)) <= Len(data)
                    /\ Pack(answer.understood) = SubSeq(data, 1, Len(Pack(answer.understood)))
  BY DEF OnlyPackedIsUnderstood
<1> DEFINE i == Unpack(data)
<1>1. data \in Seq(Byte) /\ answer = AnswerTo(data, accounts)
  BY WaitingParts DEF ReqInv, ReqTypes, AnsweredAsAsked
<1>2. i \notin {Refused, Panicked}
  <2> SUFFICES ASSUME i \in {Refused, Panicked} PROVE FALSE
    OBVIOUS
  <2> DEFINE r == i.op
  <2>1. answer = [result |-> r, understood |-> i, found |-> <<>>]
    BY <1>1 DEF AnswerTo
  <2> HIDE DEF i, r
  <2>2. answer.understood = i
    BY <2>1
  <2> QED
    BY <2>2
<1>3. i \in PoolInstruction /\ Starts(data, Pack(i))
  BY <1>1, <1>2, Reading
<1>4. answer.understood = i
  <2>1. answer = Handled(i, accounts)
    BY <1>1, <1>2 DEF AnswerTo
  <2> HIDE DEF i
  <2>2. AnswerTo(Pack(i), accounts) = Handled(i, accounts)
          /\ AnswerTo(Pack(i), accounts).understood = i
    BY <1>3, AnswerToPacked
  <2> QED
    BY <2>1, <2>2
<1> QED
  BY <1>3, <1>4 DEF Starts

LEMMA ReqInvClient == ReqInv => ClientIsUnderstood
<1> SUFFICES ASSUME ReqInv, caller = "client", answer.result # "waiting",
                    answer.result # "thrown"
             PROVE  answer.understood = sent
  BY DEF ClientIsUnderstood
<1>1. sent \in PoolInstruction /\ answer = AnswerTo(Pack(sent), accounts)
  BY WaitingParts DEF ReqInv, ReqTypes, PackedAsMeant, AnsweredAsAsked
<1> QED
  BY <1>1, AnswerToPacked

LEMMA ReqInvMatches == ReqInv => MismatchIsRefused
<1> SUFFICES ASSUME ReqInv, Served, caller # "client"
             PROVE  \A p \in DOMAIN answer.found :
                      answer.found[p].key = Meant(Takes(answer.understood), p)
  BY DEF MismatchIsRefused
<1> DEFINE i == Unpack(data)
<1>1. /\ data \in Seq(Byte) /\ answer = AnswerTo(data, accounts)
      /\ sent \in PoolInstruction /\ listed \in Nat
      /\ accounts = AccountsOf(sent, AssetsOf(sent)) /\ answer.result = "served"
  BY WaitingParts DEF ReqInv, ReqTypes, ListedAsMeant, AnsweredAsAsked, Served
<1>2. i \notin {Refused, Panicked}
  <2> SUFFICES ASSUME i \in {Refused, Panicked} PROVE FALSE
    OBVIOUS
  <2>1. i.op # "served"
    BY DEF Refused, Panicked
  <2> DEFINE r == i.op
  <2>2. answer = [result |-> r, understood |-> i, found |-> <<>>]
    BY <1>1 DEF AnswerTo
  <2>3. r # "served"
    BY <2>1
  <2> HIDE DEF i, r
  <2>4. answer.result = r
    BY <2>2
  <2> QED
    BY <1>1, <2>3, <2>4
<1>3. i \in PoolInstruction
  BY <1>1, <1>2, Reading
<1>4. answer = Handled(i, accounts)
  BY <1>1, <1>2 DEF AnswerTo
<1> HIDE DEF i
<1>5. i.op \in Operations
  <2>1. AnswerTo(Pack(i), accounts) = Handled(i, accounts)
    BY <1>3, AnswerToPacked
  <2>2. i.op # "CreateOrder"
    BY <1>1, <1>3, <1>4, <2>1, AnswerToPacked
  <2> QED
    BY <1>3, <2>2, OpOf
<1>6. /\ AllRight(i, accounts, Takes(i)) /\ answer.understood = i
      /\ answer.found = SubSeq(accounts, 1, Len(Takes(i)))
  BY <1>1, <1>4, <1>5, HandledServes
<1>7. LET found == SubSeq(accounts, 1, Len(Takes(i)))
      IN  \A p \in DOMAIN found : found[p].key = Meant(Takes(i), p)
  BY <1>1, <1>3, <1>5, <1>6, ServedIsMeant
<1> QED
  BY <1>6, <1>7

(* For every instruction, whatever its fields and however many assets it   *)
(* names: what a builder of instruction.rs packs the program unpacks, and  *)
(* the handler finds every account it needs in the builder's list.         *)
THEOREM BuildersAlwaysServed == ReqSpec => []BuildersAreServed
<1>1. ReqInv => BuildersAreServed
  BY ReqInvServes
<1> QED
  BY <1>1, ReqAlways, PTL

(* Whatever bytes arrive, what the program understands packs to the bytes  *)
(* that it came from: unpack has no second reading of any data.            *)
THEOREM OnlyPackedUnderstood == ReqSpec => []OnlyPackedIsUnderstood
<1>1. ReqInv => OnlyPackedIsUnderstood
  BY ReqInvUnderstands
<1> QED
  BY <1>1, ReqAlways, PTL

(* For every percentage that is given to the client's createPool, the      *)
(* program understands what the client means, or the client threw.         *)
THEOREM ClientAlwaysUnderstood == ReqSpec => []ClientIsUnderstood
<1>1. ReqInv => ClientIsUnderstood
  BY ReqInvClient
<1> QED
  BY <1>1, ReqAlways, PTL

(* No handler serves a list that a builder wrote for another instruction,  *)
(* nor, for Create, for another number of assets: with whatever bytes it   *)
(* arrives, every account of a served list is the one that its place means.*)
THEOREM MismatchAlwaysRefused == ReqSpec => []MismatchIsRefused
<1>1. ReqInv => MismatchIsRefused
  BY ReqInvMatches
<1> QED
  BY <1>1, ReqAlways, PTL
=============================================================================
