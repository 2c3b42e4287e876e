---------------------------- MODULE ClientProofs ----------------------------
(***************************************************************************)
(* What a client does to a pool, however late the program takes its        *)
(* transactions: proofs for every set of users and mints, every list of    *)
(* assets in every life of the pool, and any number of transactions under  *)
(* way.                                                                    *)
(***************************************************************************)
EXTENDS Client, TradingProofs

-----------------------------------------------------------------------------
(* The sequence that is left without some elements                         *)

\* The first i elements of a sequence that are m, by their places.
Before(s, i, m) == {j \in 1 .. i : s[j] = m}

LEMMA OneMoreBefore ==
    ASSUME NEW s, NEW i \in Nat, NEW m
    PROVE  /\ IsFiniteSet(Before(s, i, m)) /\ Cardinality(Before(s, i, m)) \in Nat
           /\ Cardinality(Before(s, i + 1, m)) =
                Cardinality(Before(s, i, m)) + (IF s[i + 1] = m THEN 1 ELSE 0)
<1>1. IsFiniteSet(1 .. i)
  <2>1. 1 \in Int /\ i \in Int
    OBVIOUS
  <2> QED
    BY <2>1, FS_Interval
<1>2. IsFiniteSet(Before(s, i, m)) /\ Cardinality(Before(s, i, m)) \in Nat
  <2>1. Before(s, i, m) \subseteq 1 .. i
    BY DEF Before
  <2> QED
    BY <1>1, <2>1, FS_Subset, FS_CardinalityType
<1>3. CASE s[i + 1] = m
  <2>1. Before(s, i + 1, m) = Before(s, i, m) \cup {i + 1}
    BY <1>3 DEF Before
  <2>2. i + 1 \notin Before(s, i, m)
    BY DEF Before
  <2>3. Cardinality(Before(s, i, m) \cup {i + 1}) = Cardinality(Before(s, i, m)) + 1
    BY <1>2, <2>2, FS_AddElement
  <2> QED
    BY <1>2, <1>3, <2>1, <2>3
<1>4. CASE s[i + 1] # m
  <2>1. Before(s, i + 1, m) = Before(s, i, m)
    BY <1>4 DEF Before
  <2> QED
    BY <1>2, <1>4, <2>1
<1> QED
  BY <1>2, <1>3, <1>4

\* An element is among the first i exactly when it is counted there.
Among(s, i, m) == \E j \in 1 .. i : s[j] = m

LEMMA CountIsAmong ==
    ASSUME NEW s, NEW i \in Nat, NEW m
    PROVE  Cardinality(Before(s, i, m)) = 0 <=> ~Among(s, i, m)
<1>1. Before(s, i, m) = {} <=> ~Among(s, i, m)
  BY DEF Before, Among
<1>2. IsFiniteSet(Before(s, i, m))
  BY OneMoreBefore
<1> QED
  BY <1>1, <1>2, FS_EmptySet

\* What the loop has kept after each element.
Keeps(kept, s, out) ==
    /\ kept[0] = <<>>
    /\ \A i \in 1 .. Len(s) :
         kept[i] = IF s[i] \in out THEN kept[i - 1] ELSE Append(kept[i - 1], s[i])

LEMMA WithoutKeeps ==
    ASSUME NEW T, NEW s \in Seq(T), NEW out
    PROVE  \E kept : Keeps(kept, s, out) /\ Without(s, out) = kept[Len(s)]
<1> DEFINE n == Len(s)
           D(g) == [i \in 0 .. n |->
                      IF i = 0 THEN <<>>
                      ELSE IF s[i] \in out THEN g[i - 1] ELSE Append(g[i - 1], s[i])]
           V == Seq(T)
           keep(i) == [v \in V |-> IF s[i] \in out THEN v ELSE Append(v, s[i])]
           step == [i \in 1 .. n |-> keep(i)]
<1>1. n \in Nat /\ \A i \in 1 .. n : s[i] \in T
  BY ElementOfSeq, LenProperties
<1>2. step \in [1 .. n -> [V -> V]]
  <2>1. ASSUME NEW i \in 1 .. n PROVE keep(i) \in [V -> V]
    <3>1. \A v \in V : Append(v, s[i]) \in V
      BY <1>1, AppendProperties
    <3> QED
      BY <3>1
  <2> HIDE DEF keep, V
  <2> QED
    BY <2>1
<1>3. PICK f : Walks(f, V, n, <<>>, step)
  <2>1. <<>> \in V
    OBVIOUS
  <2> HIDE DEF step, V, n
  <2> QED
    BY <1>1, <1>2, <2>1, StepRecursion
<1>4. f = D(f)
  <2>1. ASSUME NEW i \in 1 .. n
        PROVE  step[i][f[i - 1]] = IF s[i] \in out THEN f[i - 1] ELSE Append(f[i - 1], s[i])
    <3>1. i - 1 \in 0 .. n
      BY <1>1
    <3>2. f \in [0 .. n -> V]
      BY <1>3 DEF Walks
    <3>3. f[i - 1] \in V
      <4> HIDE DEF V, n
      <4> QED
        BY <3>1, <3>2
    <3> QED
      BY <3>3
  <2> HIDE DEF step, V
  <2>2. ASSUME NEW i \in 0 .. n PROVE f[i] = D(f)[i]
    <3>1. CASE i = 0
      BY <1>3, <3>1 DEF Walks
    <3>2. CASE i # 0
      <4>1. i \in 1 .. n
        BY <1>1, <3>2
      <4> QED
        BY <1>3, <2>1, <3>2, <4>1 DEF Walks
    <3> QED
      BY <3>1, <3>2
  <2> QED
    BY <1>3, <2>2 DEF Walks
<1> DEFINE kept == CHOOSE g : g = D(g)
<1>5. kept = D(kept)
  <2> HIDE DEF D
  <2> QED
    BY <1>4
<1>6. Without(s, out) = kept[n]
  BY DEF Without
<1> HIDE DEF kept
<1>7. Keeps(kept, s, out)
  <2>1. ASSUME NEW i \in 0 .. n PROVE kept[i] = D(kept)[i]
    BY <1>5
  <2>2. kept[0] = <<>>
    BY <1>1, <2>1
  <2>3. ASSUME NEW i \in 1 .. n
        PROVE  kept[i] = IF s[i] \in out THEN kept[i - 1] ELSE Append(kept[i - 1], s[i])
    <3>1. i \in 0 .. n /\ i # 0
      OBVIOUS
    <3> QED
      BY <2>1, <3>1
  <2> QED
    BY <2>2, <2>3 DEF Keeps
<1> QED
  BY <1>6, <1>7

(* Without drops what it is told to, and keeps every other element as      *)
(* often as it was there.                                                  *)
LEMMA WithoutCounts ==
    ASSUME NEW T, NEW s \in Seq(T), NEW out
    PROVE  /\ Without(s, out) \in Seq(T \ out)
           /\ \A m \in T \ out :
                Cardinality(Before(Without(s, out), Len(Without(s, out)), m))
                  = Cardinality(Before(s, Len(s), m))
<1>1. PICK kept : Keeps(kept, s, out) /\ Without(s, out) = kept[Len(s)]
  BY WithoutKeeps
<1> DEFINE n == Len(s)
           Same(w, i) == \A m \in T \ out :
             Cardinality(Before(w, Len(w), m)) = Cardinality(Before(s, i, m))
           G == {i \in 0 .. n : kept[i] \in Seq(T \ out) /\ Same(kept[i], i)}
<1>2. n \in Nat /\ \A i \in 1 .. n : s[i] \in T
  BY ElementOfSeq, LenProperties
<1>3. 0 \in G
  <2>1. kept[0] = <<>> /\ Len(<<>>) = 0
    BY <1>1 DEF Keeps
  <2>2. \A m : Before(<<>>, 0, m) = {} /\ Before(s, 0, m) = {}
    BY DEF Before
  <2>3. Same(kept[0], 0)
    BY <2>1, <2>2
  <2>4. <<>> \in Seq(T \ out)
    OBVIOUS
  <2>5. kept[0] \in Seq(T \ out)
    BY <2>1, <2>4
  <2> HIDE DEF Same
  <2> QED
    BY <1>2, <2>3, <2>5
<1>4. ASSUME NEW i \in 1 .. n, i - 1 \in G PROVE i \in G
  <2> DEFINE v == kept[i - 1]  w == kept[i]  k == Len(v)
  <2>1. /\ v \in Seq(T \ out) /\ k \in Nat /\ Same(v, i - 1)
        /\ i - 1 \in Nat /\ (i - 1) + 1 = i
    BY <1>2, <1>4, LenProperties
  <2>2. w = IF s[i] \in out THEN v ELSE Append(v, s[i])
    BY <1>1 DEF Keeps
  <2> HIDE DEF v, w, k
  <2>3. ASSUME NEW m
        PROVE  Cardinality(Before(s, i, m)) =
                 Cardinality(Before(s, i - 1, m)) + (IF s[i] = m THEN 1 ELSE 0)
               /\ Cardinality(Before(s, i - 1, m)) \in Nat
    BY <2>1, OneMoreBefore
  <2>4. CASE s[i] \in out
    <3>1. \A m \in T \ out : Cardinality(Before(s, i, m)) = Cardinality(Before(s, i - 1, m))
      BY <2>3, <2>4
    <3>2. Same(w, i) /\ w \in Seq(T \ out)
      BY <2>1, <2>2, <2>4, <3>1
    <3> QED
      BY <3>2 DEF w
  <2>5. CASE s[i] \notin out
    <3>1. w = Append(v, s[i]) /\ s[i] \in T \ out
      BY <1>2, <2>2, <2>5
    <3>2. /\ w \in Seq(T \ out) /\ Len(w) = k + 1 /\ w[k + 1] = s[i]
          /\ \A j \in 1 .. k : w[j] = v[j]
      BY <2>1, <3>1, AppendProperties DEF k
    <3>3. ASSUME NEW m \in T \ out
          PROVE  Cardinality(Before(w, Len(w), m)) = Cardinality(Before(s, i, m))
      <4>1. Before(w, k, m) = Before(v, k, m)
        BY <3>2 DEF Before
      <4>2. Cardinality(Before(w, k + 1, m)) =
              Cardinality(Before(w, k, m)) + (IF w[k + 1] = m THEN 1 ELSE 0)
        BY <2>1, OneMoreBefore
      <4>3. Cardinality(Before(v, k, m)) = Cardinality(Before(s, i - 1, m))
        BY <2>1 DEF k
      <4> QED
        BY <2>3, <3>2, <4>1, <4>2, <4>3
    <3> QED
      BY <3>2, <3>3 DEF w
  <2> QED
    BY <2>4, <2>5
<1> HIDE DEF G
<1>5. n \in G
  <2>1. 0 .. n \subseteq G
    BY <1>2, <1>3, <1>4, IntervalInduction
  <2> QED
    BY <1>2, <2>1
<1> QED
  BY <1>1, <1>5 DEF G

\* What is kept is what is not to be dropped.
LEMMA WithoutAmong ==
    ASSUME NEW T, NEW s \in Seq(T), NEW out, NEW m \in T \ out
    PROVE  LET w == Without(s, out)
           IN  Among(w, Len(w), m) <=> Among(s, Len(s), m)
<1> DEFINE w == Without(s, out)
<1>1. /\ w \in Seq(T \ out)
      /\ Cardinality(Before(w, Len(w), m)) = Cardinality(Before(s, Len(s), m))
  BY WithoutCounts
<1>2. Len(s) \in Nat /\ Len(w) \in Nat
  <2> HIDE DEF w
  <2> QED
    BY <1>1, LenProperties
<1> HIDE DEF w
<1>3. Among(w, Len(w), m) <=> Among(s, Len(s), m)
  BY <1>1, <1>2, CountIsAmong
<1> QED
  BY <1>3 DEF w

\* What repeats nothing but what is dropped leaves a sequence that repeats nothing.
LEMMA WithoutDistinct ==
    ASSUME NEW T, NEW s \in Seq(T), NEW out,
           \A i, j \in 1 .. Len(s) : s[i] = s[j] /\ s[i] \notin out => i = j
    PROVE  LET w == Without(s, out)
           IN  \A i, j \in 1 .. Len(w) : w[i] = w[j] => i = j
<1> DEFINE w == Without(s, out)
<1> SUFFICES ASSUME NEW i \in 1 .. Len(w), NEW j \in 1 .. Len(w), w[i] = w[j]
             PROVE  i = j
  OBVIOUS
<1>1. /\ w \in Seq(T \ out)
      /\ \A m \in T \ out :
           Cardinality(Before(w, Len(w), m)) = Cardinality(Before(s, Len(s), m))
  BY WithoutCounts
<1> HIDE DEF w
<1>2. Len(w) \in Nat /\ Len(s) \in Nat /\ w[i] \in T \ out
  BY <1>1, LenProperties, ElementOfSeq
<1> DEFINE m == w[i]  B == Before(w, Len(w), m)  A == Before(s, Len(s), m)
<1>3. IsFiniteSet(B) /\ Cardinality(B) = Cardinality(A)
  BY <1>1, <1>2, OneMoreBefore
<1>4. i \in B /\ j \in B
  BY DEF Before
<1>5. Cardinality(B) # 0
  <2> HIDE DEF B
  <2> QED
    BY <1>3, <1>4, FS_EmptySet
<1>6. PICK p \in 1 .. Len(s) : s[p] = m
  <2>1. Among(s, Len(s), m)
    BY <1>2, <1>3, <1>5, CountIsAmong
  <2> QED
    BY <2>1 DEF Among
<1>7. A = {p}
  BY <1>2, <1>6 DEF Before
<1> HIDE DEF A, B, m
<1>8. Cardinality(B) = 1
  BY <1>3, <1>7, FS_Singleton
<1>9. PICK x : B = {x}
  BY <1>3, <1>8, FS_Singleton
<1> QED
  BY <1>4, <1>9

-----------------------------------------------------------------------------
(* The places of the accounts that a handler takes                         *)

\* The places of a role, n of them, come after the place h.
OneRun(R, role, h, n) ==
    \E len \in Nat :
      /\ DOMAIN R = 1 .. len /\ h + n <= len
      /\ \A p \in 1 .. len : R[p] = role <=> p \in h + 1 .. h + n

(* A handler counts the accounts of a role from the first of them on: when *)
(* they come one after the other, the i-th is i places after the rest.     *)
LEMMA RunIsTaken ==
    ASSUME NEW list, NEW R, NEW role, NEW h \in Nat, NEW n \in Nat,
           OneRun(R, role, h, n), NEW i \in 1 .. n
    PROVE  Taken(list, R, role, i) = list[h + i]
<1>0. PICK len \in Nat : /\ DOMAIN R = 1 .. len /\ h + n <= len
                         /\ \A p \in 1 .. len : R[p] = role <=> p \in h + 1 .. h + n
  BY DEF OneRun
<1>1. Run(R, h, n, role)
  <2>1. \A q \in 1 .. h : q \in 1 .. len /\ ~(q \in h + 1 .. h + n)
    BY <1>0
  <2>2. \A j \in 1 .. n : h + j \in 1 .. len /\ h + j \in h + 1 .. h + n
    BY <1>0
  <2> QED
    BY <1>0, <2>1, <2>2 DEF Run
<1>2. \A k \in 1 .. n : Place(R, h + k) = k
  BY <1>1, RunIsCounted DEF Place
<1>3. h + i \in DOMAIN R /\ R[h + i] = role /\ Place(R, h + i) = i
  BY <1>0, <1>1, <1>2 DEF Run
<1>4. ASSUME NEW p \in DOMAIN R, R[p] = role, Place(R, p) = i PROVE p = h + i
  <2>1. p \in h + 1 .. h + n
    BY <1>0, <1>4
  <2>2. PICK k \in 1 .. n : p = h + k
    <3>1. p - h \in 1 .. n /\ p = h + (p - h)
      BY <2>1
    <3> QED
      BY <3>1
  <2>3. k = i
    BY <1>2, <1>4, <2>2
  <2> QED
    BY <2>2, <2>3
<1>5. (CHOOSE p \in DOMAIN R : R[p] = role /\ Place(R, p) = i) = h + i
  BY <1>3, <1>4
<1> QED
  BY <1>5 DEF Taken

\* The accounts that are there before those of the assets.
RedeemHead == <<"spl", "clock", "mint", "owner", "poolTokens", "pool">>
DepositHead ==
    <<"spl", "mint", "poolTokens", "providerFee", "bonfidaFee", "buyBurnFee", "pool">>
RoleNames  ==
    {"spl", "clock", "mint", "owner", "poolTokens", "providerFee", "bonfidaFee",
     "buyBurnFee", "pool", "asset", "source", "target"}

LEMMA RedeemRoles ==
    ASSUME NEW n \in Nat
    PROVE  LET R == RedeemTakes(n)
           IN  /\ DOMAIN R = 1 .. 6 + n + n /\ Len(R) = 6 + n + n
               /\ \A p \in 1 .. 6 : R[p] = RedeemHead[p]
               /\ \A k \in 1 .. n : R[6 + k] = "asset" /\ R[6 + n + k] = "target"
<1> DEFINE h == RedeemHead  x == Times(n, "asset")  z == Times(n, "target")
<1>1. Long(h, RoleNames, 6)
  BY DEF Long, RedeemHead, RoleNames
<1>2. x \in [1 .. n -> RoleNames] /\ z \in [1 .. n -> RoleNames]
  BY DEF Times, RoleNames
<1> HIDE DEF h, x, z
<1>3. PairSeq(h, x, z) \in Seq(RoleNames) /\ Paired(PairSeq(h, x, z), h, 6, x, z, n)
  BY <1>1, <1>2, PairedOut
<1>4. RedeemTakes(n) = PairSeq(h, x, z)
  BY DEF RedeemTakes, PairSeq, RedeemHead, h, x, z
<1> HIDE DEF PairSeq
<1>5. \A k \in 1 .. n : x[k] = "asset" /\ z[k] = "target"
  BY DEF x, z, Times
<1>6. Len(PairSeq(h, x, z)) = 6 + n + n
  BY <1>3 DEF Paired
<1>7. DOMAIN PairSeq(h, x, z) = 1 .. 6 + n + n
  BY <1>3, <1>6, LenProperties
<1> QED
  BY <1>3, <1>4, <1>5, <1>6, <1>7 DEF Paired, h

\* Where the redeemer, the pool's accounts and those to pay to are.
LEMMA RedeemPlaces ==
    ASSUME NEW n \in Nat, NEW list
    PROVE  /\ Taken(list, RedeemTakes(n), "owner", 1) = list[4]
           /\ \A i \in 1 .. n :
                /\ Taken(list, RedeemTakes(n), "asset", i) = list[6 + i]
                /\ Taken(list, RedeemTakes(n), "target", i) = list[6 + n + i]
<1> DEFINE R == RedeemTakes(n)  len == 6 + n + n
<1>1. /\ DOMAIN R = 1 .. len
      /\ \A p \in 1 .. 6 : R[p] = RedeemHead[p]
      /\ \A k \in 1 .. n : R[6 + k] = "asset" /\ R[6 + n + k] = "target"
  BY RedeemRoles
<1> HIDE DEF R
<1>2. /\ len \in Nat /\ 3 + 1 <= len /\ 6 + n <= len
      /\ 6 + n \in Nat /\ (6 + n) + n <= len
  OBVIOUS
<1>3. ASSUME NEW p \in 1 .. len
      PROVE  \/ p \in 1 .. 6
             \/ p \in 6 + 1 .. 6 + n /\ R[p] = "asset"
             \/ p \in (6 + n) + 1 .. (6 + n) + n /\ R[p] = "target"
  <2>1. CASE p \in 6 + 1 .. 6 + n
    <3>1. p - 6 \in 1 .. n /\ 6 + (p - 6) = p
      BY <2>1
    <3>2. R[6 + (p - 6)] = "asset"
      BY <1>1, <3>1
    <3> QED
      BY <2>1, <3>1, <3>2
  <2>2. CASE p \in (6 + n) + 1 .. (6 + n) + n
    <3>1. p - (6 + n) \in 1 .. n /\ 6 + n + (p - (6 + n)) = p
      BY <2>2
    <3>2. R[6 + n + (p - (6 + n))] = "target"
      BY <1>1, <3>1
    <3> QED
      BY <2>2, <3>1, <3>2
  <2> QED
    BY <2>1, <2>2
<1>4. ASSUME NEW p \in 1 .. 6
      PROVE  R[p] # "asset" /\ R[p] # "target" /\ (R[p] = "owner" <=> p = 4)
  <2>1. R[p] = RedeemHead[p]
    BY <1>1
  <2> QED
    BY <2>1 DEF RedeemHead
<1>5. ASSUME NEW p \in 1 .. len
      PROVE  /\ R[p] = "owner" <=> p \in 3 + 1 .. 3 + 1
             /\ R[p] = "asset" <=> p \in 6 + 1 .. 6 + n
             /\ R[p] = "target" <=> p \in (6 + n) + 1 .. (6 + n) + n
  BY <1>3, <1>4
<1>6. /\ OneRun(R, "owner", 3, 1) /\ OneRun(R, "asset", 6, n)
      /\ OneRun(R, "target", 6 + n, n)
  <2> HIDE DEF len
  <2> QED
    BY <1>1, <1>2, <1>5 DEF OneRun
<1>7. Taken(list, R, "owner", 1) = list[3 + 1]
  BY <1>6, RunIsTaken
<1>8. ASSUME NEW i \in 1 .. n
      PROVE  /\ Taken(list, R, "asset", i) = list[6 + i]
             /\ Taken(list, R, "target", i) = list[(6 + n) + i]
  BY <1>2, <1>6, RunIsTaken
<1> QED
  BY <1>7, <1>8 DEF R

LEMMA DepositRoles ==
    ASSUME NEW n \in Nat
    PROVE  LET R == DepositTakes(n)
           IN  /\ DOMAIN R = 1 .. 7 + n + 1 + n /\ Len(R) = 7 + n + 1 + n
               /\ \A p \in 1 .. 7 : R[p] = DepositHead[p]
               /\ \A k \in 1 .. n : R[7 + k] = "asset"
               /\ R[7 + n + 1] = "owner"
               /\ \A k \in 1 .. n : R[7 + n + 1 + k] = "source"
<1> DEFINE h == DepositHead  x == Times(n, "asset")  z == Times(n, "source")
<1>1. Long(h, RoleNames, 7)
  BY DEF Long, DepositHead, RoleNames
<1>2. x \in [1 .. n -> RoleNames] /\ z \in [1 .. n -> RoleNames] /\ "owner" \in RoleNames
  BY DEF Times, RoleNames
<1> DEFINE s == LaidSeq(h, x, "owner", z)
<1>3. DepositTakes(n) = s
  BY DEF DepositTakes, LaidSeq, DepositHead
<1>4. \A k \in 1 .. n : x[k] = "asset" /\ z[k] = "source"
  BY DEF Times
<1> HIDE DEF h, x, z
<1>5. s \in Seq(RoleNames) /\ Laid(s, h, 7, x, "owner", z, n)
  BY <1>1, <1>2, LaidOut
<1> HIDE DEF s
<1>6. Len(s) = 7 + n + 1 + n
  BY <1>5 DEF Laid
<1>7. DOMAIN s = 1 .. 7 + n + 1 + n
  BY <1>5, <1>6, LenProperties
<1> QED
  BY <1>3, <1>4, <1>5, <1>6, <1>7 DEF Laid, h

\* Where the depositor and the pool's accounts are.
LEMMA DepositPlaces ==
    ASSUME NEW n \in Nat, NEW list
    PROVE  /\ Taken(list, DepositTakes(n), "owner", 1) = list[7 + n + 1]
           /\ \A i \in 1 .. n :
                Taken(list, DepositTakes(n), "asset", i) = list[7 + i]
<1> DEFINE R == DepositTakes(n)  len == 7 + n + 1 + n
<1>1. /\ DOMAIN R = 1 .. len
      /\ \A p \in 1 .. 7 : R[p] = DepositHead[p]
      /\ \A k \in 1 .. n : R[7 + k] = "asset"
      /\ R[7 + n + 1] = "owner"
      /\ \A k \in 1 .. n : R[7 + n + 1 + k] = "source"
  BY DepositRoles
<1> HIDE DEF R
<1>2. len \in Nat /\ 7 + n \in Nat /\ 7 + n <= len /\ (7 + n) + 1 <= len
  OBVIOUS
<1>3. ASSUME NEW p \in 1 .. len
      PROVE  \/ p \in 1 .. 7
             \/ p \in 7 + 1 .. 7 + n /\ R[p] = "asset"
             \/ p = 7 + n + 1 /\ R[p] = "owner"
             \/ p > 7 + n + 1 /\ R[p] = "source"
  <2>1. CASE p \in 7 + 1 .. 7 + n
    <3>1. p - 7 \in 1 .. n /\ 7 + (p - 7) = p
      BY <2>1
    <3>2. R[7 + (p - 7)] = "asset"
      BY <1>1, <3>1
    <3> QED
      BY <2>1, <3>1, <3>2
  <2>2. CASE p > 7 + n + 1
    <3>1. p - (7 + n + 1) \in 1 .. n /\ 7 + n + 1 + (p - (7 + n + 1)) = p
      BY <2>2
    <3>2. R[7 + n + 1 + (p - (7 + n + 1))] = "source"
      BY <1>1, <3>1
    <3> QED
      BY <2>2, <3>1, <3>2
  <2> QED
    BY <1>1, <2>1, <2>2
<1>4. ASSUME NEW p \in 1 .. 7 PROVE R[p] # "asset" /\ R[p] # "owner"
  <2>1. R[p] = DepositHead[p]
    BY <1>1
  <2> QED
    BY <2>1 DEF DepositHead
<1>5. ASSUME NEW p \in 1 .. len
      PROVE  /\ R[p] = "owner" <=> p \in (7 + n) + 1 .. (7 + n) + 1
             /\ R[p] = "asset" <=> p \in 7 + 1 .. 7 + n
  BY <1>3, <1>4
<1>6. OneRun(R, "owner", 7 + n, 1) /\ OneRun(R, "asset", 7, n)
  <2> HIDE DEF len
  <2> QED
    BY <1>1, <1>2, <1>5 DEF OneRun
<1>7. Taken(list, R, "owner", 1) = list[(7 + n) + 1]
  BY <1>2, <1>6, RunIsTaken
<1>8. ASSUME NEW i \in 1 .. n PROVE Taken(list, R, "asset", i) = list[7 + i]
  BY <1>6, RunIsTaken
<1> QED
  BY <1>7, <1>8 DEF R

-----------------------------------------------------------------------------
(* The assets of a pool                                                    *)

(* The list of the assets names the mints of the slots, and each as often  *)
(* as a loop over the slots passes it.                                     *)
LEMMA AssetsType ==
    ASSUME TypeOK
    PROVE  /\ Assets \in Seq(Mints)
           /\ \A m \in Mints : Passes(m) = Cardinality(Before(Assets, Len(Assets), m))
<1> DEFINE T == Mints \cup {NoMint}
<1>1. slots \in Seq(T) /\ T \ {NoMint} = Mints
  BY PoolAssumption DEF TypeOK
<1>2. DOMAIN slots = 1 .. Len(slots)
  BY <1>1, LenProperties
<1>3. /\ Assets \in Seq(T \ {NoMint})
      /\ \A m \in T \ {NoMint} :
           Cardinality(Before(Assets, Len(Assets), m))
             = Cardinality(Before(slots, Len(slots), m))
  <2> DEFINE out == {NoMint}  w == Without(slots, out)
  <2>1. slots \in Seq(T)
    BY <1>1
  <2> HIDE DEF T, out
  <2>2. /\ w \in Seq(T \ out)
        /\ \A m \in T \ out :
             Cardinality(Before(w, Len(w), m)) = Cardinality(Before(slots, Len(slots), m))
    BY <2>1, WithoutCounts
  <2>3. Assets = w
    BY DEF Assets, out
  <2> HIDE DEF w
  <2> QED
    BY <2>2, <2>3 DEF out
<1>4. \A m \in Mints : Passes(m) = Cardinality(Before(slots, Len(slots), m))
  BY <1>2 DEF Passes, Before
<1> HIDE DEF T
<1> QED
  BY <1>1, <1>3, <1>4

\* What a pool lists is what the list of its assets names.
LEMMA ListedIsAmong ==
    ASSUME TypeOK, NEW m \in Mints
    PROVE  m \in Listed <=> Among(Assets, Len(Assets), m)
<1>1. Len(Assets) \in Nat
  BY AssetsType, LenProperties
<1>2. Passes(m) = 0 <=> ~Among(Assets, Len(Assets), m)
  BY <1>1, AssetsType, CountIsAmong
<1> QED
  BY <1>2, PassesType

\* The list is empty exactly when the pool lists no mint.
LEMMA NoAssets ==
    ASSUME TypeOK
    PROVE  Len(Assets) = 0 <=> Listed = {}
<1>1. Len(Assets) \in Nat /\ \A i \in 1 .. Len(Assets) : Assets[i] \in Mints
  BY AssetsType, LenProperties, ElementOfSeq
<1>2. CASE Len(Assets) = 0
  BY <1>2, ListedIsAmong DEF Among, Listed
<1>3. CASE Len(Assets) # 0
  <2>1. 1 \in 1 .. Len(Assets) /\ Assets[1] \in Mints
    BY <1>1, <1>3
  <2>2. Among(Assets, Len(Assets), Assets[1])
    BY <2>1 DEF Among
  <2>3. Assets[1] \in Listed
    BY <2>1, <2>2, ListedIsAmong
  <2> QED
    BY <1>3, <2>3
<1> QED
  BY <1>2, <1>3

\* The position that the client names for a mint is one where it is listed.
LEMMA SlotOfListed ==
    ASSUME TypeOK, NEW m \in Listed
    PROVE  SlotOf(m) \in 1 .. Len(Assets) /\ Assets[SlotOf(m)] = m
<1> DEFINE n == Len(Assets)
           S == {i \in Nat : i \in 1 .. n /\ Assets[i] = m}
<1>1. n \in Nat /\ DOMAIN Assets = 1 .. n
  BY AssetsType, LenProperties
<1>2. S # {}
  <2>1. m \in Mints
    BY DEF Listed
  <2> QED
    BY <1>1, <2>1, ListedIsAmong DEF Among
<1>3. PICK i \in S : \A j \in S : i <= j
  BY <1>2, NatLeast
<1>4. /\ i \in DOMAIN Assets
      /\ Assets[i] = m /\ \A j \in 1 .. i - 1 : Assets[j] # m
  <2>1. ASSUME NEW j \in 1 .. i - 1, Assets[j] = m PROVE FALSE
    <3>1. j \in S
      BY <1>1, <1>3, <2>1
    <3> QED
      BY <1>3, <3>1
  <2> QED
    BY <1>1, <1>3, <2>1
<1>5. /\ SlotOf(m) \in DOMAIN Assets /\ Assets[SlotOf(m)] = m
  BY <1>4 DEF SlotOf
<1> QED
  BY <1>1, <1>5

\* Where the list has no gap, positions among the assets are slots.
LEMMA AssetsWithoutGap ==
    ASSUME TypeOK, NoGap, NEW p \in 1 .. Len(Assets)
    PROVE  p \in DOMAIN slots /\ slots[p] = Assets[p]
<1> DEFINE T == Mints \cup {NoMint}  n == Len(slots)
<1>1. slots \in Seq(T) /\ n \in Nat /\ DOMAIN slots = 1 .. n
      /\ \A i \in 1 .. n : slots[i] \in T
  BY LenProperties, ElementOfSeq DEF TypeOK
<1>2. PICK kept : Keeps(kept, slots, {NoMint}) /\ Assets = kept[n]
  <2> HIDE DEF T
  <2> QED
    BY <1>1, WithoutKeeps DEF Assets
<1> DEFINE G == {i \in 0 .. n :
                   /\ kept[i] \in Seq(T) /\ Len(kept[i]) <= i
                   /\ \A j \in 1 .. Len(kept[i]) : kept[i][j] = slots[j]
                   /\ Len(kept[i]) < i => slots[i] = NoMint}
<1>3. 0 \in G
  <2>1. kept[0] = <<>> /\ Len(<<>>) = 0 /\ <<>> \in Seq(T)
    BY <1>2 DEF Keeps
  <2>2. 0 \in 0 .. n /\ ~(0 < 0) /\ 0 <= 0 /\ \A j \in 1 .. 0 : FALSE
    BY <1>1
  <2>3. kept[0] \in Seq(T) /\ Len(kept[0]) = 0
    BY <2>1
  <2> HIDE DEF T
  <2> QED
    BY <2>2, <2>3
<1>4. ASSUME NEW i \in 1 .. n, i - 1 \in G PROVE i \in G
  <2> DEFINE v == kept[i - 1]  w == kept[i]  k == Len(v)
  <2>1. /\ v \in Seq(T) /\ k \in Nat /\ k <= i - 1 /\ i \in 0 .. n
        /\ \A j \in 1 .. k : v[j] = slots[j]
        /\ k < i - 1 => slots[i - 1] = NoMint
    BY <1>1, <1>4, LenProperties
  <2>2. w = IF slots[i] \in {NoMint} THEN v ELSE Append(v, slots[i])
    BY <1>2 DEF Keeps
  <2> HIDE DEF v, w
  <2>3. CASE slots[i] = NoMint
    <3>1. w = v
      BY <2>2, <2>3
    <3>2. Len(w) <= i
      BY <1>1, <2>1, <3>1
    <3> QED
      BY <2>1, <2>3, <3>1, <3>2 DEF w
  <2>4. CASE slots[i] # NoMint
    <3>1. k = i - 1
      <4>1. SUFFICES ASSUME k < i - 1 PROVE FALSE
        BY <1>1, <2>1
      <4>2. i - 1 \in DOMAIN slots /\ i \in DOMAIN slots /\ i - 1 < i
        BY <1>1, <2>1, <4>1
      <4> QED
        BY <2>1, <2>4, <4>1, <4>2 DEF NoGap
    <3>2. slots[i] \in T /\ w = Append(v, slots[i])
      BY <1>1, <2>2, <2>4
    <3>3. /\ w \in Seq(T) /\ Len(w) = k + 1 /\ w[k + 1] = slots[i]
          /\ \A j \in 1 .. k : w[j] = v[j]
      <4> DEFINE e == slots[i]
      <4> HIDE DEF T, e
      <4>1. /\ Append(v, e) \in Seq(T) /\ Len(Append(v, e)) = Len(v) + 1
            /\ Append(v, e)[Len(v) + 1] = e
            /\ \A j \in 1 .. Len(v) : Append(v, e)[j] = v[j]
        BY <2>1, <3>2, AppendProperties DEF e
      <4> QED
        BY <3>2, <4>1 DEF e
    <3>4. Len(w) = i /\ k + 1 = i
      BY <1>1, <3>1, <3>3
    <3>5. \A j \in 1 .. i : w[j] = slots[j]
      <4>1. \A j \in 1 .. i : j \in 1 .. k \/ j = i
        BY <3>4, <2>1
      <4> QED
        BY <2>1, <3>3, <3>4, <4>1
    <3>6. ~(i < i) /\ i <= i
      BY <1>1
    <3> QED
      BY <2>1, <3>3, <3>4, <3>5, <3>6 DEF w
  <2> QED
    BY <2>3, <2>4
<1> HIDE DEF G
<1>5. n \in G
  <2>1. 0 .. n \subseteq G
    BY <1>1, <1>3, <1>4, IntervalInduction
  <2> QED
    BY <1>1, <2>1
<1>6. Len(Assets) <= n /\ \A j \in 1 .. Len(Assets) : Assets[j] = slots[j]
  BY <1>2, <1>5 DEF G
<1>7. Len(Assets) \in Nat
  BY AssetsType, LenProperties
<1> QED
  BY <1>1, <1>6, <1>7

(* Free funds can come home to the slots that the client names, where the  *)
(* list has no gap: its positions are then slots of the two mints.         *)
LEMMA ClientNamesSlots ==
    ASSUME TypeOK, TradeInv, UsedMarketsStayListed
    PROVE  ClientSettlesFreeFunds
<1>1. ASSUME NoGap, NEW oo \in OpenOrders, HasFunds(oo)
      PROVE  MaySettle(oo, SlotOf(CoinOf[oo]), SlotOf(PcOf[oo]))
  <2>1. oo \in Used(total) /\ status \in PendingKinds
    BY <1>1, FundsAreCounted
  <2>2. CoinOf[oo] \in Listed /\ PcOf[oo] \in Listed
    BY <2>1 DEF UsedMarketsStayListed, MarketOf
  <2>3. Fits(SlotOf(CoinOf[oo]), CoinOf[oo]) /\ Fits(SlotOf(PcOf[oo]), PcOf[oo])
    BY <1>1, <2>2, SlotOfListed, AssetsWithoutGap DEF Fits
  <2>4. status \in Initialized
    BY <2>1 DEF PendingKinds, Initialized, Statuses
  <2> QED
    BY <1>1, <2>1, <2>3, <2>4 DEF MaySettle
<1> QED
  BY <1>1 DEF ClientSettlesFreeFunds

\* The accounts that the client opens are missing, the depositor's or a fee's.
LEMMA MissingType ==
    ASSUME NEW u
    PROVE  LET s == Missing(u)
           IN  /\ Len(s) \in Nat /\ DOMAIN s = 1 .. Len(s)
               /\ \A i \in DOMAIN s : s[i] \in {u} \cup FeeAccounts
<1> DEFINE T == {u} \cup FeeAccounts  s == Missing(u)
<1>1. <<u>> \o FeeReceivers \in Seq(T)
  <2>1. <<u>> \in Seq(T) /\ FeeReceivers \in Seq(T)
    BY DEF FeeReceivers, FeeAccounts
  <2> HIDE DEF T
  <2> QED
    BY <2>1, ConcatProperties
<1>2. s \in Seq(T \ opened)
  <2> HIDE DEF T
  <2> QED
    BY <1>1, WithoutCounts DEF Missing
<1>3. Len(s) \in Nat /\ DOMAIN s = 1 .. Len(s) /\ \A i \in 1 .. Len(s) : s[i] \in T \ opened
  <2> HIDE DEF T, s
  <2> QED
    BY <1>2, LenProperties, ElementOfSeq
<1> QED
  BY <1>3

-----------------------------------------------------------------------------
(* The lists that the client composes                                      *)

ListMetas ==
    [key : {Token(o, m) : o \in Holders \cup {"pool"}, m \in Mints}
             \cup {The(role) : role \in RoleNames},
     writable : BOOLEAN, signer : BOOLEAN]

LEMMA RolesOut ==
    ASSUME NEW n \in Nat, NEW s \in [1 .. n -> RoleNames]
    PROVE  Long(Readonly(s), ListMetas, n) /\ Long(Writable(s), ListMetas, n)
<1>1. ASSUME NEW role \in RoleNames, NEW w \in BOOLEAN
      PROVE  Meta(The(role), w, FALSE) \in ListMetas
  BY DEF Meta, ListMetas
<1>2. DOMAIN s = 1 .. n /\ \A i \in 1 .. n : s[i] \in RoleNames
  OBVIOUS
<1>3. Readonly(s) \in [1 .. n -> ListMetas] /\ Writable(s) \in [1 .. n -> ListMetas]
  BY <1>1, <1>2 DEF Readonly, Writable
<1> QED
  BY <1>3, SeqOf DEF Long

LEMMA OwnerOut ==
    \E meta \in ListMetas : Signer("owner") = <<meta>> /\ meta.signer
<1> DEFINE meta == Meta(The("owner"), FALSE, TRUE)
<1>1. meta \in ListMetas /\ meta.signer
  <2>1. "owner" \in RoleNames
    BY DEF RoleNames
  <2> QED
    BY <2>1 DEF Meta, ListMetas
<1>2. Signer("owner") = <<meta>>
  BY DEF Signer
<1> HIDE DEF meta
<1> QED
  BY <1>1, <1>2

LEMMA AssetsOut ==
    ASSUME TypeOK, NEW o \in Holders \cup {"pool"}
    PROVE  LET a == Keys(AssetAccounts(o))
           IN  /\ a \in [1 .. Len(Assets) -> ListMetas]
               /\ \A i \in 1 .. Len(Assets) : a[i].key = Token(o, Assets[i])
<1>1. /\ Len(Assets) \in Nat /\ DOMAIN Assets = 1 .. Len(Assets)
      /\ \A i \in 1 .. Len(Assets) : Assets[i] \in Mints
  BY AssetsType, LenProperties, ElementOfSeq
<1>2. /\ DOMAIN AssetAccounts(o) = 1 .. Len(Assets)
      /\ \A i \in 1 .. Len(Assets) : AssetAccounts(o)[i] = Token(o, Assets[i])
  BY <1>1 DEF AssetAccounts
<1>3. ASSUME NEW i \in 1 .. Len(Assets)
      PROVE  /\ Meta(Token(o, Assets[i]), TRUE, FALSE) \in ListMetas
             /\ Meta(Token(o, Assets[i]), TRUE, FALSE).key = Token(o, Assets[i])
  <2>1. Assets[i] \in Mints
    BY <1>1
  <2> QED
    BY <2>1 DEF Meta, ListMetas
<1>4. Keys(AssetAccounts(o)) =
        [i \in 1 .. Len(Assets) |-> Meta(Token(o, Assets[i]), TRUE, FALSE)]
  BY <1>2 DEF Keys
<1> QED
  BY <1>3, <1>4

\* What a list of a redemption has in the places that the handler looks at.
LEMMA RedemptionList ==
    ASSUME TypeOK, NEW h \in Holders
    PROVE  LET list == redeem(AssetAccounts("pool"), AssetAccounts(h))
               n    == Len(Assets)
           IN  /\ Len(list) = 6 + n + n /\ list[4].signer
               /\ \A i \in 1 .. n : /\ list[6 + i].key = Token("pool", Assets[i])
                                    /\ list[6 + n + i].key = Token(h, Assets[i])
<1> DEFINE n == Len(Assets)
           a == Readonly(<<"spl", "clock">>)  b == Writable(<<"mint">>)
           c == Signer("owner")  d == Writable(<<"poolTokens", "pool">>)
           x == Keys(AssetAccounts("pool"))  z == Keys(AssetAccounts(h))
           ab == a \o b  abc == ab \o c  abcd == abc \o d
<1>1. n \in Nat
  BY AssetsType, LenProperties
<1>2. /\ x \in [1 .. n -> ListMetas] /\ z \in [1 .. n -> ListMetas]
      /\ \A i \in 1 .. n : x[i].key = Token("pool", Assets[i])
      /\ \A i \in 1 .. n : z[i].key = Token(h, Assets[i])
  BY AssetsOut
<1>3. Long(a, ListMetas, 2) /\ Long(b, ListMetas, 1) /\ Long(d, ListMetas, 2)
  <2>1. /\ <<"spl", "clock">> \in [1 .. 2 -> RoleNames]
        /\ <<"mint">> \in [1 .. 1 -> RoleNames]
        /\ <<"poolTokens", "pool">> \in [1 .. 2 -> RoleNames]
    BY DEF RoleNames
  <2> QED
    BY <2>1, RolesOut
<1>4. Long(c, ListMetas, 1) /\ c[1].signer
  <2>1. PICK meta \in ListMetas : c = <<meta>> /\ meta.signer
    BY OwnerOut
  <2> HIDE DEF c
  <2> QED
    BY <2>1 DEF Long
<1>5. redeem(AssetAccounts("pool"), AssetAccounts(h)) = PairSeq(abcd, x, z)
  BY DEF redeem, PairSeq
<1> HIDE DEF n, a, b, c, d, x, z
<1>6. Long(ab, ListMetas, 3)
  <2>1. Long(ab, ListMetas, 2 + 1)
    BY <1>3, Then
  <2> QED
    BY <2>1
<1> HIDE DEF ab
<1>7. Long(abc, ListMetas, 4) /\ abc[4].signer
  <2>1. Long(abc, ListMetas, 3 + 1) /\ OneAfter(abc, ab, 3, c, 1)
    BY <1>4, <1>6, Then
  <2>2. 1 \in 1 .. 1 /\ 3 + 1 = 4
    OBVIOUS
  <2>3. abc[3 + 1] = c[1]
    BY <2>1, <2>2 DEF OneAfter
  <2> QED
    BY <1>4, <2>1, <2>2, <2>3
<1> HIDE DEF abc
<1>8. Long(abcd, ListMetas, 6) /\ abcd[4].signer
  <2>1. Long(abcd, ListMetas, 4 + 2) /\ OneAfter(abcd, abc, 4, d, 2)
    BY <1>3, <1>7, Then
  <2>2. 4 \in 1 .. 4 /\ 4 + 2 = 6
    OBVIOUS
  <2>3. abcd[4] = abc[4]
    BY <2>1, <2>2 DEF OneAfter
  <2> QED
    BY <1>7, <2>1, <2>2, <2>3
<1> HIDE DEF abcd
<1> DEFINE list == PairSeq(abcd, x, z)
<1>9. Paired(list, abcd, 6, x, z, n)
  BY <1>1, <1>2, <1>8, PairedOut
<1> HIDE DEF list
<1>10. /\ Len(list) = 6 + n + n /\ list[4].signer
       /\ \A i \in 1 .. n : list[6 + i] = x[i] /\ list[6 + n + i] = z[i]
  BY <1>8, <1>9 DEF Paired
<1>11. /\ Len(list) = 6 + n + n /\ list[4].signer
       /\ \A i \in 1 .. n : /\ list[6 + i].key = Token("pool", Assets[i])
                            /\ list[6 + n + i].key = Token(h, Assets[i])
  BY <1>2, <1>10
<1> QED
  BY <1>5, <1>11 DEF n, list

\* What a list of a deposit has there.
LEMMA DepositList ==
    ASSUME TypeOK, NEW u \in Holders
    PROVE  LET list == deposit(AssetAccounts("pool"), AssetAccounts(u))
               n    == Len(Assets)
           IN  /\ Len(list) = 7 + n + 1 + n /\ list[7 + n + 1].signer
               /\ \A i \in 1 .. n : list[7 + i].key = Token("pool", Assets[i])
<1> DEFINE n == Len(Assets)
           a == Readonly(<<"spl">>)
           b == Writable(<<"mint", "poolTokens", "providerFee", "bonfidaFee",
                           "buyBurnFee">>)
           c == Readonly(<<"pool">>)
           x == Keys(AssetAccounts("pool"))  z == Keys(AssetAccounts(u))
           ab == a \o b  abc == ab \o c
<1>1. n \in Nat
  BY AssetsType, LenProperties
<1>2. /\ x \in [1 .. n -> ListMetas] /\ z \in [1 .. n -> ListMetas]
      /\ \A i \in 1 .. n : x[i].key = Token("pool", Assets[i])
  BY AssetsOut
<1>3. Long(a, ListMetas, 1) /\ Long(b, ListMetas, 5) /\ Long(c, ListMetas, 1)
  <2>1. /\ <<"spl">> \in [1 .. 1 -> RoleNames] /\ <<"pool">> \in [1 .. 1 -> RoleNames]
        /\ <<"mint", "poolTokens", "providerFee", "bonfidaFee", "buyBurnFee">>
             \in [1 .. 5 -> RoleNames]
    BY DEF RoleNames
  <2> QED
    BY <2>1, RolesOut
<1>4. PICK meta \in ListMetas : Signer("owner") = <<meta>> /\ meta.signer
  BY OwnerOut
<1>5. deposit(AssetAccounts("pool"), AssetAccounts(u)) = LaidSeq(abc, x, meta, z)
  BY <1>4 DEF deposit, LaidSeq
<1> HIDE DEF n, a, b, c, x, z
<1>6. Long(ab, ListMetas, 6)
  <2>1. Long(ab, ListMetas, 1 + 5)
    BY <1>3, Then
  <2> QED
    BY <2>1
<1> HIDE DEF ab
<1>7. Long(abc, ListMetas, 7)
  <2>1. Long(abc, ListMetas, 6 + 1)
    BY <1>3, <1>6, Then
  <2> QED
    BY <2>1
<1> HIDE DEF abc
<1> DEFINE list == LaidSeq(abc, x, meta, z)
<1>8. Laid(list, abc, 7, x, meta, z, n)
  BY <1>1, <1>2, <1>7, LaidOut
<1> HIDE DEF list
<1>9. /\ Len(list) = 7 + n + 1 + n /\ list[7 + n + 1].signer
      /\ \A i \in 1 .. n : list[7 + i].key = Token("pool", Assets[i])
  BY <1>2, <1>4, <1>8 DEF Laid
<1> QED
  BY <1>5, <1>9 DEF n, list

-----------------------------------------------------------------------------
(* A redemption, transfer by transfer                                      *)

\* The accounts that a list gives for the i-th asset, of the pool and to pay to.
PoolSide(r, i)   == r.accounts[6 + i].key
HolderSide(r, i) == r.accounts[6 + Len(Assets) + i].key

\* What is computed from the balance that is there.
DueOf(k, v, m) == RedeemAmount(k, v[m], supply)

\* The balances, from one transfer to the next.
Transfers(left, r) ==
    /\ left \in [0 .. Len(Assets) -> [Mints -> Nat]]
    /\ left[0] = poolBal
    /\ \A i \in 1 .. Len(Assets) :
         left[i] = IF HolderSide(r, i) = PoolSide(r, i) THEN left[i - 1]
                   ELSE [left[i - 1] EXCEPT ![Assets[i]] =
                           @ - DueOf(r.amount, left[i - 1], Assets[i])]

\* A request whose amount and accounts a redemption may go on with.
Payable(r) ==
    /\ r.amount \in Nat /\ r.amount <= supply
    /\ supply > 0 \/ Len(Assets) = 0
    /\ \A i \in 1 .. Len(Assets) : PoolSide(r, i) = Token("pool", Assets[i])

LEMMA LeftTransfers ==
    ASSUME TypeOK, NEW r, Payable(r)
    PROVE  Transfers(Left(r), r)
<1> DEFINE n == Len(Assets)
           V == [Mints -> Nat]
           at(x, i) == Taken(r.accounts, RedeemTakes(n), x, i)
           D(g) == [i \in 0 .. n |->
             IF i = 0 THEN poolBal
             ELSE LET m   == at("asset", i).key.mint
                      due == RedeemAmount(r.amount, g[i - 1][m], supply)
                  IN  IF at("target", i).key = at("asset", i).key
                      THEN g[i - 1]
                      ELSE [g[i - 1] EXCEPT ![m] = @ - due]]
           pays(v, i) == IF HolderSide(r, i) = PoolSide(r, i) THEN v
                         ELSE [v EXCEPT ![Assets[i]] = @ - DueOf(r.amount, v, Assets[i])]
           step == [i \in 1 .. n |-> [v \in V |-> pays(v, i)]]
<1>1. /\ n \in Nat /\ \A i \in 1 .. n : Assets[i] \in Mints
      /\ poolBal \in V /\ r.amount \in Nat /\ r.amount <= supply /\ supply \in Nat
      /\ n > 0 => supply \in Nat \ {0}
      /\ \A i \in 1 .. n : PoolSide(r, i) = Token("pool", Assets[i])
  <2>1. Assets \in Seq(Mints)
    BY AssetsType
  <2> QED
    BY <2>1, LenProperties, ElementOfSeq DEF Payable, TypeOK
<1>2. ASSUME NEW i \in 1 .. n
      PROVE  /\ at("asset", i).key = PoolSide(r, i)
             /\ at("target", i).key = HolderSide(r, i)
             /\ at("asset", i).key.mint = Assets[i]
  <2>1. /\ Taken(r.accounts, RedeemTakes(n), "asset", i) = r.accounts[6 + i]
        /\ Taken(r.accounts, RedeemTakes(n), "target", i) = r.accounts[6 + n + i]
    BY <1>1, RedeemPlaces
  <2>2. Token("pool", Assets[i]).mint = Assets[i]
    BY DEF Token
  <2> QED
    BY <1>1, <2>1, <2>2 DEF PoolSide, HolderSide
<1>3. step \in [1 .. n -> [V -> V]]
  <2>1. ASSUME NEW i \in 1 .. n, NEW v \in V PROVE pays(v, i) \in V
    <3>1. Assets[i] \in Mints /\ supply \in Nat \ {0} /\ v[Assets[i]] \in Nat
      BY <1>1
    <3>2. DueOf(r.amount, v, Assets[i]) \in 0 .. v[Assets[i]]
      BY <1>1, <3>1, RedeemAmountType DEF DueOf
    <3>3. v[Assets[i]] - DueOf(r.amount, v, Assets[i]) \in Nat
      BY <3>1, <3>2
    <3> QED
      BY <3>1, <3>3
  <2> HIDE DEF V, pays
  <2> QED
    BY <2>1
<1>4. PICK f : Walks(f, V, n, poolBal, step)
  <2> HIDE DEF step, V, n
  <2> QED
    BY <1>1, <1>3, StepRecursion
<1> HIDE DEF at
<1>5. f = D(f)
  <2>1. ASSUME NEW i \in 1 .. n PROVE step[i][f[i - 1]] = pays(f[i - 1], i)
    <3>1. i - 1 \in 0 .. n
      BY <1>1
    <3>2. f \in [0 .. n -> V]
      BY <1>4 DEF Walks
    <3>3. f[i - 1] \in V
      <4> HIDE DEF V, n
      <4> QED
        BY <3>1, <3>2
    <3> HIDE DEF pays, V
    <3> QED
      BY <3>3
  <2>2. ASSUME NEW i \in 1 .. n PROVE pays(f[i - 1], i) = D(f)[i]
    <3>1. i \in 0 .. n /\ i # 0
      OBVIOUS
    <3> QED
      BY <1>2, <3>1 DEF DueOf
  <2> HIDE DEF step, V, pays
  <2>3. ASSUME NEW i \in 0 .. n PROVE f[i] = D(f)[i]
    <3>1. CASE i = 0
      BY <1>4, <3>1 DEF Walks
    <3>2. CASE i # 0
      <4>1. i \in 1 .. n
        BY <1>1, <3>2
      <4>2. f[i] = step[i][f[i - 1]]
        BY <1>4, <3>2 DEF Walks
      <4> QED
        BY <2>1, <2>2, <4>1, <4>2
    <3> QED
      BY <3>1, <3>2
  <2> QED
    BY <1>4, <2>3 DEF Walks
<1> DEFINE left == CHOOSE g : g = D(g)
<1>6. left = D(left)
  <2> HIDE DEF D
  <2> QED
    BY <1>5
<1>7. Left(r) = left
  BY DEF Left, at
<1> HIDE DEF left
<1>8. left[0] = poolBal
  <2>1. 0 \in 0 .. n
    BY <1>1
  <2>2. left[0] = D(left)[0]
    BY <1>6
  <2> QED
    BY <2>1, <2>2
<1>9. ASSUME NEW i \in 1 .. n PROVE left[i] = pays(left[i - 1], i)
  <2>1. i \in 0 .. n /\ i # 0
    OBVIOUS
  <2>2. left[i] = D(left)[i]
    BY <1>6
  <2> QED
    BY <1>2, <2>1, <2>2 DEF DueOf
<1>10. left \in [0 .. n -> V]
  <2> DEFINE G == {i \in 0 .. n : left[i] \in V}
  <2>1. 0 \in G
    BY <1>1, <1>8
  <2>2. ASSUME NEW i \in 1 .. n, i - 1 \in G PROVE i \in G
    <3>1. left[i - 1] \in V
      BY <2>2
    <3>2. pays(left[i - 1], i) \in V
      <4>1. step[i] \in [V -> V]
        <5> HIDE DEF step, V, n
        <5> QED
          BY <1>3
      <4>2. step[i][left[i - 1]] = pays(left[i - 1], i)
        <5> HIDE DEF pays, V
        <5> QED
          BY <3>1
      <4>3. step[i][left[i - 1]] \in V
        <5> HIDE DEF step, V
        <5> QED
          BY <3>1, <4>1
      <4> QED
        BY <4>2, <4>3
    <3> HIDE DEF pays, V
    <3> QED
      BY <1>9, <3>2
  <2> HIDE DEF G
  <2>3. 0 .. n \subseteq G
    BY <1>1, <2>1, <2>2, IntervalInduction
  <2>4. \A i \in 0 .. n : left[i] \in V
    BY <2>3 DEF G
  <2>5. left = [i \in 0 .. n |-> left[i]]
    BY <1>6
  <2> HIDE DEF V, n
  <2> QED
    BY <2>4, <2>5
<1> QED
  BY <1>7, <1>8, <1>9, <1>10 DEF Transfers

\* The types that the steps of a redemption are about.
LEMMA TransferTypes ==
    ASSUME TypeOK, NEW r, Payable(r), NEW left, Transfers(left, r)
    PROVE  /\ Len(Assets) \in Nat /\ supply \in Nat
           /\ \A m \in Mints : poolBal[m] \in Nat
           /\ \A i \in 0 .. Len(Assets), m \in Mints : left[i][m] \in Nat
           /\ \A i \in 1 .. Len(Assets) :
                /\ Assets[i] \in Mints /\ supply \in Nat \ {0}
                /\ DueOf(r.amount, left[i - 1], Assets[i])
                     \in 0 .. left[i - 1][Assets[i]]
<1>1. Len(Assets) \in Nat /\ \A i \in 1 .. Len(Assets) : Assets[i] \in Mints
  BY AssetsType, LenProperties, ElementOfSeq
<1>2. /\ supply \in Nat /\ \A m \in Mints : poolBal[m] \in Nat
      /\ Len(Assets) > 0 => supply \in Nat \ {0}
  BY <1>1 DEF TypeOK, Payable
<1>3. \A i \in 0 .. Len(Assets), m \in Mints : left[i][m] \in Nat
  BY DEF Transfers
<1>4. ASSUME NEW i \in 1 .. Len(Assets)
      PROVE  /\ Assets[i] \in Mints /\ supply \in Nat \ {0}
             /\ DueOf(r.amount, left[i - 1], Assets[i]) \in 0 .. left[i - 1][Assets[i]]
  <2>1. Assets[i] \in Mints /\ supply \in Nat \ {0} /\ i - 1 \in 0 .. Len(Assets)
    BY <1>1, <1>2
  <2>2. left[i - 1][Assets[i]] \in Nat
    BY <1>3, <2>1
  <2> QED
    BY <2>1, <2>2, RedeemAmountType DEF DueOf, Payable
<1> QED
  BY <1>1, <1>2, <1>3, <1>4

\* A transfer lets the other mints be.
LEMMA OneTransfer ==
    ASSUME TypeOK, NEW r, Payable(r), NEW left, Transfers(left, r),
           NEW i \in 1 .. Len(Assets), NEW m \in Mints
    PROVE  left[i][m] = IF HolderSide(r, i) # PoolSide(r, i) /\ Assets[i] = m
                        THEN left[i - 1][m] - RedeemAmount(r.amount, left[i - 1][m], supply)
                        ELSE left[i - 1][m]
<1>0. i - 1 \in 0 .. Len(Assets)
  <2>1. Len(Assets) \in Nat
    BY TransferTypes
  <2> QED
    BY <2>1
<1>1. /\ left \in [0 .. Len(Assets) -> [Mints -> Nat]]
      /\ left[i] = IF HolderSide(r, i) = PoolSide(r, i) THEN left[i - 1]
                   ELSE [left[i - 1] EXCEPT ![Assets[i]] =
                           @ - DueOf(r.amount, left[i - 1], Assets[i])]
  BY DEF Transfers
<1>2. left[i - 1] \in [Mints -> Nat]
  BY <1>0, <1>1
<1> QED
  BY <1>1, <1>2 DEF DueOf

(* However the list repeats its accounts, no balance is paid beyond what   *)
(* is there.                                                               *)
LEMMA TransfersBound ==
    ASSUME TypeOK, NEW r, Payable(r), NEW left, Transfers(left, r), NEW m \in Mints
    PROVE  left[Len(Assets)][m] \in 0 .. poolBal[m]
<1> DEFINE n == Len(Assets)
           G == {i \in 0 .. n : left[i][m] \in 0 .. poolBal[m]}
<1>1. 0 \in G
  BY TransferTypes DEF Transfers
<1>2. ASSUME NEW i \in 1 .. n, i - 1 \in G PROVE i \in G
  <2>1. left[i - 1][m] \in 0 .. poolBal[m] /\ poolBal[m] \in Nat
    BY <1>2, TransferTypes
  <2>2. left[i][m] \in {left[i - 1][m],
                        left[i - 1][m] - RedeemAmount(r.amount, left[i - 1][m], supply)}
    BY OneTransfer
  <2>3. RedeemAmount(r.amount, left[i - 1][m], supply) \in 0 .. left[i - 1][m]
    <3>1. supply \in Nat \ {0} /\ r.amount \in Nat /\ r.amount <= supply
          /\ left[i - 1][m] \in Nat
      BY <2>1, TransferTypes DEF Payable
    <3> QED
      BY <2>1, <3>1, RedeemAmountType
  <2> QED
    BY <2>1, <2>2, <2>3
<1> HIDE DEF G
<1>3. 0 .. n \subseteq G
  BY <1>1, <1>2, TransferTypes, IntervalInduction
<1>4. n \in G
  BY <1>3, TransferTypes
<1> QED
  BY <1>4 DEF G

\* A list that pays to no account of the pool.
PaysOthers(r) == \A i \in 1 .. Len(Assets) : HolderSide(r, i) # PoolSide(r, i)

(* Such a list pays each mint once for every slot that lists it, each time *)
(* from what is left: what Redeem says of it.                              *)
LEMMA TransfersByPasses ==
    ASSUME TypeOK, NEW r, Payable(r), PaysOthers(r),
           NEW left, Transfers(left, r), NEW m \in Mints
    PROVE  left[Len(Assets)][m] = LeftAfter(r.amount, poolBal[m], supply, Passes(m))
<1> DEFINE n == Len(Assets)
           C(i) == Cardinality(Before(Assets, i, m))
           After(c) == LeftAfter(r.amount, poolBal[m], supply, c)
           G == {i \in 0 .. n : left[i][m] = After(C(i))}
<1>1. n \in Nat /\ poolBal[m] \in Nat /\ r.amount \in Nat
  BY TransferTypes DEF Payable
<1>2. 0 \in G
  <2>1. Before(Assets, 0, m) = {}
    BY DEF Before
  <2>2. C(0) = 0
    BY <2>1, FS_EmptySet
  <2>3. After(0) = poolBal[m]
    BY LeftAfterNone
  <2>4. left[0][m] = poolBal[m] /\ 0 \in 0 .. n
    BY <1>1 DEF Transfers
  <2> HIDE DEF C, After
  <2> QED
    BY <2>2, <2>3, <2>4
<1>3. ASSUME NEW i \in 1 .. n, i - 1 \in G PROVE i \in G
  <2>1. /\ C(i - 1) \in Nat
        /\ C(i) = C(i - 1) + (IF Assets[i] = m THEN 1 ELSE 0)
    <3>1. i - 1 \in Nat /\ (i - 1) + 1 = i
      BY <1>1
    <3> QED
      BY <3>1, OneMoreBefore
  <2>2. left[i][m] = IF Assets[i] = m
                     THEN left[i - 1][m] - RedeemAmount(r.amount, left[i - 1][m], supply)
                     ELSE left[i - 1][m]
    BY OneTransfer DEF PaysOthers
  <2>3. supply \in Nat \ {0}
    BY TransferTypes
  <2>4. After(C(i - 1) + 1) =
          After(C(i - 1)) - RedeemAmount(r.amount, After(C(i - 1)), supply)
    <3>1. \A c \in Nat :
            After(c + 1) = After(c) - RedeemAmount(r.amount, After(c), supply)
      <4> DEFINE k == r.amount  b == poolBal[m]
      <4>1. k \in Nat /\ b \in Nat
        BY <1>1
      <4> HIDE DEF k, b
      <4>2. \A c \in Nat : LeftAfter(k, b, supply, c + 1) =
              LeftAfter(k, b, supply, c)
                - RedeemAmount(k, LeftAfter(k, b, supply, c), supply)
        BY <2>3, <4>1, LeftAfterRec, Zenon
      <4> QED
        BY <4>2 DEF k, b
    <3> HIDE DEF C, After
    <3> QED
      BY <2>1, <3>1
  <2>5. left[i - 1][m] = After(C(i - 1)) /\ i \in 0 .. n
    BY <1>1, <1>3
  <2> HIDE DEF C, After
  <2>6. CASE Assets[i] = m
    BY <2>1, <2>2, <2>4, <2>5, <2>6
  <2>7. CASE Assets[i] # m
    <3>1. C(i) = C(i - 1)
      BY <2>1, <2>7
    <3> QED
      BY <2>2, <2>5, <2>7, <3>1
  <2> QED
    BY <2>6, <2>7
<1> HIDE DEF G
<1>4. n \in G
  <2>1. 0 .. n \subseteq G
    BY <1>1, <1>2, <1>3, IntervalInduction
  <2> QED
    BY <1>1, <2>1
<1>5. Passes(m) = C(n)
  BY AssetsType
<1> QED
  BY <1>4, <1>5 DEF G

-----------------------------------------------------------------------------
(* What is under way, and what it may do                                   *)

\* What every composed transaction keeps saying while the pool moves on.
Composed(r) ==
    /\ r.op \in {"deposit", "redeem", "settle", "collect"}
    /\ r.op = "deposit" =>
         /\ r.by \in Users /\ r.amount \in Asks
         /\ \A i \in DOMAIN r.opens :
              r.opens[i] \in {r.by} \cup {r.fees[j] : j \in 1 .. 3}
    /\ r.op = "redeem" =>
         r.by \in Holders /\ r.amount \in Redemptions /\ Len(r.accounts) \in Nat
    /\ r.op = "settle" => r.oo \in OpenOrders

MailInv == \A r \in mail : Composed(r)

LEMMA DepositIsComposed ==
    ASSUME NEW u \in Users, NEW ask \in Asks
    PROVE  Composed(DepositOf(u, ask))
<1> DEFINE r == DepositOf(u, ask)
<1>1. /\ r.op = "deposit" /\ r.by = u /\ r.amount = ask
      /\ r.fees = FeeReceivers /\ r.opens = Missing(u)
  BY DEF DepositOf
<1>2. {r.fees[j] : j \in 1 .. 3} = FeeAccounts
  <2>1. FeeReceivers[1] = provider /\ FeeReceivers[2] = Bonfida /\ FeeReceivers[3] = BuyBurn
    BY DEF FeeReceivers
  <2>2. \A j \in 1 .. 3 : j = 1 \/ j = 2 \/ j = 3
    OBVIOUS
  <2> QED
    BY <1>1, <2>1, <2>2 DEF FeeAccounts
<1>3. \A i \in DOMAIN r.opens : r.opens[i] \in {u} \cup FeeAccounts
  BY <1>1, MissingType
<1> QED
  BY <1>1, <1>2, <1>3 DEF Composed

LEMMA RedemptionIsComposed ==
    ASSUME TypeOK, NEW h \in Holders, NEW k \in Redemptions
    PROVE  Composed(RedemptionOf(h, k))
<1> DEFINE r == RedemptionOf(h, k)
<1>1. /\ r.op = "redeem" /\ r.by = h /\ r.amount = k
      /\ r.accounts = redeem(AssetAccounts("pool"), AssetAccounts(h))
  BY DEF RedemptionOf
<1>2. Len(Assets) \in Nat
  BY AssetsType, LenProperties
<1>3. Len(r.accounts) \in Nat
  BY <1>1, <1>2, RedemptionList
<1> QED
  BY <1>1, <1>3 DEF Composed

-----------------------------------------------------------------------------
(* A redemption, when it is taken                                          *)

LEMMA ProcessRedeemPays ==
    ASSUME TypeOK, NEW r, Composed(r), ProcessRedeem(r)
    PROVE  /\ r.by \in Holders /\ r.amount \in Redemptions /\ r.amount \in Nat
           /\ Payable(r) /\ Transfers(Left(r), r)
           /\ poolBal' = Left(r)[Len(Assets)]
           /\ wallet' = [wallet EXCEPT ![r.by] =
                [m \in Mints |-> wallet[r.by][m] + (poolBal[m] - poolBal'[m])]]
<1> DEFINE n == Len(Assets)
<1>1. /\ r.op = "redeem" /\ r.amount <= supply /\ (supply > 0 \/ n = 0)
      /\ \A i \in 1 .. n :
           Taken(r.accounts, RedeemTakes(n), "asset", i).key = Token("pool", Assets[i])
      /\ poolBal' = Left(r)[n]
      /\ wallet' = [wallet EXCEPT ![r.by] =
           [m \in Mints |-> wallet[r.by][m] + (poolBal[m] - Left(r)[n][m])]]
  BY DEF ProcessRedeem, IsPoolAsset
<1>2. r.by \in Holders /\ r.amount \in Redemptions /\ r.amount \in Nat
  <2>1. r.by \in Holders /\ r.amount \in Redemptions
    BY <1>1 DEF Composed
  <2>2. \A k \in Redemptions : k \in Nat
    BY PoolAssumption
  <2> QED
    BY <2>1, <2>2
<1>3. n \in Nat
  BY AssetsType, LenProperties
<1>4. \A i \in 1 .. n : PoolSide(r, i) = Token("pool", Assets[i])
  BY <1>1, <1>3, RedeemPlaces DEF PoolSide
<1>5. Payable(r)
  BY <1>1, <1>2, <1>4 DEF Payable
<1>6. Transfers(Left(r), r)
  BY <1>5, LeftTransfers
<1> QED
  BY <1>1, <1>2, <1>5, <1>6

\* No balance is paid beyond what is there, also to an account of the pool.
LEMMA ProcessRedeemBalances ==
    ASSUME TypeOK, NEW r, Composed(r), ProcessRedeem(r)
    PROVE  /\ poolBal' \in [Mints -> Nat]
           /\ \A m \in Mints : poolBal'[m] <= poolBal[m]
           /\ wallet' \in [Holders -> [Mints -> Nat]]
<1> DEFINE n == Len(Assets)
<1>1. /\ r.by \in Holders /\ Payable(r) /\ Transfers(Left(r), r)
      /\ poolBal' = Left(r)[n]
      /\ wallet' = [wallet EXCEPT ![r.by] =
           [m \in Mints |-> wallet[r.by][m] + (poolBal[m] - poolBal'[m])]]
  BY ProcessRedeemPays
<1>2. poolBal' \in [Mints -> Nat]
  <2>1. n \in 0 .. n
    BY <1>1, TransferTypes
  <2> QED
    BY <1>1, <2>1 DEF Transfers
<1>3. ASSUME NEW m \in Mints PROVE poolBal'[m] \in Nat /\ poolBal'[m] <= poolBal[m]
  <2>1. Left(r)[n][m] \in 0 .. poolBal[m] /\ poolBal[m] \in Nat
    BY <1>1, TransfersBound, TransferTypes
  <2> QED
    BY <1>1, <2>1
<1>4. wallet' \in [Holders -> [Mints -> Nat]]
  <2>1. ASSUME NEW m \in Mints
        PROVE  wallet[r.by][m] + (poolBal[m] - poolBal'[m]) \in Nat
    BY <1>1, <1>3 DEF TypeOK
  <2>2. [m \in Mints |-> wallet[r.by][m] + (poolBal[m] - poolBal'[m])] \in [Mints -> Nat]
    BY <2>1
  <2> QED
    BY <1>1, <2>2 DEF TypeOK
<1> QED
  BY <1>2, <1>3, <1>4

LEMMA ProcessRedeemKeepsLedger ==
    ASSUME IInv, Held, NEW r, Composed(r), ProcessRedeem(r)
    PROVE  IInv' /\ Held'
<1>1. /\ TypeOK /\ supply \in Nat /\ r.by \in Holders /\ r.amount \in Nat
  <2>1. TypeOK
    BY DEF IInv
  <2>2. supply \in Nat
    BY <2>1 DEF TypeOK
  <2> QED
    BY <2>1, <2>2, ProcessRedeemPays
<1>2. /\ r.amount <= tokens[r.by] /\ r.amount <= supply /\ status \in Initialized
      /\ supply' = supply - r.amount
      /\ tokens' = [tokens EXCEPT ![r.by] = @ - r.amount]
      /\ UNCHANGED <<provider, feeRatio, period, lastFee, markets, space, opened, now>>
  BY DEF ProcessRedeem
<1>3. IF r.amount = supply
      THEN status' = "Uninitialized" /\ slots' = [i \in DOMAIN slots |-> NoMint]
      ELSE status' = status /\ slots' = slots
  BY DEF ProcessRedeem, Retires
<1>4. supply' \in 0 .. U64 - 1 /\ tokens' \in [Holders -> Nat]
  <2>1. supply - r.amount \in Nat /\ tokens[r.by] - r.amount \in Nat
    BY <1>1, <1>2 DEF TypeOK
  <2> QED
    BY <1>1, <1>2, <2>1, MathAssumption DEF TypeOK
<1>5. poolBal' \in [Mints -> Nat] /\ wallet' \in [Holders -> [Mints -> Nat]]
  BY <1>1, ProcessRedeemBalances
<1>6. slots' \in Seq(Mints \cup {NoMint}) /\ Len(slots') = Len(slots)
  <2>1. CASE slots' = slots
    BY <1>1, <2>1 DEF TypeOK
  <2>2. CASE slots' = [i \in DOMAIN slots |-> NoMint]
    BY <1>1, <2>2 DEF TypeOK
  <2> QED
    BY <1>3, <2>1, <2>2
<1>7. status' \in Statuses /\ status' # "NoAccount" /\ status' \in {status, "Uninitialized"}
  BY <1>1, <1>2, <1>3 DEF TypeOK, Statuses, Initialized
<1>8. TypeOK'
  <2>1. provider \in Users /\ period >= MinPeriod
    BY <1>1, <1>2 DEF TypeOK
  <2> QED
    BY <1>1, <1>2, <1>4, <1>5, <1>6, <1>7, <2>1 DEF TypeOK
<1>9. RetiredHasNoSupply' /\ LiveHasSupply' /\ FeeClockNotAhead'
  <2>1. CASE r.amount = supply
    BY <1>1, <1>2, <1>3, <2>1
    DEF IInv, RetiredHasNoSupply, LiveHasSupply, FeeClockNotAhead, Initialized
  <2>2. CASE r.amount # supply
    BY <1>1, <1>2, <1>3, <2>2
    DEF IInv, RetiredHasNoSupply, LiveHasSupply, FeeClockNotAhead
  <2> QED
    BY <2>1, <2>2
<1>10. Held'
  BY <1>1, <1>2, GivesBackHeld
<1> QED
  BY <1>8, <1>9, <1>10 DEF IInv

\* It finds the assets at home, and leaves the orders and their count alone.
LEMMA ProcessRedeemKeepsOrders ==
    ASSUME TradeInv, UsedMarketsStayListed, NEW r, ProcessRedeem(r),
           UNCHANGED <<pending, serum>>
    PROVE  Used(total) = {} /\ TradeInv' /\ UsedMarketsStayListed'
<1>1. /\ status \notin PendingKinds /\ status' \in {status, "Uninitialized"}
      /\ total' = total /\ free' = free /\ pending' = pending
  BY DEF ProcessRedeem, RedeemClosed, PendingKinds, serum
<1>2. CountIsAccountsInUse /\ pending = 0
  BY <1>1 DEF TradeInv, TradingTypeOK, MaxOrders
<1>3. Used(total) = {}
  BY <1>2, NoneUsed
<1>4. TradeInv'
  <2>1. status' \notin PendingKinds
    BY <1>1 DEF PendingKinds
  <2> QED
    BY <1>1, <2>1
    DEF TradeInv, TradingTypeOK, MarketMintsOnly, CountIsAccountsInUse, Used
<1>5. UsedMarketsStayListed'
  <2>1. Used(total') = {}
    BY <1>1, <1>3
  <2> QED
    BY <2>1 DEF UsedMarketsStayListed, Used
<1> QED
  BY <1>3, <1>4, <1>5

(* A redemption whose list names every account once is the redemption of   *)
(* the pool as it is now, whenever the list was made.                      *)
LEMMA ProcessRedeemIsRedeem ==
    ASSUME IInv, NEW r, Composed(r), ProcessRedeem(r), ~PaysItself(r)
    PROVE  Redeem(r.by, r.amount)
<1> DEFINE n == Len(Assets)  k == r.amount  h == r.by
<1>1. /\ TypeOK /\ h \in Holders /\ k \in Nat /\ Payable(r)
      /\ Transfers(Left(r), r) /\ poolBal' = Left(r)[n]
      /\ wallet' = [wallet EXCEPT ![h] =
           [m \in Mints |-> wallet[h][m] + (poolBal[m] - poolBal'[m])]]
  <2>1. TypeOK
    BY DEF IInv
  <2> QED
    BY <2>1, ProcessRedeemPays
<1>2. PaysOthers(r)
  <2>1. n \in Nat /\ Len(r.accounts) \in Nat /\ Len(r.accounts) >= 6 + n + n
    <3>1. Len(RedeemTakes(n)) = 6 + n + n /\ n \in Nat
      BY <1>1, TransferTypes, RedeemRoles
    <3>2. r.op = "redeem" /\ Len(r.accounts) >= Len(RedeemTakes(n))
      BY DEF ProcessRedeem
    <3> QED
      BY <3>1, <3>2 DEF Composed
  <2>2. ASSUME NEW i \in 1 .. n, HolderSide(r, i) = PoolSide(r, i) PROVE FALSE
    <3>1. 6 + n + i <= Len(r.accounts) /\ r.op = "redeem"
      BY <2>1 DEF ProcessRedeem
    <3>2. r.accounts[6 + n + i].key = r.accounts[6 + i].key
      BY <2>2 DEF PoolSide, HolderSide
    <3> QED
      BY <3>1, <3>2 DEF PaysItself
  <2> QED
    BY <2>2 DEF PaysOthers
<1>3. ASSUME NEW m \in Mints
      PROVE  /\ PaidOut(k, m) = poolBal[m] - poolBal'[m]
             /\ poolBal[m] \in Nat /\ poolBal'[m] \in 0 .. poolBal[m]
  <2>1. poolBal'[m] = LeftAfter(k, poolBal[m], supply, Passes(m))
    BY <1>1, <1>2, TransfersByPasses
  <2>2. poolBal'[m] \in 0 .. poolBal[m] /\ poolBal[m] \in Nat
    BY <1>1, TransfersBound, TransferTypes
  <2> QED
    BY <2>1, <2>2 DEF PaidOut
<1>4. \A m \in Mints : PaidOut(k, m) \in 0 .. poolBal[m]
  BY <1>3
<1>5. poolBal' = [m \in Mints |-> poolBal[m] - PaidOut(k, m)]
  <2>1. poolBal' \in [Mints -> Nat]
    BY <1>1, ProcessRedeemBalances
  <2>2. \A m \in Mints : poolBal'[m] = poolBal[m] - PaidOut(k, m)
    BY <1>3
  <2> QED
    BY <2>1, <2>2
<1>6. wallet' = [wallet EXCEPT ![h] = [m \in Mints |-> wallet[h][m] + PaidOut(k, m)]]
  <2>1. [m \in Mints |-> wallet[h][m] + (poolBal[m] - poolBal'[m])]
          = [m \in Mints |-> wallet[h][m] + PaidOut(k, m)]
    BY <1>3
  <2> QED
    BY <1>1, <2>1
<1>7. supply > 0 \/ Listed = {}
  BY <1>1, NoAssets DEF Payable
<1>8. /\ status \in Initialized /\ ~RedeemClosed /\ ~FeesOverdue
      /\ h \in opened /\ k <= tokens[h] /\ k <= supply
      /\ supply' = supply - k /\ tokens' = [tokens EXCEPT ![h] = @ - k]
      /\ IF Retires(k)
         THEN /\ status' = "Uninitialized"
              /\ slots' = [i \in DOMAIN slots |-> NoMint]
         ELSE UNCHANGED <<status, slots>>
      /\ UNCHANGED <<provider, feeRatio, period, lastFee, markets, space, opened,
                     now>>
  BY DEF ProcessRedeem
<1> HIDE DEF k, h
<1> QED
  BY <1>4, <1>5, <1>6, <1>7, <1>8 DEF Redeem, k, h

(* A list may repeat accounts, or name one of the pool for the redeemer:   *)
(* of a pool that lists no mint twice it still takes no more than is due.  *)
LEMMA DistinctAssets ==
    ASSUME TypeOK, SlotsDistinct,
           NEW i \in 1 .. Len(Assets), NEW j \in 1 .. Len(Assets), Assets[i] = Assets[j]
    PROVE  i = j
<1> DEFINE m == Assets[i]  B == Before(Assets, Len(Assets), m)
<1>1. m \in Mints /\ Len(Assets) \in Nat
  BY AssetsType, LenProperties, ElementOfSeq
<1>2. IsFiniteSet(B) /\ Cardinality(B) \in Nat /\ Cardinality(B) <= 1
  <2>1. Passes(m) = Cardinality(B) /\ Passes(m) <= 1
    BY <1>1, AssetsType DEF SlotsDistinct
  <2> HIDE DEF m
  <2> QED
    BY <1>1, <2>1, OneMoreBefore
<1>3. i \in B /\ j \in B
  BY DEF Before
<1> HIDE DEF B
<1>4. Cardinality(B) = 1
  BY <1>2, <1>3, FS_EmptySet
<1>5. PICK x : B = {x}
  BY <1>2, <1>4, FS_Singleton
<1> QED
  BY <1>3, <1>5

LEMMA TransfersAtMostOnce ==
    ASSUME TypeOK, SlotsDistinct, NEW r, Payable(r), NEW left, Transfers(left, r),
           NEW m \in Mints
    PROVE  \/ left[Len(Assets)][m] = poolBal[m]
           \/ /\ supply > 0
              /\ left[Len(Assets)][m] =
                   poolBal[m] - RedeemAmount(r.amount, poolBal[m], supply)
<1> DEFINE n == Len(Assets)
           due == RedeemAmount(r.amount, poolBal[m], supply)
           G == {i \in 0 .. n : \/ left[i][m] = poolBal[m]
                                \/ Among(Assets, i, m) /\ left[i][m] = poolBal[m] - due}
<1>1. 0 \in G
  BY TransferTypes DEF Transfers
<1>2. ASSUME NEW i \in 1 .. n, i - 1 \in G PROVE i \in G
  <2>1. left[i][m] \in {left[i - 1][m],
          IF Assets[i] = m
          THEN left[i - 1][m] - RedeemAmount(r.amount, left[i - 1][m], supply)
          ELSE left[i - 1][m]}
    BY OneTransfer
  <2>2. /\ Among(Assets, i - 1, m) => Among(Assets, i, m)
        /\ Assets[i] = m => Among(Assets, i, m)
    BY TransferTypes DEF Among
  <2>3. CASE Assets[i] = m
    <3>1. ~Among(Assets, i - 1, m)
      <4>1. ASSUME NEW j \in 1 .. i - 1, Assets[j] = m PROVE FALSE
        <5>1. j \in 1 .. n /\ j # i
          BY TransferTypes
        <5> QED
          BY <2>3, <4>1, <5>1, DistinctAssets
      <4> QED
        BY <4>1 DEF Among
    <3> QED
      BY <1>2, <2>1, <2>2, <2>3, <3>1
  <2>4. CASE Assets[i] # m
    BY <1>2, <2>1, <2>2, <2>4
  <2> QED
    BY <2>3, <2>4
<1> HIDE DEF G
<1>3. n \in G
  <2>1. 0 .. n \subseteq G
    BY <1>1, <1>2, TransferTypes, IntervalInduction
  <2> QED
    BY <2>1, TransferTypes
<1>4. Among(Assets, n, m) => supply > 0
  <2>1. ASSUME NEW j \in 1 .. n PROVE supply > 0
    <3>1. supply \in Nat \ {0}
      BY TransferTypes
    <3> QED
      BY <3>1
  <2> QED
    BY <2>1 DEF Among
<1> QED
  BY <1>3, <1>4 DEF G

LEMMA ProcessRedeemKeepsStayers ==
    ASSUME TypeOK, NEW r, Composed(r), ProcessRedeem(r), SlotsDistinct, NEW m \in Mints
    PROVE  poolBal'[m] * supply >= poolBal[m] * supply'
<1> DEFINE k == r.amount
<1>1. /\ k \in Nat /\ Payable(r) /\ Transfers(Left(r), r)
      /\ poolBal' = Left(r)[Len(Assets)]
  BY ProcessRedeemPays
<1>2. /\ supply \in Nat /\ k <= supply /\ supply' = supply - k /\ poolBal[m] \in Nat
  BY <1>1 DEF ProcessRedeem, TypeOK
<1>3. \/ poolBal'[m] = poolBal[m]
      \/ supply > 0 /\ poolBal'[m] = poolBal[m] - RedeemAmount(k, poolBal[m], supply)
  BY <1>1, TransfersAtMostOnce
<1> HIDE DEF k
<1>4. CASE poolBal'[m] = poolBal[m]
  <2>1. supply - k \in Nat /\ supply - k <= supply
    BY <1>1, <1>2
  <2>2. poolBal[m] * supply >= poolBal[m] * (supply - k)
    BY <1>2, <2>1, SMT
  <2> QED
    BY <1>2, <1>4, <2>2
<1>5. CASE supply > 0 /\ poolBal'[m] = poolBal[m] - RedeemAmount(k, poolBal[m], supply)
  <2>1. supply \in Nat \ {0}
    BY <1>2, <1>5
  <2> QED
    BY <1>1, <1>2, <1>5, <2>1, RedeemKeepsBacking
<1> QED
  BY <1>3, <1>4, <1>5

-----------------------------------------------------------------------------
(* The steps                                                               *)

(* The inductive invariant: that of the pool with its orders, and of what  *)
(* is under way only what every composed transaction keeps saying.         *)
ClientInv == IInv /\ Held /\ TradeInv /\ UsedMarketsStayListed /\ MailInv

LEMMA InitClientInv == ClientInit => ClientInv
<1> SUFFICES ASSUME ClientInit PROVE ClientInv
  OBVIOUS
<1>1. TradingInit /\ mail = {}
  BY DEF ClientInit
<1> QED
  BY <1>1, LegacyLedger, InitTradeInv, InitListed DEF ClientInv, MailInv

LEMMA TradingStepKeepsRest ==
    ASSUME ClientInv, [TradingNext]_trade
    PROVE  IInv' /\ Held' /\ TradeInv' /\ UsedMarketsStayListed'
BY StepKeepsLedger, StepKeepsTradeInv, StepKeepsListed DEF ClientInv

(* A deposit that is taken is a deposit of the depositor's, with what its  *)
(* accounts are at that time: it opens those of the fees and no other.     *)
LEMMA ProcessDepositIsBuyIn ==
    ASSUME ClientInv, NEW r, Composed(r), ProcessDeposit(r)
    PROVE  \E u \in Users, ask \in Asks :
             /\ BuyIn(u, ask, opened \cup FeeAccounts \cup {u})
             /\ opened \cup FeeAccounts \cup {u} \in SUBSET Holders
<1> DEFINE opening == {r.opens[i] : i \in DOMAIN r.opens}
<1>1. /\ r.op = "deposit" /\ r.fees = FeeReceivers
      /\ BuyIn(r.by, r.amount, opened \cup opening)
  BY DEF ProcessDeposit, FeesChecked
<1>2. /\ r.by \in Users /\ r.amount \in Asks
      /\ \A i \in DOMAIN r.opens : r.opens[i] \in {r.by} \cup {r.fees[j] : j \in 1 .. 3}
  BY <1>1 DEF Composed
<1>3. {r.fees[j] : j \in 1 .. 3} \subseteq FeeAccounts
  <2>1. FeeReceivers[1] = provider /\ FeeReceivers[2] = Bonfida /\ FeeReceivers[3] = BuyBurn
    BY DEF FeeReceivers
  <2>2. \A j \in 1 .. 3 : j = 1 \/ j = 2 \/ j = 3
    OBVIOUS
  <2> QED
    BY <1>1, <2>1, <2>2 DEF FeeAccounts
<1>4. opening \subseteq {r.by} \cup FeeAccounts
  BY <1>2, <1>3
<1>5. FeeAccounts \cup {r.by} \subseteq opened \cup opening /\ status \in Initialized
  BY <1>1 DEF BuyIn
<1> HIDE DEF opening
<1>6. opened \cup opening = opened \cup FeeAccounts \cup {r.by}
  BY <1>4, <1>5
<1>7. opened \cup FeeAccounts \cup {r.by} \in SUBSET Holders
  <2>1. TypeOK
    BY DEF ClientInv, IInv
  <2>2. opened \subseteq Holders /\ provider \in Users
    BY <1>5, <2>1 DEF TypeOK
  <2> QED
    BY <1>2, <2>2 DEF FeeAccounts, Holders
<1>8. BuyIn(r.by, r.amount, opened \cup FeeAccounts \cup {r.by})
  BY <1>1, <1>6
<1> QED
  BY <1>2, <1>7, <1>8

LEMMA BuyInKeepsRest ==
    ASSUME ClientInv, NEW u \in Users, NEW ask \in Asks,
           NEW accounts \in SUBSET Holders, BuyIn(u, ask, accounts),
           UNCHANGED <<pending, serum>>
    PROVE  IInv' /\ Held' /\ TradeInv' /\ UsedMarketsStayListed'
<1>1. IInv /\ Held /\ TypeOK /\ TradeInv /\ UsedMarketsStayListed
  BY DEF ClientInv, IInv
<1>2. status' = status /\ slots' = slots
      /\ total' = total /\ free' = free /\ pending' = pending
  BY DEF BuyIn, header, serum
<1>3. IInv' /\ Held'
  BY <1>1, BuyInInv, BuyInHeld
<1>4. TradeInv'
  BY <1>1, <1>2 DEF TradeInv, TradingTypeOK, MarketMintsOnly, CountIsAccountsInUse, Used
<1>5. UsedMarketsStayListed'
  BY <1>1, <1>2 DEF UsedMarketsStayListed, Used, Listed
<1> QED
  BY <1>3, <1>4, <1>5

\* The settlements and the collections that are taken are the pool's own.
LEMMA ProcessIsStep ==
    ASSUME ClientInv, NEW r, Composed(r), Process(r)
    PROVE  \/ \E u \in Users, ask \in Asks :
                /\ BuyIn(u, ask, opened \cup FeeAccounts \cup {u})
                /\ opened \cup FeeAccounts \cup {u} \in SUBSET Holders
                /\ UNCHANGED <<pending, serum>>
           \/ ProcessRedeem(r) /\ UNCHANGED <<pending, serum>>
           \/ TradingNext
<1>1. ASSUME ProcessDeposit(r)
      PROVE  \E u \in Users, ask \in Asks :
               /\ BuyIn(u, ask, opened \cup FeeAccounts \cup {u})
               /\ opened \cup FeeAccounts \cup {u} \in SUBSET Holders
  BY <1>1, ProcessDepositIsBuyIn
<1>2. ASSUME ProcessSettle(r) PROVE TradingNext
  <2>1. r.oo \in OpenOrders /\ Settle(r.oo, r.coin, r.pc)
    BY <1>2 DEF ProcessSettle, Composed
  <2>2. r.coin \in DOMAIN slots /\ r.pc \in DOMAIN slots
    BY <2>1 DEF Settle, MaySettle, Fits
  <2>3. SettleAny(r.oo)
    BY <2>1, <2>2 DEF SettleAny
  <2> QED
    BY <2>1, <2>3 DEF TradingNext
<1>3. ASSUME ProcessCollect(r), UNCHANGED <<pending, serum>> PROVE TradingNext
  BY <1>3 DEF ProcessCollect, TradingNext, Next
<1> QED
  BY <1>1, <1>2, <1>3 DEF Process

LEMMA ProcessKeepsRest ==
    ASSUME ClientInv, NEW r, Composed(r), Process(r)
    PROVE  IInv' /\ Held' /\ TradeInv' /\ UsedMarketsStayListed'
<1>1. IInv /\ Held /\ TradeInv /\ UsedMarketsStayListed
  BY DEF ClientInv
<1>2. CASE ProcessRedeem(r) /\ UNCHANGED <<pending, serum>>
  BY <1>1, <1>2, ProcessRedeemKeepsLedger, ProcessRedeemKeepsOrders
<1>3. CASE TradingNext
  BY <1>3, TradingStepKeepsRest
<1>4. ASSUME NEW u \in Users, NEW ask \in Asks,
             BuyIn(u, ask, opened \cup FeeAccounts \cup {u}),
             opened \cup FeeAccounts \cup {u} \in SUBSET Holders,
             UNCHANGED <<pending, serum>>
      PROVE  IInv' /\ Held' /\ TradeInv' /\ UsedMarketsStayListed'
  BY <1>4, BuyInKeepsRest
<1> QED
  BY <1>2, <1>3, <1>4, ProcessIsStep

\* The transactions that the client sends, and the pool they leave alone.
Sending ==
    \/ \E u \in Users, ask \in Asks : ComposeDeposit(u, ask)
    \/ \E h \in Holders, k \in Redemptions : ComposeRedeem(h, k)
    \/ \E oo \in OpenOrders : ComposeSettle(oo)
    \/ ComposeCollect

LEMMA SendingKeepsMail ==
    ASSUME ClientInv, Sending
    PROVE  UNCHANGED trade /\ MailInv' /\ mail \subseteq mail'
<1>0. MailInv /\ TypeOK
  BY DEF ClientInv, IInv
<1>1. ASSUME NEW r, Composed(r), Sends(r)
      PROVE  UNCHANGED trade /\ MailInv' /\ mail \subseteq mail'
  <2>1. UNCHANGED trade /\ mail' = mail \cup {r}
    BY <1>1 DEF Sends
  <2> QED
    BY <1>0, <1>1, <2>1 DEF MailInv
<1>2. ASSUME NEW u \in Users, NEW ask \in Asks PROVE Composed(DepositOf(u, ask))
  BY DepositIsComposed
<1>3. ASSUME NEW h \in Holders, NEW k \in Redemptions PROVE Composed(RedemptionOf(h, k))
  BY <1>0, RedemptionIsComposed
<1>4. ASSUME NEW oo \in OpenOrders PROVE Composed(SettlementOf(oo))
  BY DEF Composed, SettlementOf
<1>5. Composed(CollectionNow)
  BY DEF Composed, CollectionNow
<1>6. CASE \E u \in Users, ask \in Asks : ComposeDeposit(u, ask)
  BY <1>1, <1>2, <1>6 DEF ComposeDeposit
<1>7. CASE \E h \in Holders, k \in Redemptions : ComposeRedeem(h, k)
  BY <1>1, <1>3, <1>7 DEF ComposeRedeem
<1>8. CASE \E oo \in OpenOrders : ComposeSettle(oo)
  BY <1>1, <1>4, <1>8 DEF ComposeSettle
<1>9. CASE ComposeCollect
  BY <1>1, <1>5, <1>9 DEF ComposeCollect
<1> QED
  BY <1>6, <1>7, <1>8, <1>9 DEF Sending

LEMMA ClientSteps ==
    ASSUME [ClientNext]_client
    PROVE  \/ [TradingNext]_trade /\ mail' = mail
           \/ Sending
           \/ \E r \in mail : Process(r)
           \/ UNCHANGED trade /\ mail' \subseteq mail
BY DEF ClientNext, client, Sending, Expire

LEMMA StepKeepsClientInv == ClientInv /\ [ClientNext]_client => ClientInv'
<1> SUFFICES ASSUME ClientInv, [ClientNext]_client PROVE ClientInv'
  OBVIOUS
<1>0. MailInv
  BY DEF ClientInv
<1>1. ASSUME [TradingNext]_trade, mail' \subseteq mail PROVE ClientInv'
  <2>1. IInv' /\ Held' /\ TradeInv' /\ UsedMarketsStayListed'
    BY <1>1, TradingStepKeepsRest
  <2>2. MailInv'
    BY <1>0, <1>1 DEF MailInv
  <2> QED
    BY <2>1, <2>2 DEF ClientInv
<1>2. CASE Sending
  <2>1. IInv' /\ Held' /\ TradeInv' /\ UsedMarketsStayListed'
    BY <1>2, SendingKeepsMail, TradingStepKeepsRest
  <2>2. MailInv'
    BY <1>2, SendingKeepsMail
  <2> QED
    BY <2>1, <2>2 DEF ClientInv
<1>3. ASSUME NEW r \in mail, Process(r) PROVE ClientInv'
  <2>1. Composed(r)
    BY <1>0 DEF MailInv
  <2>2. IInv' /\ Held' /\ TradeInv' /\ UsedMarketsStayListed'
    BY <1>3, <2>1, ProcessKeepsRest
  <2>3. mail' \subseteq mail
    BY <1>3 DEF Process
  <2>4. MailInv'
    BY <1>0, <2>3 DEF MailInv
  <2> QED
    BY <2>2, <2>4 DEF ClientInv
<1> QED
  BY <1>1, <1>2, <1>3, ClientSteps

-----------------------------------------------------------------------------
(* The theorems                                                            *)

THEOREM ClientInvHolds == ClientSpec => []ClientInv
BY InitClientInv, StepKeepsClientInv, PTL DEF ClientSpec

(* Whatever the clients send, and however late it is taken: the supply is  *)
(* what the holders have, the retired pool has none, the fee clock is past *)
(* and the quotes are payable.                                             *)
THEOREM ClientLedgerHolds ==
    ClientSpec => [](/\ IInv /\ SupplyIsHeld
                     /\ DepositIsAffordable /\ RoundTripNeverEarns
                     /\ FeesTakeAtMostTheirSum
                     /\ PeriodsOwed * (feeRatio + 1) < Scale => AlwaysUnlockable)
<1>1. ClientInv => IInv /\ Held
  BY DEF ClientInv
<1>2. Held => SupplyIsHeld
  BY HeldIsSupplyIsHeld
<1>3. IInv => DepositIsAffordable /\ RoundTripNeverEarns
  BY AffordableQuote, RoundTripQuote DEF IInv
<1>4. IInv => /\ FeesTakeAtMostTheirSum
              /\ PeriodsOwed * (feeRatio + 1) < Scale => AlwaysUnlockable
  BY FeesOwedBound
<1> QED
  BY <1>1, <1>2, <1>3, <1>4, ClientInvHolds, PTL

(* Nor do they lose count of the orders: the pool is open exactly when its *)
(* assets are home, and what is free can come home.                        *)
THEOREM ClientOrdersHold ==
    ClientSpec => [](/\ TradingTypeOK /\ CountIsAccountsInUse /\ UsedMarketsStayListed
                     /\ FreeFundsCanComeHome)
<1>1. ClientInv => /\ TradingTypeOK /\ CountIsAccountsInUse /\ UsedMarketsStayListed
                   /\ FreeFundsCanComeHome
  BY FreeFundsFit DEF ClientInv, TradeInv, IInv
<1> QED
  BY <1>1, ClientInvHolds, PTL

(* It can come home to the slots that the client names, in every life of   *)
(* a pool whose list has no gap.                                           *)
THEOREM ClientSettlementsFit == ClientSpec => []ClientSettlesFreeFunds
<1>1. ClientInv => ClientSettlesFreeFunds
  BY ClientNamesSlots DEF ClientInv, IInv
<1> QED
  BY <1>1, ClientInvHolds, PTL

LEMMA StaleRequestIsStep ==
    ASSUME ClientInv, [ClientNext]_client, \A r \in mail \ mail' : ~PaysItself(r)
    PROVE  [TradingNext \/ BuyInOpening]_trade
<1>1. ASSUME NEW r \in mail, Process(r) PROVE TradingNext \/ BuyInOpening
  <2>1. Composed(r) /\ IInv
    BY DEF ClientInv, MailInv
  <2>2. ~PaysItself(r)
    <3>1. r \in mail \ mail'
      BY <1>1 DEF Process
    <3> QED
      BY <3>1
  <2>3. ASSUME ProcessRedeem(r), UNCHANGED <<pending, serum>> PROVE TradingNext
    <3>1. r.by \in Holders /\ r.amount \in Redemptions
      BY <2>1, <2>3, ProcessRedeemPays DEF IInv
    <3>2. Redeem(r.by, r.amount)
      BY <2>1, <2>2, <2>3, ProcessRedeemIsRedeem
    <3>3. Next
      BY <3>1, <3>2 DEF Next
    <3> QED
      BY <2>3, <3>3 DEF TradingNext
  <2>4. ASSUME NEW u \in Users, NEW ask \in Asks,
               BuyIn(u, ask, opened \cup FeeAccounts \cup {u}),
               UNCHANGED <<pending, serum>>
        PROVE  BuyInOpening
    BY <2>4 DEF BuyInOpening
  <2> QED
    BY <1>1, <2>1, <2>3, <2>4, ProcessIsStep
<1>2. Sending => UNCHANGED trade
  BY SendingKeepsMail
<1> QED
  BY <1>1, <1>2, ClientSteps

(* A transaction that is taken late, even by another life of the pool, is  *)
(* a step that the pool of that time allows, or a deposit that opens the   *)
(* accounts it names; but for the redemptions whose list repeats an        *)
(* account.                                                                *)
THEOREM StaleRequestsDoNoHarm == ClientSpec => StaleRequestsAreSteps
<1>1. ClientInv /\ [ClientNext]_client =>
        [(\A r \in mail \ mail' : ~PaysItself(r)) => TradingNext \/ BuyInOpening]_trade
  BY StaleRequestIsStep
<1> QED
  BY <1>1, ClientInvHolds, PTL DEF ClientSpec, StaleRequestsAreSteps

LEMMA ClientTradesFindAssetsHome ==
    ASSUME ClientInv, [ClientNext]_client, Trades
    PROVE  Used(total) = {}
<1>0. IInv /\ TradeInv /\ UsedMarketsStayListed /\ MailInv
  BY DEF ClientInv
<1>1. ASSUME [TradingNext]_trade PROVE Used(total) = {}
  BY <1>0, <1>1, TradesFindAssetsHome
<1>2. ASSUME NEW r \in mail, Process(r) PROVE Used(total) = {}
  <2>1. Composed(r)
    BY <1>0 DEF MailInv
  <2>2. CASE ProcessRedeem(r) /\ UNCHANGED <<pending, serum>>
    BY <1>0, <2>2, ProcessRedeemKeepsOrders
  <2>3. ASSUME NEW u, NEW ask, NEW accounts, BuyIn(u, ask, accounts)
        PROVE  Used(total) = {}
    <3>1. status \notin PendingKinds
      BY <2>3 DEF BuyIn, DepositClosed, PendingKinds
    <3>2. CountIsAccountsInUse /\ pending = 0
      BY <1>0, <3>1 DEF TradeInv, TradingTypeOK, MaxOrders
    <3> QED
      BY <3>2, NoneUsed
  <2> QED
    BY <1>1, <1>2, <2>1, <2>2, <2>3, ProcessIsStep
<1>3. Sending => UNCHANGED trade
  BY SendingKeepsMail
<1> QED
  BY <1>1, <1>2, <1>3, ClientSteps

(* No list of accounts gets around the lock: nobody trades pool tokens     *)
(* while an order of the pool is out.                                      *)
THEOREM ClientTradesWaitForOrders == ClientSpec => NoTradeWhileAssetsAreOut
<1>1. ClientInv /\ [ClientNext]_client => [Trades => Used(total) = {}]_trade
  BY ClientTradesFindAssetsHome
<1> QED
  BY <1>1, ClientInvHolds, PTL DEF ClientSpec, NoTradeWhileAssetsAreOut

LEMMA ProcessIsFair ==
    ASSUME ClientInv, NEW r, Composed(r), Process(r)
    PROVE  [FairStep]_vars
<1>0. IInv /\ TradeInv /\ TypeOK /\ supply \in Nat
  BY DEF ClientInv, IInv, TypeOK
<1>1. CASE ProcessRedeem(r)
  <2>1. r.amount \in Nat /\ supply' = supply - r.amount /\ lastFee' = lastFee
    BY <1>0, <1>1, ProcessRedeemPays DEF ProcessRedeem
  <2>2. ~BuysIn /\ ~Collects
    BY <1>0, <2>1 DEF BuysIn, Collects
  <2>3. StayersKeep
    BY <1>0, <1>1, ProcessRedeemKeepsStayers DEF StayersKeep
  <2> QED
    BY <2>2, <2>3
    DEF FairStep, EntryIsCheap, EntryCosts, DebtIsSettled, FeeIsBounded
<1>2. ASSUME NEW u \in Users, NEW ask \in Asks, NEW accounts, BuyIn(u, ask, accounts)
      PROVE  FairStep
  <2>1. PICK eff \in DepositLimits(u, ask) : supply' = supply + eff
    BY <1>2 DEF BuyIn
  <2>2. eff \in Nat
    BY <1>0, DepositLimitsType, PoolAssumption DEF Amounts
  <2>3. ~Redeems /\ ~Collects
    BY <1>0, <1>2, <2>1, <2>2 DEF Redeems, Collects, BuyIn, header
  <2>4. EntryIsCheap
    BY <1>0, <1>2, BuyInEntry DEF EntryIsCheap
  <2>5. EntryCosts
    BY <1>0, <1>2, BuyInCosts DEF EntryCosts
  <2> QED
    BY <2>3, <2>4, <2>5 DEF FairStep, StayersKeep, DebtIsSettled, FeeIsBounded
<1>3. CASE TradingNext
  BY <1>0, <1>3, TradingStepIsFair
<1> QED
  BY <1>1, <1>2, <1>3, ProcessIsStep

(* Nor does any list of accounts do the others harm: also a redemption     *)
(* that names an account of the pool for its redeemer takes no more than   *)
(* is due, and leaves the rest to those who stay.  As in Pool, the first   *)
(* two are about pools that list no mint twice when the step is taken.     *)
THEOREM ClientStepsAreFair ==
    ClientSpec => /\ StayersNotDiluted /\ EntryDilutesByLessThanOne
                  /\ NoFreeTokens /\ OneCollectionSuffices
                  /\ CollectionTakesAtMostTheFee
<1>1. ASSUME ClientInv, [ClientNext]_client PROVE [FairStep]_vars
  <2>1. ASSUME NEW r \in mail, Process(r) PROVE [FairStep]_vars
    BY <1>1, <2>1, ProcessIsFair DEF ClientInv, MailInv
  <2>2. ASSUME [TradingNext]_trade PROVE [FairStep]_vars
    BY <1>1, <2>2, TradingStepIsFair DEF ClientInv
  <2>3. Sending => UNCHANGED trade
    BY <1>1, SendingKeepsMail
  <2> QED
    BY <1>1, <2>1, <2>2, <2>3, ClientSteps
<1>2. ClientSpec => [][FairStep]_vars
  <2>1. ClientInv /\ [ClientNext]_client => [FairStep]_vars
    BY <1>1
  <2> QED
    BY <2>1, ClientInvHolds, PTL DEF ClientSpec
<1> QED
  BY <1>2, FairStepsHold, PTL

\* Retired by a redemption that names what it likes, only when open.
LEMMA ProcessLife ==
    ASSUME ClientInv, Exists, NEW r, Composed(r), Process(r)
    PROVE  Exists' /\ [Life!Next]_<<status, pending>>
<1>0. TradeInv
  BY DEF ClientInv
<1>1. CASE ProcessRedeem(r) /\ UNCHANGED <<pending, serum>>
  <2>1. /\ status \in Initialized
        /\ status \notin {"PendingOrder", "LockedPendingOrder"}
        /\ status' = status \/ status' = "Uninitialized"
        /\ pending' = pending
    BY <1>1 DEF ProcessRedeem, RedeemClosed
  <2>2. status \in {"Unlocked", "Locked"}
    BY <2>1 DEF Initialized, Statuses
  <2>3. pending' = 0
    BY <1>0, <2>1 DEF TradeInv, TradingTypeOK, MaxOrders, PendingKinds
  <2>4. status' = status \/ Life!Retire
    BY <2>1, <2>2, <2>3 DEF Life!Retire
  <2> QED
    BY <2>1, <2>4 DEF Exists, Life!Next
<1>2. ASSUME NEW u, NEW ask, NEW accounts, BuyIn(u, ask, accounts),
             UNCHANGED <<pending, serum>>
      PROVE  Exists' /\ [Life!Next]_<<status, pending>>
  BY <1>2 DEF BuyIn, header, Exists
<1>3. CASE TradingNext
  BY <1>0, <1>3, StepLife
<1> QED
  BY <1>1, <1>2, <1>3, ProcessIsStep

(* The pool that clients reach lives the same life: no list of accounts    *)
(* retires it with an order out, or settles two accounts as one.           *)
THEOREM ClientImplementsLife == ClientSpec => ImplementsPoolLife
<1>1. ClientInit => Exists /\ Life!Init
  BY InitLife DEF ClientInit
<1>2. ClientInv /\ Exists /\ [ClientNext]_client
        => Exists' /\ [Life!Next]_<<status, pending>>
  <2> SUFFICES ASSUME ClientInv, Exists, [ClientNext]_client
               PROVE  Exists' /\ [Life!Next]_<<status, pending>>
    OBVIOUS
  <2>1. ASSUME [TradingNext]_trade
        PROVE  Exists' /\ [Life!Next]_<<status, pending>>
    BY <2>1, StepLife DEF ClientInv
  <2>2. ASSUME NEW r \in mail, Process(r)
        PROVE  Exists' /\ [Life!Next]_<<status, pending>>
    BY <2>2, ProcessLife DEF ClientInv, MailInv
  <2>3. Sending => UNCHANGED trade
    BY SendingKeepsMail
  <2> QED
    BY <2>1, <2>2, <2>3, ClientSteps
<1>3. ClientSpec => [](ClientInv /\ Exists)
  BY <1>1, <1>2, ClientInvHolds, PTL DEF ClientSpec
<1> QED
  BY <1>1, <1>2, <1>3, PTL DEF ClientSpec, ImplementsPoolLife, Life!Spec

-----------------------------------------------------------------------------
(* What is composed of the pool as it is                                   *)

(* The accounts that the client opens are the ones that are missing: each  *)
(* once, also when one of the fees' is the depositor's.                    *)
LEMMA OpensMissing ==
    ASSUME TypeOK, provider \in Users, NEW u \in Users, u # provider \/ u \in opened
    PROVE  LET s == Missing(u)
           IN  /\ \A i, j \in DOMAIN s : i # j => s[i] # s[j]
               /\ \A i \in DOMAIN s : s[i] \notin opened
               /\ opened \cup {s[i] : i \in DOMAIN s}
                    = opened \cup FeeAccounts \cup {u}
<1> DEFINE all == <<u>> \o FeeReceivers  T == {u} \cup FeeAccounts  s == Missing(u)
<1>1. /\ all \in Seq(T) /\ Len(all) = 4
      /\ all[1] = u /\ all[2] = provider /\ all[3] = Bonfida /\ all[4] = BuyBurn
  <2> DEFINE one == <<u>>  fees == FeeReceivers
  <2>1. Long(one, T, 1) /\ one[1] = u
    BY DEF Long
  <2>2. /\ Long(fees, T, 3)
        /\ fees[1] = provider /\ fees[2] = Bonfida /\ fees[3] = BuyBurn
    BY DEF Long, FeeReceivers, FeeAccounts
  <2> HIDE DEF one, fees, T
  <2>3. Long(one \o fees, T, 1 + 3) /\ OneAfter(one \o fees, one, 1, fees, 3)
    BY <2>1, <2>2, Then
  <2>4. /\ Long(all, T, 1 + 3) /\ all[1] = one[1]
        /\ all[1 + 1] = fees[1] /\ all[1 + 2] = fees[2] /\ all[1 + 3] = fees[3]
    <3>1. all = one \o fees
      BY DEF one, fees
    <3>2. 1 \in 1 .. 1 /\ 1 \in 1 .. 3 /\ 2 \in 1 .. 3 /\ 3 \in 1 .. 3
      OBVIOUS
    <3> HIDE DEF all
    <3> QED
      BY <2>3, <3>1, <3>2 DEF OneAfter
  <2> HIDE DEF all
  <2> QED
    BY <2>1, <2>2, <2>4 DEF Long
<1>2. /\ \A i, j \in 1 .. 4 : all[i] = all[j] /\ all[i] \notin opened => i = j
      /\ \A x \in T : \E i \in 1 .. 4 : all[i] = x
  <2> HIDE DEF all
  <2>1. /\ u # Bonfida /\ u # BuyBurn /\ provider # Bonfida /\ provider # BuyBurn
        /\ Bonfida # BuyBurn
    BY PoolAssumption
  <2>2. \A i \in 1 .. 4 : i = 1 \/ i = 2 \/ i = 3 \/ i = 4
    OBVIOUS
  <2>3. \A i, j \in 1 .. 4 : all[i] = all[j] /\ all[i] \notin opened => i = j
    BY <1>1, <2>1, <2>2
  <2>4. T = {all[1], all[2], all[3], all[4]}
    BY <1>1 DEF FeeAccounts
  <2>5. 1 \in 1 .. 4 /\ 2 \in 1 .. 4 /\ 3 \in 1 .. 4 /\ 4 \in 1 .. 4
    OBVIOUS
  <2> QED
    BY <2>3, <2>4, <2>5
<1>3. s = Without(all, opened)
  BY DEF Missing
<1> HIDE DEF all, T, s
<1>4. s \in Seq(T \ opened) /\ \A i, j \in 1 .. Len(s) : s[i] = s[j] => i = j
  BY <1>1, <1>2, <1>3, WithoutCounts, WithoutDistinct
<1>5. /\ DOMAIN s = 1 .. Len(s)
      /\ \A i \in DOMAIN s : s[i] \in T /\ s[i] \notin opened
  BY <1>4, LenProperties, ElementOfSeq
<1>6. ASSUME NEW x \in T \ opened PROVE \E i \in DOMAIN s : s[i] = x
  <2>1. Among(all, Len(all), x)
    BY <1>1, <1>2 DEF Among
  <2>2. Among(s, Len(s), x)
    BY <1>1, <1>3, <2>1, WithoutAmong
  <2> QED
    BY <1>5, <2>2 DEF Among
<1>7. opened \cup {s[i] : i \in DOMAIN s} = opened \cup T
  BY <1>5, <1>6
<1>8. opened \cup T = opened \cup FeeAccounts \cup {u}
  BY DEF T
<1> QED
  BY <1>4, <1>5, <1>7, <1>8 DEF s

(* A deposit that the pool allows is what comes of the composed one.       *)
LEMMA DepositIsServed ==
    ASSUME TypeOK, NEW u \in Users, u # provider \/ u \in opened, NEW ask \in Asks,
           BuyIn(u, ask, opened \cup FeeAccounts \cup {u})
    PROVE  ProcessDeposit(DepositOf(u, ask))
<1> DEFINE r == DepositOf(u, ask)  n == Len(Assets)  R == DepositTakes(n)
<1>1. /\ r.op = "deposit" /\ r.by = u /\ r.amount = ask
      /\ r.fees = FeeReceivers /\ r.opens = Missing(u)
      /\ r.accounts = deposit(AssetAccounts("pool"), AssetAccounts(u))
  BY DEF DepositOf
<1>2. n \in Nat /\ DOMAIN Assets = 1 .. n
  BY AssetsType, LenProperties
<1>3. /\ Len(r.accounts) = 7 + n + 1 + n /\ r.accounts[7 + n + 1].signer
      /\ \A i \in 1 .. n : r.accounts[7 + i].key = Token("pool", Assets[i])
  BY <1>1, DepositList DEF Holders
<1>4. provider \in Users
  BY DEF BuyIn, TypeOK
<1>5. /\ \A i, j \in DOMAIN r.opens : i # j => r.opens[i] # r.opens[j]
      /\ \A i \in DOMAIN r.opens : r.opens[i] \notin opened
      /\ opened \cup {r.opens[i] : i \in DOMAIN r.opens}
           = opened \cup FeeAccounts \cup {u}
  BY <1>1, <1>4, OpensMissing
<1> HIDE DEF r, n
<1>6. Len(R) = 7 + n + 1 + n
  BY <1>2, DepositRoles
<1>7. /\ Taken(r.accounts, R, "owner", 1) = r.accounts[7 + n + 1]
      /\ \A i \in 1 .. n : Taken(r.accounts, R, "asset", i) = r.accounts[7 + i]
  BY <1>2, DepositPlaces
<1>8. Len(r.accounts) >= Len(R)
  BY <1>2, <1>3, <1>6
<1> HIDE DEF R
<1>9. /\ Taken(r.accounts, R, "owner", 1).signer
      /\ \A i \in DOMAIN Assets :
           Taken(r.accounts, R, "asset", i).key = Token("pool", Assets[i])
  BY <1>2, <1>3, <1>7
<1>10. BuyIn(r.by, r.amount, opened \cup {r.opens[i] : i \in DOMAIN r.opens})
  BY <1>1, <1>5
<1>11. FeesChecked(r)
  BY <1>1 DEF FeesChecked
<1> QED
  BY <1>1, <1>5, <1>8, <1>9, <1>10, <1>11 DEF ProcessDeposit, R, n, r

(* A redemption that the pool allows is what comes of the composed one:    *)
(* each mint is paid once for every slot that lists it, and none of it to  *)
(* the pool, which is nobody's wallet.                                     *)
LEMMA RedeemIsServed ==
    ASSUME TypeOK, NEW h \in Holders, NEW k \in Redemptions, Redeem(h, k)
    PROVE  ProcessRedeem(RedemptionOf(h, k))
<1> DEFINE r == RedemptionOf(h, k)  n == Len(Assets)  R == RedeemTakes(n)
           left == Left(r)
<1>1. /\ r.op = "redeem" /\ r.by = h /\ r.amount = k
      /\ r.accounts = redeem(AssetAccounts("pool"), AssetAccounts(h))
  BY DEF RedemptionOf
<1>2. /\ n \in Nat /\ k \in Nat /\ supply \in Nat
      /\ \A i \in 1 .. n : Assets[i] \in Mints
  BY AssetsType, LenProperties, ElementOfSeq, PoolAssumption DEF TypeOK
<1>3. /\ Len(r.accounts) = 6 + n + n /\ r.accounts[4].signer
      /\ \A i \in 1 .. n : /\ r.accounts[6 + i].key = Token("pool", Assets[i])
                           /\ r.accounts[6 + n + i].key = Token(h, Assets[i])
  BY <1>1, RedemptionList
<1>4. /\ status \in Initialized /\ ~RedeemClosed /\ ~FeesOverdue /\ h \in opened
      /\ k <= tokens[h] /\ k <= supply /\ (supply > 0 \/ Listed = {})
      /\ poolBal' = [m \in Mints |-> poolBal[m] - PaidOut(k, m)]
      /\ wallet' = [wallet EXCEPT ![h] =
                      [m \in Mints |-> wallet[h][m] + PaidOut(k, m)]]
      /\ supply' = supply - k /\ tokens' = [tokens EXCEPT ![h] = @ - k]
      /\ IF Retires(k)
         THEN /\ status' = "Uninitialized"
              /\ slots' = [i \in DOMAIN slots |-> NoMint]
         ELSE UNCHANGED <<status, slots>>
      /\ UNCHANGED <<provider, feeRatio, period, lastFee, markets, space, opened,
                     now>>
  BY DEF Redeem
<1> HIDE DEF r
<1>5. supply > 0 \/ n = 0
  BY <1>4, NoAssets
<1>6. /\ \A i \in 1 .. n : PoolSide(r, i) = Token("pool", Assets[i])
      /\ \A i \in 1 .. n : HolderSide(r, i) = Token(h, Assets[i])
  BY <1>3 DEF PoolSide, HolderSide
<1>7. Payable(r)
  BY <1>1, <1>2, <1>4, <1>5, <1>6 DEF Payable
<1>8. PaysOthers(r)
  <2>1. \A m \in Mints : Token(h, m).owner = h /\ Token("pool", m).owner = "pool"
    BY DEF Token
  <2>2. \A m \in Mints : Token(h, m) # Token("pool", m)
    BY <2>1, ClientAssumption
  <2> QED
    BY <1>2, <1>6, <2>2 DEF PaysOthers
<1>9. Transfers(left, r)
  BY <1>7, LeftTransfers
<1> HIDE DEF left
<1>10. ASSUME NEW m \in Mints
       PROVE  /\ left[n][m] \in 0 .. poolBal[m] /\ poolBal[m] \in Nat
              /\ PaidOut(k, m) = poolBal[m] - left[n][m]
  <2>1. left[n][m] = LeftAfter(k, poolBal[m], supply, Passes(m))
    BY <1>1, <1>7, <1>8, <1>9, TransfersByPasses
  <2>2. left[n][m] \in 0 .. poolBal[m] /\ poolBal[m] \in Nat
    BY <1>7, <1>9, TransfersBound, TransferTypes
  <2> QED
    BY <2>1, <2>2 DEF PaidOut
<1>11. poolBal' = left[n]
  <2>1. left[n] \in [Mints -> Nat]
    BY <1>2, <1>9 DEF Transfers
  <2>2. \A m \in Mints : poolBal[m] - PaidOut(k, m) = left[n][m]
    BY <1>10
  <2> QED
    BY <1>4, <2>1, <2>2
<1>12. wallet' = [wallet EXCEPT ![h] =
                    [m \in Mints |-> @[m] + (poolBal[m] - left[n][m])]]
  <2>1. [m \in Mints |-> wallet[h][m] + PaidOut(k, m)]
          = [m \in Mints |-> wallet[h][m] + (poolBal[m] - left[n][m])]
    BY <1>10
  <2> QED
    BY <1>4, <2>1
<1>13. Len(R) = 6 + n + n
  BY <1>2, RedeemRoles
<1>14. /\ Taken(r.accounts, R, "owner", 1) = r.accounts[4]
       /\ \A i \in 1 .. n : /\ Taken(r.accounts, R, "asset", i) = r.accounts[6 + i]
                            /\ Taken(r.accounts, R, "target", i) = r.accounts[6 + n + i]
  BY <1>2, RedeemPlaces
<1>15. Len(r.accounts) >= Len(R)
  BY <1>2, <1>3, <1>13
<1> HIDE DEF R, n
<1>16. /\ Taken(r.accounts, R, "owner", 1).signer
       /\ \A i \in 1 .. n :
            /\ IsPoolAsset(Taken(r.accounts, R, "asset", i).key, Assets[i])
            /\ Taken(r.accounts, R, "target", i).key.mint
                 = Taken(r.accounts, R, "asset", i).key.mint
  <2>1. \A i \in 1 .. n : Token(h, Assets[i]).mint = Token("pool", Assets[i]).mint
    BY DEF Token
  <2> QED
    BY <1>3, <1>14, <2>1 DEF IsPoolAsset
<1> HIDE DEF left
<1>17. ProcessRedeem(r)
  <2>1. \A i \in 1 .. n : IsPoolAsset(Taken(r.accounts, R, "asset", i).key, Assets[i])
    BY <1>16
  <2>2. /\ r.op = "redeem" /\ r.by \in opened
        /\ r.amount <= tokens[r.by] /\ r.amount <= supply
        /\ supply' = supply - r.amount
        /\ tokens' = [tokens EXCEPT ![r.by] = @ - r.amount]
        /\ IF Retires(r.amount)
           THEN /\ status' = "Uninitialized"
                /\ slots' = [i \in DOMAIN slots |-> NoMint]
           ELSE UNCHANGED <<status, slots>>
        /\ wallet' = [wallet EXCEPT ![r.by] =
                        [m \in Mints |-> @[m] + (poolBal[m] - left[n][m])]]
    BY <1>1, <1>4, <1>12
  <2> QED
    BY <1>4, <1>5, <1>11, <1>15, <1>16, <2>2 DEF ProcessRedeem, R, n, left
<1> QED
  BY <1>17 DEF r

(* What the client composes of the pool as it is, the program serves, in   *)
(* every life of the pool and whatever slots are zeroed or repeat a mint.  *)
THEOREM FreshRequestsServed == ClientSpec => FreshRequestsAreServed
<1>1. ASSUME ClientInv
      PROVE  /\ \A h \in Holders, k \in Redemptions :
                  Redeem(h, k) => ProcessRedeem(RedemptionOf(h, k))
             /\ \A u \in Users, ask \in Asks :
                  /\ u # provider \/ u \in opened
                  /\ BuyIn(u, ask, opened \cup FeeAccounts \cup {u})
                  => ProcessDeposit(DepositOf(u, ask))
  <2>1. TypeOK
    BY <1>1 DEF ClientInv, IInv
  <2> QED
    BY <2>1, RedeemIsServed, DepositIsServed
<1> QED
  BY <1>1, ClientInvHolds, PTL DEF FreshRequestsAreServed
=============================================================================
