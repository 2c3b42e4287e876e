----------------------------- MODULE PoolProofs -----------------------------
(***************************************************************************)
(* Theorems about Pool, for every number of users and tokens, every width  *)
(* of a ratio and of an amount, and every input of the instructions.       *)
(***************************************************************************)
EXTENDS Pool, PoolMathProofs, FiniteSetTheorems

\* The parts of a fee are amounts.
LEMMA FeeForType ==
    ASSUME NEW fee \in Nat, NEW h
    PROVE  FeeFor(h, fee) \in Nat
<1>1. ProviderShare(fee) \in Nat /\ BonfidaShare(fee) \in Nat
  BY SMT DEF ProviderShare, BonfidaShare
<1>2. BuyBurnShare(fee) \in Nat
  BY SMT DEF BuyBurnShare, ProviderShare, BonfidaShare
<1>. QED  BY <1>1, <1>2 DEF FeeFor

-----------------------------------------------------------------------------
(* Type correctness                                                        *)

LEMMA ElementType ==
    ASSUME NEW S, NEW s \in Seq(S), NEW i \in 1 .. Len(s)
    PROVE  s[i] \in S
  OBVIOUS

\* A freshly written list is a sequence of slots of the wanted length.
LEMMA WrittenType ==
    ASSUME NEW list \in AssetLists, NEW size \in Nat
    PROVE  /\ Written(list, size) \in Seq(Mints \cup {NoMint})
           /\ Len(Written(list, size)) = size
<1>1. list \in Seq([mint : Mints, amount : Nat \ {0}])
  BY PoolAssumption DEF AssetLists0
<1>2. ASSUME NEW i \in 1 .. size, i <= Len(list)
      PROVE  list[i].mint \in Mints
  <2>1. i \in 1 .. Len(list)
    BY <1>1, <1>2
  <2>2. list[i] \in [mint : Mints, amount : Nat \ {0}]
    BY <1>1, <2>1, ElementType
  <2>. QED  BY <2>2
<1>3. Written(list, size) \in [1 .. size -> Mints \cup {NoMint}]
  BY <1>2 DEF Written
<1>. QED  BY <1>3

LEMMA InitType == Init => TypeOK
<1>. SUFFICES ASSUME Init PROVE TypeOK
  OBVIOUS
<1>1. feeRatio \in 0 .. Scale - 1 /\ supply \in 0 .. U64 - 1
  BY MathAssumption DEF Init
<1>2. wallet \in [Holders -> [Mints -> Nat]]
  BY PoolAssumption DEF Init, Amounts
<1>3. opened \subseteq Holders
  BY PoolAssumption DEF Init, Holders
<1>. QED  BY <1>1, <1>2, <1>3 DEF Init, TypeOK, Statuses, Initialized

LEMMA CreateType ==
    ASSUME TypeOK, NEW u \in Users, NEW list \in AssetLists, NEW sp \in Users,
           NEW n \in MarketCounts, NEW per \in Periods, NEW ratio \in FeeRatios,
           Create(u, list, sp, n, per, ratio)
    PROVE  TypeOK'
<1>1. n \in Nat /\ per \in Nat /\ ratio \in 0 .. Scale - 1
      /\ InitialTokens \in Nat /\ MinPeriod \in Nat /\ u \in Holders
  BY PoolAssumption DEF Holders
<1>2. Len(list) \in Nat
  BY PoolAssumption DEF AssetLists0
<1>3. space - n \in Nat
  BY <1>1, <1>2 DEF Create, TypeOK
<1>4. slots' \in Seq(Mints \cup {NoMint}) /\ markets' + Len(slots') <= space'
  <2>1. slots' = Written(list, space - n) /\ markets' = n /\ space' = space
    BY DEF Create
  <2>2. slots' \in Seq(Mints \cup {NoMint}) /\ Len(slots') = space - n
    BY <1>3, <2>1, WrittenType
  <2>3. space \in Nat
    BY DEF TypeOK
  <2>. QED  BY <1>1, <2>1, <2>2, <2>3
<1>5. \A m \in Mints : /\ Contributed(list, m) \in Nat
                       /\ wallet[u][m] - Contributed(list, m) \in Nat
  BY <1>1 DEF Create, TypeOK
<1>6. wallet' \in [Holders -> [Mints -> Nat]] /\ poolBal' \in [Mints -> Nat]
  <2>1. wallet' = [wallet EXCEPT ![u] =
                     [m \in Mints |-> wallet[u][m] - Contributed(list, m)]]
    BY DEF Create
  <2>2. [m \in Mints |-> wallet[u][m] - Contributed(list, m)] \in [Mints -> Nat]
    BY <1>5
  <2>3. wallet' \in [Holders -> [Mints -> Nat]]
    BY <2>1, <2>2 DEF TypeOK
  <2>4. poolBal' = [m \in Mints |-> poolBal[m] + Contributed(list, m)]
    BY DEF Create
  <2>. QED  BY <1>5, <2>3, <2>4 DEF TypeOK
<1>7. supply' \in 0 .. U64 - 1 /\ tokens' \in [Holders -> Nat]
  BY <1>1, MathAssumption DEF Create, TypeOK
<1>8. lastFee' \in Nat /\ now' \in Nat
  BY DEF Create, TypeOK, FeeClock
<1>9. UNCHANGED <<space, opened>> /\ status' = "Unlocked" /\ provider' = sp
      /\ feeRatio' = ratio /\ period' = per /\ markets' = n /\ per >= MinPeriod
  BY DEF Create
<1>. QED  BY <1>1, <1>4, <1>6, <1>7, <1>8, <1>9
          DEF TypeOK, Statuses, Initialized

\* The amount a deposit settles on is a u64.
LEMMA DepositLimitsType ==
    ASSUME TypeOK, NEW u \in Users, NEW ask \in Amounts
    PROVE  DepositLimits(u, ask) \subseteq Amounts
<1>1. ASSUME NEW m \in Mints
      PROVE  Affordable(wallet[u][m], supply, poolBal[m]) \in Amounts
  <2>1. wallet[u][m] \in Nat /\ supply \in Nat /\ poolBal[m] \in Nat
    BY DEF TypeOK, Holders
  <2>. QED  BY <2>1, AffordableType DEF Amounts
<1>. QED  BY <1>1 DEF DepositLimits, Listed

\* Also when the client opens token accounts in the same transaction.
LEMMA BuyInType ==
    ASSUME TypeOK, NEW u \in Users, NEW ask \in Asks,
           NEW accounts \in SUBSET Holders, BuyIn(u, ask, accounts)
    PROVE  TypeOK'
<1>1. PICK eff \in DepositLimits(u, ask) :
        /\ \A m \in Mints : Paid(eff, m) \in 0 .. wallet[u][m]
        /\ supply + eff < U64
        /\ wallet' = [wallet EXCEPT ![u] =
                        [m \in Mints |-> wallet[u][m] - Paid(eff, m)]]
        /\ poolBal' = [m \in Mints |-> poolBal[m] + Paid(eff, m)]
        /\ supply' = supply + eff
        /\ tokens' = [h \in Holders |->
             tokens[h] + FeeFor(h, DepositFee(feeRatio, eff))
                       + (IF h = u THEN eff - DepositFee(feeRatio, eff) ELSE 0)]
  BY DEF BuyIn
<1>2. eff \in Nat /\ u \in Holders
  BY DepositLimitsType, PoolAssumption DEF Amounts, Holders
<1>3. DepositFee(feeRatio, eff) \in 0 .. eff
  BY <1>2, DepositFeeBound DEF TypeOK
<1>4. tokens' \in [Holders -> Nat]
  <2>1. \A h \in Holders : FeeFor(h, DepositFee(feeRatio, eff)) \in Nat
    BY <1>2, <1>3, FeeForType
  <2>. QED  BY <1>1, <1>2, <1>3, <2>1 DEF TypeOK
<1>5. supply' \in 0 .. U64 - 1
  BY <1>1, <1>2, MathAssumption DEF TypeOK
<1>6. \A m \in Mints : /\ Paid(eff, m) \in Nat
                       /\ wallet[u][m] - Paid(eff, m) \in Nat
  BY <1>1, <1>2 DEF TypeOK
<1>7. wallet' \in [Holders -> [Mints -> Nat]] /\ poolBal' \in [Mints -> Nat]
  BY <1>1, <1>2, <1>6 DEF TypeOK
<1>8. UNCHANGED <<header, space, slots, now>> /\ opened' = accounts
  BY DEF BuyIn
<1>. QED  BY <1>4, <1>5, <1>7, <1>8 DEF TypeOK, header

LEMMA RedeemType ==
    ASSUME TypeOK, NEW h \in Holders, NEW k \in Redemptions, Redeem(h, k)
    PROVE  TypeOK'
<1>0. /\ k <= tokens[h] /\ k <= supply
      /\ \A m \in Mints : PaidOut(k, m) \in 0 .. poolBal[m]
      /\ poolBal' = [m \in Mints |-> poolBal[m] - PaidOut(k, m)]
      /\ wallet' = [wallet EXCEPT ![h] =
                      [m \in Mints |-> wallet[h][m] + PaidOut(k, m)]]
      /\ supply' = supply - k
      /\ tokens' = [tokens EXCEPT ![h] = @ - k]
  BY DEF Redeem
<1>1. k \in Nat /\ supply - k \in Nat /\ tokens[h] - k \in Nat
  BY <1>0, PoolAssumption DEF TypeOK
<1>2. supply' \in 0 .. U64 - 1 /\ tokens' \in [Holders -> Nat]
  BY <1>0, <1>1, MathAssumption DEF TypeOK
<1>3. \A m \in Mints : PaidOut(k, m) \in Nat /\ poolBal[m] - PaidOut(k, m) \in Nat
  BY <1>0 DEF TypeOK
<1>4. poolBal' \in [Mints -> Nat] /\ wallet' \in [Holders -> [Mints -> Nat]]
  BY <1>0, <1>3 DEF TypeOK
<1>5. UNCHANGED <<provider, feeRatio, period, lastFee, markets, space, opened, now>>
  BY DEF Redeem
<1>6. slots' \in Seq(Mints \cup {NoMint}) /\ Len(slots') = Len(slots)
  <2>1. CASE slots' = slots
    BY <2>1 DEF TypeOK
  <2>2. CASE slots' = [i \in DOMAIN slots |-> NoMint]
    BY <2>2 DEF TypeOK
  <2>. QED  BY <2>1, <2>2 DEF Redeem
<1>7. status' \in {status, "Uninitialized"}
  BY DEF Redeem
<1>8. status # "NoAccount" /\ status' # "NoAccount"
  BY <1>7 DEF Redeem, Initialized
<1>. QED  BY <1>2, <1>4, <1>5, <1>6, <1>7, <1>8 DEF TypeOK, Statuses, Initialized

LEMMA CollectFeesType ==
    ASSUME TypeOK, CollectFees
    PROVE  TypeOK'
<1>. DEFINE cycles == FeeCycles(now, lastFee, period)
<1>1. PICK feeless \in 1 .. Scale - 1 :
        /\ supply + FeeTokens(feeless, supply) < U64
        /\ supply' = supply + FeeTokens(feeless, supply)
        /\ tokens' = [h \in Holders |->
             tokens[h] + FeeFor(h, FeeTokens(feeless, supply))]
  BY DEF CollectFees
<1>2. FeeTokens(feeless, supply) \in Nat
  BY FeeTokensType DEF TypeOK
<1>3. supply' \in 0 .. U64 - 1
  BY <1>1, <1>2, MathAssumption DEF TypeOK
<1>4. tokens' \in [Holders -> Nat]
  BY <1>1, <1>2, FeeForType DEF TypeOK
<1>5. period \in Nat \ {0}
  BY PoolAssumption DEF CollectFees, TypeOK
<1>6. cycles \in Nat
  BY <1>5 DEF CollectFees, TypeOK, FeeCycles
<1>7. lastFee' \in Nat
  BY <1>5, <1>6 DEF CollectFees, FeeClockAfter, TypeOK
<1>8. UNCHANGED <<status, provider, feeRatio, period, markets, space, slots,
                  opened, poolBal, wallet, now>>
  BY DEF CollectFees
<1>. QED  BY <1>3, <1>4, <1>7, <1>8 DEF TypeOK

(* Every step preserves the type invariant: one step for each action.      *)
LEMMA NextType == TypeOK /\ [Next]_vars => TypeOK'
<1>. SUFFICES ASSUME TypeOK, [Next]_vars PROVE TypeOK'
  OBVIOUS
<1>1. CASE \E size \in Spaces : InitPool(size)
  <2>1. PICK size \in Spaces : InitPool(size)
    BY <1>1
  <2>2. size \in Nat
    BY PoolAssumption
  <2>3. markets' + Len(slots') <= space'
    BY <2>1, <2>2 DEF InitPool, TypeOK
  <2>. QED  BY <2>1, <2>2, <2>3 DEF InitPool, TypeOK, Statuses, Initialized
<1>2. CASE CreateAny
  BY <1>2, CreateType DEF CreateAny
<1>3. CASE \E u \in Users, ask \in Asks : Deposit(u, ask)
  <2>1. opened \in SUBSET Holders
    BY DEF TypeOK
  <2>. QED  BY <1>3, <2>1, BuyInType DEF Deposit
<1>4. CASE \E h \in Holders, k \in Redemptions : Redeem(h, k)
  BY <1>4, RedeemType
<1>5. CASE CollectFees
  BY <1>5, CollectFeesType
<1>6. CASE \E h \in Holders : OpenTokenAccount(h)
  BY <1>6 DEF OpenTokenAccount, TypeOK, header
<1>7. CASE \E u \in Users, m \in Mints, a \in Gifts : Gift(u, m, a)
  <2>1. PICK u \in Users, m \in Mints, a \in Gifts : Gift(u, m, a)
    BY <1>7
  <2>2. a \in Nat /\ u \in Holders /\ wallet[u][m] - a \in Nat
    BY <2>1, PoolAssumption DEF Gift, TypeOK, Holders
  <2>3. poolBal' \in [Mints -> Nat] /\ wallet' \in [Holders -> [Mints -> Nat]]
    BY <2>1, <2>2 DEF Gift, TypeOK
  <2>. QED  BY <2>1, <2>3 DEF Gift, TypeOK, header
<1>8. CASE \E h \in Holders, k \in Burns : BurnTokens(h, k)
  <2>1. PICK h \in Holders, k \in Burns : BurnTokens(h, k)
    BY <1>8
  <2>2. k \in Nat
    BY PoolAssumption
  <2>3. tokens' \in [Holders -> Nat] /\ supply' \in 0 .. U64 - 1
    BY <2>1, <2>2, MathAssumption DEF BurnTokens, TypeOK
  <2>. QED  BY <2>1, <2>3 DEF BurnTokens, TypeOK, header
<1>9. CASE Tick
  BY <1>9 DEF Tick, TypeOK, header
<1>10. CASE UNCHANGED vars
  BY <1>10 DEF vars, header, TypeOK
<1>. QED  BY <1>1, <1>2, <1>3, <1>4, <1>5, <1>6, <1>7, <1>8, <1>9, <1>10 DEF Next

(* Type correctness: whatever the inputs, every header field, balance and  *)
(* supply stays in its range, and the list stays inside the account.       *)
THEOREM TypeCorrect == Spec => []TypeOK
  BY InitType, NextType, PTL DEF Spec

-----------------------------------------------------------------------------
(* The supply and the fee clock                                            *)

(* The inductive invariant behind the safety theorems: the supply of the   *)
(* mint is zero exactly as long as the pool is not created (if pool tokens *)
(* are burnt by Redeem only), and the fee clock is not ahead of the clock. *)
IInv == TypeOK /\ RetiredHasNoSupply /\ LiveHasSupply /\ FeeClockNotAhead

LEMMA InitInv == Init => IInv
<1>. SUFFICES ASSUME Init PROVE IInv
  OBVIOUS
<1>1. TypeOK
  BY InitType
<1>. QED  BY <1>1 DEF Init, IInv, RetiredHasNoSupply, LiveHasSupply,
                      FeeClockNotAhead, Initialized

\* A collection moves the fee clock on, up to less than a period ago.
LEMMA CollectFeesClock ==
    ASSUME TypeOK, FeeClockNotAhead, CollectFees
    PROVE  lastFee < lastFee' /\ lastFee' <= now /\ now - lastFee' < period
<1>. DEFINE c == (now - lastFee) \div period
<1>1. period \in Nat \ {0} /\ lastFee \in Nat /\ now \in Nat /\ now - lastFee \in Nat
  BY PoolAssumption DEF CollectFees, TypeOK, FeeClockNotAhead
<1>2. c \in Nat /\ c * period <= now - lastFee /\ now - lastFee < c * period + period
  BY <1>1, DivBounds
<1>3. c > 0 /\ lastFee' = lastFee + c * period
  BY DEF CollectFees, FeeCycles, FeeClockAfter
<1>4. c * period >= 1 /\ c * period \in Nat
  <2>. HIDE DEF c
  <2>. QED  BY <1>1, <1>2, <1>3, SMT
<1>. HIDE DEF c
<1>. QED  BY <1>1, <1>2, <1>3, <1>4

LEMMA BuyInInv ==
    ASSUME IInv, NEW u \in Users, NEW ask \in Asks,
           NEW accounts \in SUBSET Holders, BuyIn(u, ask, accounts)
    PROVE  IInv'
<1>1. TypeOK /\ TypeOK' /\ supply \in Nat /\ FeeClockNotAhead
  <2>1. TypeOK /\ FeeClockNotAhead
    BY DEF IInv
  <2>2. TypeOK'
    BY <2>1, BuyInType
  <2>. QED  BY <2>1, <2>2 DEF TypeOK
<1>2. PICK eff \in DepositLimits(u, ask) : supply' = supply + eff
  BY DEF BuyIn
<1>3. eff \in Nat
  BY <1>1, DepositLimitsType, PoolAssumption DEF Amounts
<1>4. status \in Initialized /\ status' = status /\ supply > 0
      /\ lastFee' = lastFee /\ now' = now
  BY DEF BuyIn, header
<1>. QED  BY <1>1, <1>2, <1>3, <1>4
          DEF IInv, RetiredHasNoSupply, LiveHasSupply, FeeClockNotAhead

LEMMA NextInv == IInv /\ [Next]_vars => IInv'
<1>. SUFFICES ASSUME IInv, [Next]_vars PROVE IInv'
  OBVIOUS
<1>. USE DEF IInv
<1>0. TypeOK' /\ supply \in Nat /\ lastFee \in Nat /\ now \in Nat
  <2>1. TypeOK'
    BY NextType
  <2>. QED  BY <2>1 DEF TypeOK
<1>1. CASE \E size \in Spaces : InitPool(size)
  BY <1>0, <1>1 DEF InitPool, RetiredHasNoSupply, LiveHasSupply,
                    FeeClockNotAhead, Initialized
<1>2. CASE CreateAny
  <2>1. /\ status' = "Unlocked" /\ supply' = supply + InitialTokens
        /\ lastFee' = now /\ now' = now
    BY <1>2 DEF CreateAny, Create, FeeClock
  <2>2. InitialTokens \in Nat \ {0}
    BY PoolAssumption, MathAssumption
  <2>. QED  BY <1>0, <2>1, <2>2 DEF RetiredHasNoSupply, LiveHasSupply,
                                    FeeClockNotAhead, Initialized, Statuses
<1>3. CASE \E u \in Users, ask \in Asks : Deposit(u, ask)
  <2>1. opened \in SUBSET Holders
    BY DEF TypeOK
  <2>. QED  BY <1>3, <2>1, BuyInInv DEF Deposit
<1>4. CASE \E h \in Holders, k \in Redemptions : Redeem(h, k)
  <2>1. PICK h \in Holders, k \in Redemptions : Redeem(h, k)
    BY <1>4
  <2>2. k \in Nat /\ k <= supply /\ supply' = supply - k
        /\ status \in Initialized /\ lastFee' = lastFee /\ now' = now
    BY <2>1, PoolAssumption DEF Redeem
  <2>3. CASE k = supply
    <3>1. status' = "Uninitialized" /\ supply' = 0
      BY <1>0, <2>1, <2>2, <2>3 DEF Redeem, Retires
    <3>. QED  BY <1>0, <2>2, <3>1 DEF RetiredHasNoSupply, LiveHasSupply,
                                      FeeClockNotAhead, Initialized
  <2>4. CASE k # supply
    <3>1. status' = status /\ supply' > 0
      BY <1>0, <2>1, <2>2, <2>4 DEF Redeem, Retires
    <3>. QED  BY <1>0, <2>2, <3>1 DEF RetiredHasNoSupply, LiveHasSupply,
                                      FeeClockNotAhead
  <2>. QED  BY <2>3, <2>4
<1>5. CASE CollectFees
  <2>1. lastFee' <= now /\ now' = now /\ status' = status /\ status \in Initialized
    BY <1>5, CollectFeesClock DEF CollectFees
  <2>2. PICK f \in 1 .. Scale - 1 : supply' = supply + FeeTokens(f, supply)
    BY <1>5 DEF CollectFees
  <2>3. FeeTokens(f, supply) \in Nat
    BY <1>0, FeeTokensType, MathAssumption
  <2>. QED  BY <1>0, <2>1, <2>2, <2>3
            DEF RetiredHasNoSupply, LiveHasSupply, FeeClockNotAhead
<1>6. CASE \E h \in Holders : OpenTokenAccount(h)
  <2>1. status' = status /\ supply' = supply /\ lastFee' = lastFee /\ now' = now
    BY <1>6 DEF OpenTokenAccount, header
  <2>. QED  BY <1>0, <2>1 DEF RetiredHasNoSupply, LiveHasSupply, FeeClockNotAhead
<1>7. CASE \E u \in Users, m \in Mints, a \in Gifts : Gift(u, m, a)
  <2>1. status' = status /\ supply' = supply /\ lastFee' = lastFee /\ now' = now
    BY <1>7 DEF Gift, header
  <2>. QED  BY <1>0, <2>1 DEF RetiredHasNoSupply, LiveHasSupply, FeeClockNotAhead
<1>8. CASE \E h \in Holders, k \in Burns : BurnTokens(h, k)
  <2>1. PICK h \in Holders, k \in Burns : BurnTokens(h, k)
    BY <1>8
  <2>2. k \in Nat /\ k <= supply /\ supply' = supply - k /\ Burns # {}
        /\ status' = status /\ lastFee' = lastFee /\ now' = now
    BY <2>1, PoolAssumption DEF BurnTokens, header
  <2>. QED  BY <1>0, <2>2 DEF RetiredHasNoSupply, LiveHasSupply, FeeClockNotAhead
<1>9. CASE Tick
  BY <1>0, <1>9 DEF Tick, header, RetiredHasNoSupply, LiveHasSupply,
                    FeeClockNotAhead
<1>10. CASE UNCHANGED vars
  BY <1>10, <1>0 DEF vars, header, RetiredHasNoSupply, LiveHasSupply,
                     FeeClockNotAhead
<1>. QED  BY <1>1, <1>2, <1>3, <1>4, <1>5, <1>6, <1>7, <1>8, <1>9, <1>10 DEF Next

\* The inductive invariant is an invariant.
THEOREM InvariantHolds == Spec => []IInv
  BY InitInv, NextInv, PTL DEF Spec

(* The pool tokens of one life of a pool never reach into the next: Create *)
(* always starts from a supply of zero.                                    *)
THEOREM RetiredIsEmpty == Spec => []RetiredHasNoSupply
<1>1. IInv => RetiredHasNoSupply
  BY DEF IInv
<1>. QED  BY <1>1, InvariantHolds, PTL

(* The divisions by the supply in Deposit and Redeem never fail on a       *)
(* created pool, unless pool tokens were burnt outside the program.        *)
THEOREM LiveIsSupplied == Spec => []LiveHasSupply
<1>1. IInv => LiveHasSupply
  BY DEF IInv
<1>. QED  BY <1>1, InvariantHolds, PTL

\* The u64 subtraction of the two timestamps never wraps around.
THEOREM FeeClockIsPast == Spec => []FeeClockNotAhead
<1>1. IInv => FeeClockNotAhead
  BY DEF IInv
<1>. QED  BY <1>1, InvariantHolds, PTL

\* The time since the last collection, as the divisions of it need it.
LEMMA PeriodFacts ==
    ASSUME IInv, status \in Initialized
    PROVE  /\ period \in Nat \ {0} /\ now \in Nat /\ lastFee \in Nat
           /\ now - lastFee \in Nat
           /\ PeriodsOwed = (now - lastFee) \div period
           /\ PeriodsOwed \in Nat
<1>1. /\ period \in Nat \ {0} /\ now \in Nat /\ lastFee \in Nat
      /\ now - lastFee \in Nat
  BY PoolAssumption DEF IInv, TypeOK, FeeClockNotAhead
<1>2. PeriodsOwed = (now - lastFee) \div period
  BY DEF PeriodsOwed, FeeCycles
<1> QED
  BY <1>1, <1>2, DivBounds

\* What is owed, bounded by its sum, and the collection that it allows.
LEMMA FeesOwedBound ==
    ASSUME IInv
    PROVE  /\ FeesTakeAtMostTheirSum
           /\ PeriodsOwed * (feeRatio + 1) < Scale => AlwaysUnlockable
<1>1. feeRatio \in 0 .. Scale - 1 /\ Scale \in Nat
  BY MathAssumption DEF IInv, TypeOK
<1>2. ASSUME PeriodsOwed > 0
      PROVE  /\ FeelessRatio(feeRatio, PeriodsOwed) \in 0 .. Scale - 1
             /\ FeelessRatio(feeRatio, PeriodsOwed) + PeriodsOwed * (feeRatio + 1) >= Scale
  <2>1. CASE status \in Initialized
    <3>1. PeriodsOwed \in Nat \ {0}
      BY <1>2, <2>1, PeriodFacts
    <3> QED
      BY <1>1, <3>1, FeelessRatioBound
  <2>2. CASE status \notin Initialized
    BY <1>2, <2>2 DEF PeriodsOwed
  <2> QED
    BY <2>1, <2>2
<1>3. FeesTakeAtMostTheirSum
  BY <1>2 DEF FeesTakeAtMostTheirSum
<1>4. ASSUME PeriodsOwed * (feeRatio + 1) < Scale, status \in Initialized, FeesOverdue
      PROVE  FeelessRatio(feeRatio, FeeCycles(now, lastFee, period)) > 0
  <2>1. /\ period \in Nat \ {0} /\ now - lastFee \in Nat /\ PeriodsOwed \in Nat
        /\ PeriodsOwed = (now - lastFee) \div period
    BY <1>4, PeriodFacts
  <2>2. now - lastFee > period
    BY <1>4 DEF FeesOverdue
  <2>3. PeriodsOwed > 0
    <3> DEFINE q == (now - lastFee) \div period
    <3>1. q \in Nat /\ now - lastFee < q * period + period
      BY <2>1, DivBounds
    <3>2. q # 0
      <4>1. SUFFICES ASSUME q = 0 PROVE FALSE
        OBVIOUS
      <4>2. q * period = 0
        BY <2>1, <4>1
      <4> HIDE DEF q
      <4> QED
        BY <2>1, <2>2, <3>1, <4>2
    <3> HIDE DEF q
    <3> QED
      BY <2>1, <3>1, <3>2 DEF q
  <2>4. PeriodsOwed * (feeRatio + 1) \in Nat
    BY <1>1, <2>1
  <2>5. PeriodsOwed = FeeCycles(now, lastFee, period)
    BY <2>1 DEF FeeCycles
  <2>6. FeelessRatio(feeRatio, PeriodsOwed) \in 0 .. Scale - 1
        /\ FeelessRatio(feeRatio, PeriodsOwed) + PeriodsOwed * (feeRatio + 1) >= Scale
    BY <1>2, <2>3
  <2> QED
    BY <1>1, <1>4, <2>4, <2>5, <2>6
<1> QED
  BY <1>3, <1>4 DEF AlwaysUnlockable

(* A pool whose fees are overdue can have them collected, however long     *)
(* nobody did, while they do not add up to the whole pool: the remaining   *)
(* share that the collection divides by is not zero.                       *)
THEOREM FeesStayWithinTheirSum ==
    Spec => [](/\ FeesTakeAtMostTheirSum
               /\ PeriodsOwed * (feeRatio + 1) < Scale => AlwaysUnlockable)
BY FeesOwedBound, InvariantHolds, PTL

-----------------------------------------------------------------------------
(* The asset list                                                          *)

\* A mint is passed over once for every slot that lists it.
LEMMA PassesType ==
    ASSUME TypeOK, NEW m \in Mints
    PROVE  Passes(m) \in Nat /\ (Passes(m) = 0 <=> m \notin Listed)
<1>. DEFINE S == {i \in DOMAIN slots : slots[i] = m}
<1>1. Len(slots) \in Nat /\ DOMAIN slots = 1 .. Len(slots)
  BY DEF TypeOK
<1>2. IsFiniteSet(1 .. Len(slots))
  BY <1>1, FS_Interval
<1>3. S \in SUBSET (1 .. Len(slots))
  BY <1>1
<1>4. IsFiniteSet(S)
  BY <1>2, <1>3, FS_Subset
<1>5. Cardinality(S) \in Nat
  BY <1>4, FS_CardinalityType
<1>6. Cardinality(S) = 0 <=> S = {}
  BY <1>4, FS_EmptySet
<1>. QED  BY <1>5, <1>6 DEF Passes, Listed

\* In a list without repetition a listed mint is passed over once.
LEMMA DistinctPasses ==
    ASSUME TypeOK, SlotsDistinct, NEW m \in Mints
    PROVE  Passes(m) = (IF m \in Listed THEN 1 ELSE 0)
<1>1. Passes(m) \in Nat /\ Passes(m) <= 1 /\ (Passes(m) = 0 <=> m \notin Listed)
  BY PassesType DEF SlotsDistinct
<1>. QED  BY <1>1

\* So a deposit moves its amount once, and a mint that is not listed not at all.
LEMMA DistinctPaid ==
    ASSUME TypeOK, SlotsDistinct, supply > 0, NEW m \in Mints, NEW e \in Nat
    PROVE  Paid(e, m) = IF m \in Listed THEN DepositAmount(e, poolBal[m], supply)
                                        ELSE 0
<1>1. DepositAmount(e, poolBal[m], supply) \in Nat
  <2>1. poolBal[m] \in Nat /\ supply \in Nat \ {0}
    BY DEF TypeOK
  <2>. QED  BY <2>1, DepositAmountType
<1>2. CASE m \in Listed
  BY <1>1, <1>2, DistinctPasses DEF Paid
<1>3. CASE m \notin Listed
  BY <1>1, <1>3, DistinctPasses DEF Paid
<1>. QED  BY <1>2, <1>3

-----------------------------------------------------------------------------
(* What Deposit quotes                                                     *)

LEMMA AffordableQuote == TypeOK => DepositIsAffordable
<1>. SUFFICES ASSUME TypeOK, SlotsDistinct, supply > 0,
                     NEW u \in Users, NEW ask \in Amounts,
                     NEW eff \in DepositLimits(u, ask),
                     IsLeast(eff, DepositLimits(u, ask)), NEW m \in Mints
              PROVE  Paid(eff, m) <= wallet[u][m]
  BY DEF DepositIsAffordable
<1>1. eff \in Nat
  BY DepositLimitsType DEF Amounts
<1>2. wallet[u][m] \in Nat /\ poolBal[m] \in Nat /\ supply \in Nat \ {0}
  BY DEF TypeOK, Holders
<1>3. CASE m \in Listed
  <2>1. eff <= Affordable(wallet[u][m], supply, poolBal[m])
    BY <1>3 DEF IsLeast, DepositLimits
  <2>2. DepositAmount(eff, poolBal[m], supply) \in 0 .. wallet[u][m]
    BY <1>1, <1>2, <2>1, AffordableIsPayable
  <2>. QED  BY <1>1, <1>2, <1>3, <2>2, DistinctPaid
<1>4. CASE m \notin Listed
  BY <1>1, <1>2, <1>4, DistinctPaid
<1>. QED  BY <1>3, <1>4

(* No deposit fails half way: what the limits of Deposit allow is payable  *)
(* from every source account, the truncation to u64 included.              *)
THEOREM DepositsAreAffordable == Spec => []DepositIsAffordable
  BY TypeCorrect, AffordableQuote, PTL

LEMMA RoundTripQuote == TypeOK => RoundTripNeverEarns
<1>. SUFFICES ASSUME TypeOK, SlotsDistinct, supply > 0,
                     NEW u \in Users, NEW ask \in Amounts,
                     NEW eff \in DepositLimits(u, ask), NEW m \in Listed
              PROVE  RedeemAmount(eff, poolBal[m] + Paid(eff, m), supply + eff)
                       <= Paid(eff, m)
  BY DEF RoundTripNeverEarns
<1>1. eff \in Nat /\ m \in Mints
  BY DepositLimitsType DEF Amounts, Listed
<1>2. poolBal[m] \in Nat /\ supply \in Nat \ {0}
  BY <1>1 DEF TypeOK
<1>3. Paid(eff, m) = DepositAmount(eff, poolBal[m], supply)
  BY <1>1, DistinctPaid
<1>. QED  BY <1>1, <1>2, <1>3, RoundTrip

\* Nobody earns by entering and leaving at once, whatever is rounded.
THEOREM RoundTripsNeverEarn == Spec => []RoundTripNeverEarns
  BY TypeCorrect, RoundTripQuote, PTL

-----------------------------------------------------------------------------
(* What a step may do                                                      *)

(* The steps of a created pool: Create and Init are over, and the other    *)
(* steps of the environment leave header, slots and supply alone.          *)
LEMMA StepsOfLivePool ==
    ASSUME IInv, Next, status \in Initialized
    PROVE  \/ \E u \in Users, ask \in Asks : Deposit(u, ask)
           \/ \E h \in Holders, k \in Redemptions : Redeem(h, k)
           \/ CollectFees
           \/ \E h \in Holders, k \in Burns : BurnTokens(h, k)
           \/ /\ UNCHANGED <<status, lastFee, slots, supply>>
              /\ \A m \in Mints : poolBal'[m] >= poolBal[m]
<1>0. TypeOK /\ \A m \in Mints : poolBal[m] \in Nat
  BY DEF IInv, TypeOK
<1>1. ASSUME NEW size \in Spaces, InitPool(size) PROVE FALSE
  BY <1>1 DEF InitPool, Initialized
<1>2. ASSUME CreateAny PROVE FALSE
  BY <1>2 DEF CreateAny, Create, MayCreate, Initialized
<1>3. ASSUME NEW h \in Holders, OpenTokenAccount(h)
      PROVE  UNCHANGED <<status, lastFee, slots, supply, poolBal>>
  BY <1>3 DEF OpenTokenAccount, header
<1>4. ASSUME NEW u \in Users, NEW m \in Mints, NEW a \in Gifts, Gift(u, m, a)
      PROVE  /\ UNCHANGED <<status, lastFee, slots, supply>>
             /\ \A n \in Mints : poolBal'[n] >= poolBal[n]
  <2>1. a \in Nat
    BY PoolAssumption
  <2>2. /\ UNCHANGED <<status, lastFee, slots, supply>>
        /\ poolBal' = [poolBal EXCEPT ![m] = @ + a]
    BY <1>4 DEF Gift, header
  <2>. QED  BY <1>0, <2>1, <2>2 DEF TypeOK
<1>5. ASSUME Tick PROVE UNCHANGED <<status, lastFee, slots, supply, poolBal>>
  BY <1>5 DEF Tick, header
<1>. QED  BY <1>0, <1>1, <1>2, <1>3, <1>4, <1>5 DEF Next

\* What a redemption leaves in the pool, an asset at a time.
LEMMA RedeemLeaves ==
    ASSUME TypeOK, supply > 0, NEW h \in Holders, NEW k \in Redemptions,
           Redeem(h, k), NEW m \in Mints
    PROVE  /\ k \in Nat /\ k <= supply /\ supply' = supply - k
           /\ poolBal'[m] = LeftAfter(k, poolBal[m], supply, Passes(m))
<1>1. /\ k \in Nat /\ k <= supply /\ supply' = supply - k
      /\ poolBal' = [n \in Mints |-> poolBal[n] - PaidOut(k, n)]
  BY PoolAssumption DEF Redeem
<1>2. poolBal[m] \in Nat /\ supply \in Nat \ {0} /\ Passes(m) \in Nat
  BY PassesType DEF TypeOK
<1>3. LeftAfter(k, poolBal[m], supply, Passes(m)) \in Nat
  BY <1>1, <1>2, LeftAfterType
<1>. QED  BY <1>1, <1>2, <1>3 DEF PaidOut

LEMMA StayersStep ==
    ASSUME IInv, Next, Redeems, SlotsDistinct, NEW m \in Mints
    PROVE  poolBal'[m] * supply >= poolBal[m] * supply'
<1>0. /\ TypeOK /\ status \in Initialized /\ supply' < supply
      /\ poolBal[m] \in Nat /\ supply \in Nat
  BY DEF IInv, Redeems, TypeOK
<1>1. CASE \E u \in Users, ask \in Asks : Deposit(u, ask)
  <2>1. PICK u \in Users, ask \in Asks : Deposit(u, ask)
    BY <1>1
  <2>2. PICK eff \in DepositLimits(u, ask) : supply' = supply + eff
    BY <2>1 DEF Deposit, BuyIn
  <2>3. eff \in Nat
    BY <1>0, DepositLimitsType, PoolAssumption DEF Amounts
  <2>. QED  BY <1>0, <2>2, <2>3
<1>2. CASE \E h \in Holders, k \in Redemptions : Redeem(h, k)
  <2>1. PICK h \in Holders, k \in Redemptions : Redeem(h, k)
    BY <1>2
  <2>2. supply > 0 /\ supply \in Nat \ {0}
    <3>1. k \in Nat /\ supply' = supply - k /\ k <= supply
      BY <2>1, PoolAssumption DEF Redeem
    <3>. QED  BY <1>0, <3>1
  <2>3. /\ k \in Nat /\ k <= supply /\ supply' = supply - k
        /\ poolBal'[m] = LeftAfter(k, poolBal[m], supply, Passes(m))
    BY <1>0, <2>1, <2>2, RedeemLeaves
  <2>4. CASE m \in Listed
    <3>1. poolBal'[m] = poolBal[m] - RedeemAmount(k, poolBal[m], supply)
      BY <1>0, <2>2, <2>3, <2>4, DistinctPasses, LeftAfterOnePass
    <3>. QED  BY <1>0, <2>2, <2>3, <3>1, RedeemKeepsBacking
  <2>5. CASE m \notin Listed
    <3>1. poolBal'[m] = poolBal[m]
      BY <1>0, <2>2, <2>3, <2>5, DistinctPasses, LeftAfterRec
    <3>. QED  BY <1>0, <2>2, <2>3, <3>1, SMT
  <2>. QED  BY <2>4, <2>5
<1>3. CASE CollectFees
  <2>1. PICK f \in 1 .. Scale - 1 : supply' = supply + FeeTokens(f, supply)
    BY <1>3 DEF CollectFees
  <2>2. FeeTokens(f, supply) \in Nat
    BY <1>0, FeeTokensType, MathAssumption
  <2>. QED  BY <1>0, <2>1, <2>2
<1>4. CASE \E h \in Holders, k \in Burns : BurnTokens(h, k)
  <2>1. PICK h \in Holders, k \in Burns : BurnTokens(h, k)
    BY <1>4
  <2>2. k \in Nat /\ k <= supply /\ supply' = supply - k /\ poolBal' = poolBal
    BY <2>1, PoolAssumption DEF BurnTokens
  <2>. QED  BY <1>0, <2>2, SMT
<1>. QED  BY <1>0, <1>1, <1>2, <1>3, <1>4, StepsOfLivePool

(* Whoever redeems leaves the others at least as well backed as before, in *)
(* every asset of a list without repetition.                               *)
THEOREM StayersAreNotDiluted == Spec => StayersNotDiluted
<1>1. IInv /\ [Next]_vars =>
        [Redeems /\ SlotsDistinct =>
           \A m \in Mints : poolBal'[m] * supply >= poolBal[m] * supply']_vars
  BY StayersStep
<1>. QED  BY <1>1, InvariantHolds, PTL DEF Spec, StayersNotDiluted

\* Pool tokens appear, with the fee clock at rest, in a deposit only.
LEMMA BuysInIsDeposit ==
    ASSUME IInv, Next, BuysIn
    PROVE  \E u \in Users, ask \in Asks : Deposit(u, ask)
<1>0. /\ TypeOK /\ FeeClockNotAhead /\ status \in Initialized /\ supply \in Nat
      /\ supply' > supply /\ lastFee' = lastFee /\ lastFee \in Nat
  BY DEF IInv, BuysIn, TypeOK
<1>1. ASSUME CollectFees PROVE FALSE
  BY <1>0, <1>1, CollectFeesClock
<1>2. ASSUME NEW h \in Holders, NEW k \in Redemptions, Redeem(h, k) PROVE FALSE
  <2>1. k \in Nat /\ supply' = supply - k
    BY <1>2, PoolAssumption DEF Redeem
  <2>. QED  BY <1>0, <2>1
<1>3. ASSUME NEW h \in Holders, NEW k \in Burns, BurnTokens(h, k) PROVE FALSE
  <2>1. k \in Nat /\ supply' = supply - k
    BY <1>3, PoolAssumption DEF BurnTokens
  <2>. QED  BY <1>0, <2>1
<1>. QED  BY <1>0, <1>1, <1>2, <1>3, StepsOfLivePool

\* A deposit of the client's, with the accounts it opens, as well.
LEMMA BuyInEntry ==
    ASSUME IInv, NEW u \in Users, NEW ask \in Asks, NEW accounts,
           BuyIn(u, ask, accounts), SlotsDistinct, NEW m \in Listed
    PROVE  (poolBal'[m] + 1) * supply > poolBal[m] * supply'
<1>1. PICK eff \in DepositLimits(u, ask) :
        /\ supply' = supply + eff
        /\ poolBal' = [n \in Mints |-> poolBal[n] + Paid(eff, n)]
  BY DEF BuyIn
<1>2. TypeOK /\ eff \in Nat /\ m \in Mints
  BY DepositLimitsType, PoolAssumption DEF IInv, Amounts, Listed
<1>3. poolBal[m] \in Nat /\ supply \in Nat \ {0}
  BY <1>2 DEF TypeOK, BuyIn
<1>4. Paid(eff, m) = DepositAmount(eff, poolBal[m], supply)
  BY <1>2, <1>3, DistinctPaid
<1>5. poolBal'[m] = poolBal[m] + DepositAmount(eff, poolBal[m], supply)
  BY <1>1, <1>2, <1>4
<1>. QED  BY <1>1, <1>2, <1>3, <1>5, DepositKeepsBackingButOne

LEMMA EntryStep ==
    ASSUME IInv, Next, BuysIn, SlotsDistinct, NEW m \in Listed
    PROVE  (poolBal'[m] + 1) * supply > poolBal[m] * supply'
BY BuysInIsDeposit, BuyInEntry DEF Deposit

\* A deposit costs the others less than one unit of each listed asset.
THEOREM EntryDilutesLittle == Spec => EntryDilutesByLessThanOne
<1>1. IInv /\ [Next]_vars =>
        [BuysIn /\ SlotsDistinct =>
           \A m \in Listed : (poolBal'[m] + 1) * supply > poolBal[m] * supply']_vars
  BY EntryStep
<1>. QED  BY <1>1, InvariantHolds, PTL DEF Spec, EntryDilutesByLessThanOne

LEMMA BuyInCosts ==
    ASSUME IInv, NEW u \in Users, NEW ask \in Asks, NEW accounts,
           BuyIn(u, ask, accounts)
    PROVE  \E m \in Mints : poolBal'[m] > poolBal[m]
<1>1. PICK eff \in DepositLimits(u, ask) :
        /\ ~MovesNothing(eff)
        /\ poolBal' = [n \in Mints |-> poolBal[n] + Paid(eff, n)]
  BY DEF BuyIn
<1>2. PICK m \in Listed : DepositAmount(eff, poolBal[m], supply) # 0
  BY <1>1 DEF MovesNothing
<1>3. TypeOK /\ m \in Mints /\ eff \in Nat
  BY DepositLimitsType, PoolAssumption DEF IInv, Amounts, Listed
<1>4. poolBal[m] \in Nat /\ supply \in Nat \ {0}
  BY <1>3 DEF TypeOK, BuyIn
<1>5. DepositAmount(eff, poolBal[m], supply) \in Nat
  BY <1>3, <1>4, DepositAmountType
<1>6. Passes(m) \in Nat /\ Passes(m) # 0
  BY <1>3, PassesType
<1>7. Paid(eff, m) > 0
  <2>. DEFINE d == DepositAmount(eff, poolBal[m], supply)
  <2>1. d \in Nat \ {0} /\ Passes(m) \in Nat \ {0}
    BY <1>2, <1>5, <1>6
  <2>. HIDE DEF d
  <2>2. Passes(m) * d > 0
    BY <2>1, SMT
  <2>. QED  BY <2>2 DEF Paid, d
<1>8. Paid(eff, m) \in Nat
  BY <1>5, <1>6 DEF Paid
<1>. QED  BY <1>1, <1>3, <1>4, <1>7, <1>8

LEMMA NoFreeTokensStep ==
    ASSUME IInv, Next, BuysIn
    PROVE  \E m \in Mints : poolBal'[m] > poolBal[m]
BY BuysInIsDeposit, BuyInCosts DEF Deposit

\* Every purchase of pool tokens moves some asset into the pool.
THEOREM TokensAreNeverFree == Spec => NoFreeTokens
<1>1. IInv /\ [Next]_vars =>
        [BuysIn => \E m \in Mints : poolBal'[m] > poolBal[m]]_vars
  BY NoFreeTokensStep
<1>. QED  BY <1>1, InvariantHolds, PTL DEF Spec, NoFreeTokens

\* The fee clock of a live pool is moved by collections only.
LEMMA CollectsIsCollectFees ==
    ASSUME IInv, Next, Collects
    PROVE  CollectFees
<1>1. ASSUME NEW u \in Users, NEW ask \in Asks, Deposit(u, ask)
      PROVE  lastFee' = lastFee
  BY <1>1 DEF Deposit, BuyIn, header
<1>2. ASSUME NEW h \in Holders, NEW k \in Redemptions, Redeem(h, k)
      PROVE  lastFee' = lastFee
  BY <1>2 DEF Redeem
<1>3. ASSUME NEW h \in Holders, NEW k \in Burns, BurnTokens(h, k)
      PROVE  lastFee' = lastFee
  BY <1>3 DEF BurnTokens, header
<1>. QED  BY <1>1, <1>2, <1>3, StepsOfLivePool DEF Collects

(* After one collection, however late, the fees are no longer overdue and  *)
(* Redeem is open again.                                                   *)
THEOREM OneCollectionIsEnough == Spec => OneCollectionSuffices
<1>1. ASSUME IInv, Next, Collects
      PROVE  lastFee' <= now /\ now - lastFee' < period
  BY <1>1, CollectsIsCollectFees, CollectFeesClock DEF IInv
<1>2. IInv /\ [Next]_vars =>
        [Collects => lastFee' <= now /\ now - lastFee' < period]_vars
  BY <1>1
<1>. QED  BY <1>2, InvariantHolds, PTL DEF Spec, OneCollectionSuffices

LEMMA CollectionStep ==
    ASSUME IInv, Next, Collects
    PROVE  supply * (Scale - 1) >=
             supply' * FeelessRatio(feeRatio, FeeCycles(now, lastFee, period))
<1>1. CollectFees
  BY CollectsIsCollectFees
<1>2. PICK f \in 1 .. Scale - 1 :
        /\ f = FeelessRatio(feeRatio, FeeCycles(now, lastFee, period))
        /\ supply' = supply + FeeTokens(f, supply)
  BY <1>1 DEF CollectFees
<1>3. supply \in Nat
  BY DEF IInv, TypeOK
<1>. QED  BY <1>2, <1>3, FeeTokensBound

\* A collection leaves the old supply the share that the fee leaves it.
THEOREM CollectionIsBounded == Spec => CollectionTakesAtMostTheFee
<1>1. IInv /\ [Next]_vars =>
        [Collects =>
           LET feeless == FeelessRatio(feeRatio, FeeCycles(now, lastFee, period))
           IN  supply * (Scale - 1) >= supply' * feeless]_vars
  BY CollectionStep
<1>. QED  BY <1>1, InvariantHolds, PTL DEF Spec, CollectionTakesAtMostTheFee

LEMMA RetirementStep ==
    ASSUME IInv, Next, IsRetired
    PROVE  supply' = 0 /\ \A m \in Listed : poolBal'[m] = 0
<1>0. /\ TypeOK /\ supply \in Nat /\ status \in Initialized
      /\ status' = "Uninitialized"
  BY DEF IInv, TypeOK, IsRetired
<1>1. status' # status
  BY <1>0 DEF Initialized
<1>2. PICK h \in Holders, k \in Redemptions : Redeem(h, k)
  <2>1. ASSUME NEW u \in Users, NEW ask \in Asks, Deposit(u, ask) PROVE FALSE
    BY <1>1, <2>1 DEF Deposit, BuyIn, header
  <2>2. ASSUME CollectFees PROVE FALSE
    BY <1>1, <2>2 DEF CollectFees
  <2>3. ASSUME NEW h \in Holders, NEW k \in Burns, BurnTokens(h, k) PROVE FALSE
    BY <1>1, <2>3 DEF BurnTokens, header
  <2>. QED  BY <1>0, <1>1, <2>1, <2>2, <2>3, StepsOfLivePool
<1>3. k = supply
  BY <1>1, <1>2 DEF Redeem, Retires
<1>4. ASSUME NEW m \in Listed PROVE poolBal'[m] = 0
  <2>1. m \in Mints /\ Passes(m) \in Nat \ {0}
    BY <1>0, PassesType DEF Listed
  <2>2. poolBal[m] \in Nat /\ supply \in Nat \ {0}
    BY <1>0, <1>2, <2>1 DEF TypeOK, Redeem
  <2>3. poolBal'[m] = LeftAfter(supply, poolBal[m], supply, Passes(m))
    BY <1>0, <1>2, <1>3, <2>1, <2>2, RedeemLeaves
  <2>. QED  BY <1>0, <2>1, <2>2, <2>3, LeftAfterEverything
<1>5. supply' = 0
  BY <1>0, <1>2, <1>3 DEF Redeem
<1>. QED  BY <1>4, <1>5

(* Retiring a pool pays its listed assets out to the last unit, also when  *)
(* the list repeats a mint.                                                *)
THEOREM RetirementIsComplete == Spec => RetirementLeavesNothing
<1>1. IInv /\ [Next]_vars =>
        [IsRetired => supply' = 0 /\ (\A m \in Listed : poolBal'[m] = 0)]_vars
  BY RetirementStep
<1>. QED  BY <1>1, InvariantHolds, PTL DEF Spec, RetirementLeavesNothing

LEMMA DrainedStep ==
    ASSUME IInv, Next, IsDrained
    PROVE  /\ status' = status /\ supply' = 0 /\ slots' = slots
           /\ \A m \in Mints : poolBal'[m] >= poolBal[m]
<1>0. /\ TypeOK /\ status \in Initialized /\ supply = 0 /\ Listed # {}
      /\ \A m \in Mints : poolBal[m] \in Nat
  BY DEF IInv, IsDrained, TypeOK
<1>1. ASSUME NEW u \in Users, NEW ask \in Asks, Deposit(u, ask) PROVE FALSE
  BY <1>0, <1>1 DEF Deposit, BuyIn
<1>2. ASSUME NEW h \in Holders, NEW k \in Redemptions, Redeem(h, k) PROVE FALSE
  BY <1>0, <1>2 DEF Redeem
<1>3. ASSUME CollectFees
      PROVE  supply' = 0 /\ UNCHANGED <<status, slots, poolBal>>
  <2>1. PICK f \in 1 .. Scale - 1 : supply' = supply + FeeTokens(f, supply)
    BY <1>3 DEF CollectFees
  <2>2. FeeTokens(f, 0) = 0
    <3>1. f \in Nat \ {0} /\ Not16(f) \in Int
      BY MathAssumption DEF Not16
    <3>2. Not16(f) * 0 = 0 /\ 0 \div f = 0 /\ 0 % U64 = 0
      BY <3>1, MathAssumption, SMT
    <3>. QED  BY <3>2 DEF FeeTokens
  <2>. QED  BY <1>0, <1>3, <2>1, <2>2 DEF CollectFees
<1>4. ASSUME NEW h \in Holders, NEW k \in Burns, BurnTokens(h, k)
      PROVE  supply' = 0 /\ UNCHANGED <<status, slots, poolBal>>
  <2>1. k \in Nat /\ k <= 0 /\ supply' = 0 - k
    BY <1>0, <1>4, PoolAssumption DEF BurnTokens
  <2>. QED  BY <1>4, <2>1 DEF BurnTokens, header
<1>. QED  BY <1>0, <1>1, <1>2, <1>3, <1>4, StepsOfLivePool

(* A created pool whose last pool tokens were burnt outside the program    *)
(* can never be entered, left, retired or created again.                   *)
THEOREM DrainedIsForever == Spec => DrainedPoolIsStuck
<1>1. IInv /\ [Next]_vars =>
        [IsDrained =>
           /\ status' = status /\ supply' = 0 /\ slots' = slots
           /\ \A m \in Mints : poolBal'[m] >= poolBal[m]]_vars
  BY DrainedStep
<1>. QED  BY <1>1, InvariantHolds, PTL DEF Spec, DrainedPoolIsStuck

-----------------------------------------------------------------------------
(* The supply of the pool's mint is what the holders have, for every       *)
(* number of them and every way that their roles coincide.                 *)

\* SupplyIsHeld, with the sum as the lemmas on sums have it.
Held == supply = SumOver(tokens, Holders)

LEMMA HeldIsSupplyIsHeld == Held <=> SupplyIsHeld
<1>1. MapThenSumSet(LAMBDA h : tokens[h], Holders) = SumOver(tokens, Holders)
  BY DEF MapThenSumSet, MapThenFoldSet, SumOver, Table, IsTable, Picked
<1> QED
  BY <1>1 DEF Held, SupplyIsHeld

LEMMA HoldersFinite == IsFiniteSet(Holders) /\ Bonfida \in Holders /\ BuyBurn \in Holders
<1>1. IsFiniteSet(Users)
  BY PoolAssumption
<1>2. IsFiniteSet({Bonfida, BuyBurn})
  <2>1. IsFiniteSet({Bonfida}) /\ IsFiniteSet({BuyBurn})
    BY FS_Singleton
  <2>2. {Bonfida, BuyBurn} = {Bonfida} \cup {BuyBurn}
    OBVIOUS
  <2> QED
    BY <2>1, <2>2, FS_Union
<1> QED
  BY <1>1, <1>2, FS_Union DEF Holders

\* One holder's tokens change by v, and the sum by v.
LEMMA OneHolderChanges ==
    ASSUME NEW t \in [Holders -> Int], NEW s \in [Holders -> Int],
           NEW p \in Holders, NEW v \in Int,
           \A h \in Holders : s[h] = IF h = p THEN t[h] + v ELSE t[h]
    PROVE  SumOver(s, Holders) = SumOver(t, Holders) + v
BY HoldersFinite, SumOverChange

(* A fee is minted whole: its three parts, to whomever they go, add up.    *)
LEMMA FeeIsMinted ==
    ASSUME TypeOK, status \in Initialized, NEW fee \in Nat,
           NEW s \in [Holders -> Int],
           \A h \in Holders : s[h] = tokens[h] + FeeFor(h, fee)
    PROVE  SumOver(s, Holders) = SumOver(tokens, Holders) + fee
<1> DEFINE a == ProviderShare(fee)  b == BonfidaShare(fee)  c == BuyBurnShare(fee)
           s1 == [h \in Holders |-> IF h = provider THEN tokens[h] + a ELSE tokens[h]]
           s2 == [h \in Holders |-> IF h = Bonfida THEN s1[h] + b ELSE s1[h]]
           s3 == [h \in Holders |-> IF h = BuyBurn THEN s2[h] + c ELSE s2[h]]
<1>1. a \in Int /\ b \in Int /\ c \in Int /\ a + b + c = fee
  BY DEF ProviderShare, BonfidaShare, BuyBurnShare
<1>2. /\ provider \in Holders /\ Bonfida \in Holders /\ BuyBurn \in Holders
      /\ tokens \in [Holders -> Int]
  BY HoldersFinite DEF TypeOK, Holders
<1> HIDE DEF a, b, c
<1>4. s1 \in [Holders -> Int] /\ s2 \in [Holders -> Int] /\ s3 \in [Holders -> Int]
  BY <1>1, <1>2
<1>5. SumOver(s1, Holders) = SumOver(tokens, Holders) + a
  <2>1. \A h \in Holders : s1[h] = IF h = provider THEN tokens[h] + a ELSE tokens[h]
    OBVIOUS
  <2> HIDE DEF s1
  <2> QED
    BY <1>1, <1>2, <1>4, <2>1, OneHolderChanges
<1>6. SumOver(s2, Holders) = SumOver(s1, Holders) + b
  <2>1. \A h \in Holders : s2[h] = IF h = Bonfida THEN s1[h] + b ELSE s1[h]
    OBVIOUS
  <2> HIDE DEF s1, s2
  <2> QED
    BY <1>1, <1>2, <1>4, <2>1, OneHolderChanges
<1>7. SumOver(s3, Holders) = SumOver(s2, Holders) + c
  <2>1. \A h \in Holders : s3[h] = IF h = BuyBurn THEN s2[h] + c ELSE s2[h]
    OBVIOUS
  <2> HIDE DEF s2, s3
  <2> QED
    BY <1>1, <1>2, <1>4, <2>1, OneHolderChanges
<1>8. s3 = s
  <2>1. \A h \in Holders : s3[h] = s[h]
    BY <1>1, <1>2 DEF FeeFor, a, b, c
  <2> HIDE DEF s3
  <2> QED
    BY <1>4, <2>1
<1>9. SumOver(tokens, Holders) \in Int
  BY <1>2, HoldersFinite, SumOverType
<1> HIDE DEF s1, s2, s3
<1> QED
  BY <1>1, <1>5, <1>6, <1>7, <1>8, <1>9

-----------------------------------------------------------------------------
(* The steps                                                               *)

LEMMA InitHeld == Init => Held
<1> SUFFICES ASSUME Init PROVE Held
  OBVIOUS
<1>1. tokens \in [Holders -> Int] /\ \A h \in Holders : tokens[h] = 0
  BY DEF Init
<1>2. \A h \in Holders : tokens[h] = IF h = Bonfida THEN 0 ELSE 0
  BY <1>1
<1>3. SumOver(tokens, Holders) = 0
  BY <1>1, <1>2, HoldersFinite, SumOverOne
<1> QED
  BY <1>3 DEF Held, Init

\* The holder of a redemption or a burn loses what the supply loses.
LEMMA OneHolderLoses ==
    ASSUME NEW t \in [Holders -> Int], NEW s \in [Holders -> Int],
           NEW p \in Holders, NEW v \in Int,
           \A h \in Holders : s[h] = IF h = p THEN t[h] - v ELSE t[h]
    PROVE  SumOver(s, Holders) = SumOver(t, Holders) - v
<1>1. \A h \in Holders : t[h] = IF h = p THEN s[h] + v ELSE s[h]
  OBVIOUS
<1>2. SumOver(t, Holders) = SumOver(s, Holders) + v
  BY <1>1, OneHolderChanges
<1>3. SumOver(t, Holders) \in Int /\ SumOver(s, Holders) \in Int
  BY HoldersFinite, SumOverType
<1> QED
  BY <1>2, <1>3

LEMMA GivesBackHeld ==
    ASSUME TypeOK, Held, NEW h \in Holders, NEW k \in Nat,
           supply' = supply - k, tokens' = [tokens EXCEPT ![h] = @ - k]
    PROVE  Held'
<1>1. /\ tokens \in [Holders -> Int] /\ tokens' \in [Holders -> Int] /\ k \in Int
      /\ \A g \in Holders : tokens'[g] = IF g = h THEN tokens[g] - k ELSE tokens[g]
  BY DEF TypeOK
<1>2. ASSUME NEW s \in [Holders -> Int],
             \A g \in Holders : s[g] = IF g = h THEN tokens[g] - k ELSE tokens[g]
      PROVE  SumOver(s, Holders) = SumOver(tokens, Holders) - k
  BY <1>1, <1>2, OneHolderLoses
<1>3. SumOver(tokens', Holders) = SumOver(tokens, Holders) - k
  BY <1>1, <1>2
<1> QED
  BY <1>3 DEF Held

LEMMA CreateHeld ==
    ASSUME TypeOK, Held, CreateAny
    PROVE  Held'
<1>1. PICK u \in Users : /\ supply' = supply + InitialTokens
                         /\ tokens' = [tokens EXCEPT ![u] = @ + InitialTokens]
  BY DEF CreateAny, Create
<1>2. u \in Holders /\ InitialTokens \in Int
  BY PoolAssumption DEF Holders
<1>3. /\ tokens \in [Holders -> Int] /\ tokens' \in [Holders -> Int]
      /\ \A g \in Holders :
           tokens'[g] = IF g = u THEN tokens[g] + InitialTokens ELSE tokens[g]
  BY <1>1, <1>2 DEF TypeOK
<1>4. SumOver(tokens', Holders) = SumOver(tokens, Holders) + InitialTokens
  BY <1>2, <1>3, OneHolderChanges
<1> QED
  BY <1>1, <1>4 DEF Held

(* A deposit mints the fee, and the rest to the depositor.                 *)
LEMMA BuyInHeld ==
    ASSUME TypeOK, Held, NEW u \in Users, NEW ask \in Asks, NEW accounts,
           BuyIn(u, ask, accounts)
    PROVE  Held'
<1>1. PICK eff \in DepositLimits(u, ask) :
        /\ supply' = supply + eff
        /\ tokens' = [h \in Holders |->
             tokens[h] + FeeFor(h, DepositFee(feeRatio, eff))
                       + (IF h = u THEN eff - DepositFee(feeRatio, eff) ELSE 0)]
  BY DEF BuyIn
<1> DEFINE fee == DepositFee(feeRatio, eff)
           s == [h \in Holders |-> tokens[h] + FeeFor(h, fee)]
<1>2. eff \in Nat /\ u \in Holders
  BY DepositLimitsType, PoolAssumption DEF Amounts, Holders
<1>3. fee \in 0 .. eff
  BY <1>2, DepositFeeBound DEF TypeOK
<1>4. status \in Initialized
  BY DEF BuyIn
<1>5. \A h \in Holders : FeeFor(h, fee) \in Nat
  BY <1>3, FeeForType
<1>6. /\ tokens \in [Holders -> Nat]
      /\ tokens' = [h \in Holders |-> s[h] + (IF h = u THEN eff - fee ELSE 0)]
  BY <1>1 DEF TypeOK
<1> HIDE DEF fee
<1>7. s \in [Holders -> Int] /\ tokens' \in [Holders -> Int]
  BY <1>2, <1>3, <1>5, <1>6
<1>8. SumOver(s, Holders) = SumOver(tokens, Holders) + fee
  BY <1>3, <1>4, <1>7, FeeIsMinted
<1>9. \A h \in Holders : tokens'[h] = IF h = u THEN s[h] + (eff - fee) ELSE s[h]
  BY <1>2, <1>3, <1>6, <1>7
<1>10. SumOver(tokens', Holders) = SumOver(s, Holders) + (eff - fee)
  <2> HIDE DEF s
  <2> QED
    BY <1>2, <1>3, <1>7, <1>9, OneHolderChanges
<1>11. SumOver(tokens, Holders) \in Int
  BY <1>6, HoldersFinite, SumOverType
<1> HIDE DEF s
<1> QED
  BY <1>1, <1>2, <1>3, <1>8, <1>10, <1>11 DEF Held

LEMMA CollectFeesHeld ==
    ASSUME TypeOK, Held, CollectFees
    PROVE  Held'
<1>1. PICK feeless \in 1 .. Scale - 1 :
        /\ supply' = supply + FeeTokens(feeless, supply)
        /\ tokens' = [h \in Holders |->
             tokens[h] + FeeFor(h, FeeTokens(feeless, supply))]
  BY DEF CollectFees
<1> DEFINE fee == FeeTokens(feeless, supply)
<1>2. fee \in Nat
  BY FeeTokensType DEF TypeOK
<1>3. \A h \in Holders : FeeFor(h, fee) \in Nat
  BY <1>2, FeeForType
<1>4. status \in Initialized
  BY DEF CollectFees
<1> HIDE DEF fee
<1>5. /\ tokens' \in [Holders -> Int]
      /\ \A h \in Holders : tokens'[h] = tokens[h] + FeeFor(h, fee)
  BY <1>1, <1>3 DEF TypeOK, fee
<1>6. SumOver(tokens', Holders) = SumOver(tokens, Holders) + fee
  BY <1>2, <1>4, <1>5, FeeIsMinted
<1> QED
  BY <1>1, <1>6 DEF Held, fee

LEMMA NextHeld == TypeOK /\ Held /\ [Next]_vars => Held'
<1> SUFFICES ASSUME TypeOK, Held, [Next]_vars PROVE Held'
  OBVIOUS
<1>1. ASSUME supply' = supply, tokens' = tokens PROVE Held'
  BY <1>1 DEF Held
<1>2. ASSUME NEW size \in Spaces, InitPool(size) PROVE Held'
  BY <1>1, <1>2 DEF InitPool
<1>3. ASSUME CreateAny PROVE Held'
  BY <1>3, CreateHeld
<1>4. ASSUME NEW u \in Users, NEW ask \in Asks, Deposit(u, ask) PROVE Held'
  BY <1>4, BuyInHeld DEF Deposit
<1>5. ASSUME NEW h \in Holders, NEW k \in Redemptions, Redeem(h, k) PROVE Held'
  <2>1. k \in Nat
    BY PoolAssumption
  <2> QED
    BY <1>5, <2>1, GivesBackHeld DEF Redeem
<1>6. ASSUME CollectFees PROVE Held'
  BY <1>6, CollectFeesHeld
<1>7. ASSUME NEW h \in Holders, OpenTokenAccount(h) PROVE Held'
  BY <1>1, <1>7 DEF OpenTokenAccount
<1>8. ASSUME NEW u \in Users, NEW m \in Mints, NEW a \in Gifts, Gift(u, m, a)
      PROVE  Held'
  BY <1>1, <1>8 DEF Gift
<1>9. ASSUME NEW h \in Holders, NEW k \in Burns, BurnTokens(h, k) PROVE Held'
  <2>1. k \in Nat
    BY PoolAssumption
  <2> QED
    BY <1>9, <2>1, GivesBackHeld DEF BurnTokens
<1>10. ASSUME Tick PROVE Held'
  BY <1>1, <1>10 DEF Tick
<1>11. CASE UNCHANGED vars
  BY <1>1, <1>11 DEF vars
<1> QED
  BY <1>2, <1>3, <1>4, <1>5, <1>6, <1>7, <1>8, <1>9, <1>10, <1>11 DEF Next

(* The supply of the pool's mint is what the holders have: every fee is    *)
(* minted whole, whoever receives its parts.                               *)
THEOREM SupplyStaysHeld == Spec => []SupplyIsHeld
<1>1. Spec => []Held
  BY InitHeld, NextHeld, TypeCorrect, PTL DEF Spec
<1>2. Held => SupplyIsHeld
  BY HeldIsSupplyIsHeld
<1> QED
  BY <1>1, <1>2, PTL

-----------------------------------------------------------------------------
(* The pool is a ledger of shares                                          *)

LEMMA IssuedIsSupply ==
    ASSUME Held, Held'
    PROVE  Shares!Issued = supply /\ Shares!Issued' = supply'
<1>. USE DEF Shares!Issued, Shares!MapThenSumSet, Shares!MapThenFoldSet
<1>1. Shares!Issued = SumOver(tokens, Holders)
  BY DEF SumOver, Table, IsTable, Picked
<1>2. Shares!Issued' = SumOver(tokens', Holders)
  BY DEF SumOver, Table, IsTable, Picked
<1> QED
  BY <1>1, <1>2 DEF Held

\* What a list contributes, as the lemmas on sums have it.
LEMMA ContributedIsSum ==
    ASSUME NEW list, NEW m, NEW S, S = {i \in DOMAIN list : list[i].mint = m}
    PROVE  Contributed(list, m) = SumOver([i \in S |-> list[i].amount], S)
<1> DEFINE f == [i \in S |-> list[i].amount]
           A(g) == [T \in SUBSET S |->
                      IF T = {} THEN 0 ELSE list[Picked(T)].amount + g[T \ {Picked(T)}]]
           B(g) == [T \in SUBSET S |->
                      IF T = {} THEN 0 ELSE f[Picked(T)] + g[T \ {Picked(T)}]]
<1>1. ASSUME NEW g PROVE A(g) = B(g)
  <2>1. ASSUME NEW T \in SUBSET S, T # {} PROVE f[Picked(T)] = list[Picked(T)].amount
    <3>1. Picked(T) \in T
      BY <2>1 DEF Picked
    <3>2. Picked(T) \in S
      BY <3>1
    <3> QED
      BY <3>2
  <2> HIDE DEF f
  <2> QED
    BY <2>1
<1>2. Contributed(list, m) = (CHOOSE t : t = A(t))[S]
  BY DEF Contributed, MapThenSumSet, MapThenFoldSet, Picked
<1>3. SumOver(f, S) = (CHOOSE t : t = B(t))[S]
  BY DEF SumOver, Table, IsTable
<1> HIDE DEF A, B, f
<1>4. (CHOOSE t : t = A(t)) = (CHOOSE t : t = B(t))
  BY <1>1
<1> QED
  BY <1>2, <1>3, <1>4 DEF f

\* A list that names a mint once contributes what it names; others nothing.
LEMMA ContributedOnce ==
    ASSUME ListsDistinct, NEW list \in AssetLists, NEW m
    PROVE  Contributed(list, m) > 0 <=> \E i \in DOMAIN list : list[i].mint = m
<1> DEFINE S == {i \in DOMAIN list : list[i].mint = m}
           f == [i \in S |-> list[i].amount]
<1>1. Contributed(list, m) = SumOver(f, S)
  BY ContributedIsSum
<1>2. \A i \in DOMAIN list : list[i].amount \in Nat \ {0}
  <2>1. list \in Seq([mint : Mints, amount : Nat \ {0}])
    BY PoolAssumption DEF AssetLists0
  <2>2. ASSUME NEW i \in DOMAIN list PROVE list[i] \in [mint : Mints, amount : Nat \ {0}]
    <3>1. i \in 1 .. Len(list)
      BY <2>1
    <3> QED
      BY <2>1, <3>1, ElementType
  <2> QED
    BY <2>2
<1>3. CASE S = {}
  <2>1. IsFiniteSet(S) /\ f \in [S -> Int]
    BY <1>3, FS_EmptySet
  <2>2. SumOver(f, S) = 0
    BY <1>3, <2>1, TableSteps DEF SumOver
  <2> QED
    BY <1>1, <1>3, <2>2
<1>4. CASE S # {}
  <2>1. PICK i \in DOMAIN list : list[i].mint = m
    BY <1>4
  <2>2. S = {i}
    BY <2>1 DEF ListsDistinct
  <2>3. IsFiniteSet(S) /\ i \in S /\ list[i].amount \in Int /\ f \in [S -> Int]
        /\ \A x \in S : f[x] = IF x = i THEN list[i].amount ELSE 0
    <3>1. IsFiniteSet(S)
      BY <2>2, FS_Singleton
    <3>2. i \in S /\ list[i].amount \in Nat
      BY <1>2, <2>1
    <3>3. \A x \in S : f[x] = list[x].amount
      OBVIOUS
    <3> HIDE DEF f, S
    <3>4. \A x \in S : x = i
      BY <2>2
    <3> QED
      BY <3>1, <3>2, <3>3, <3>4 DEF f
  <2> HIDE DEF f, S
  <2>4. SumOver(f, S) = list[i].amount
    BY <2>3, SumOverOne
  <2> QED
    BY <1>1, <1>2, <2>1, <2>4
<1> QED
  BY <1>3, <1>4

\* A set whose elements are all the same has one at the most.
LEMMA AtMostOne ==
    ASSUME NEW S, \A x, y \in S : x = y
    PROVE  Cardinality(S) <= 1
<1>1. CASE S = {}
  BY <1>1, FS_EmptySet
<1>2. CASE S # {}
  <2>1. PICK x \in S : TRUE
    BY <1>2
  <2>2. S = {x}
    BY <2>1
  <2> QED
    BY <2>2, FS_Singleton
<1> QED
  BY <1>1, <1>2

\* A list written to the account lists its mints, each of them once.
LEMMA WrittenLists ==
    ASSUME NEW list \in AssetLists, NEW size \in Nat, Len(list) <= size,
           NEW m \in Mints
    PROVE  LET w == Written(list, size)
           IN  /\ (\E i \in DOMAIN w : w[i] = m)
                    <=> (\E i \in DOMAIN list : list[i].mint = m)
               /\ ListsDistinct => Cardinality({i \in DOMAIN w : w[i] = m}) <= 1
<1> DEFINE w == Written(list, size)
<1>1. Len(list) \in Nat /\ DOMAIN list = 1 .. Len(list)
  BY PoolAssumption DEF AssetLists0
<1>2. /\ DOMAIN w = 1 .. size
      /\ \A i \in 1 .. size : w[i] = IF i <= Len(list) THEN list[i].mint ELSE NoMint
  BY DEF Written
<1> HIDE DEF w
<1>3. \A i \in DOMAIN w : w[i] = m => i \in DOMAIN list /\ list[i].mint = m
  BY <1>1, <1>2, PoolAssumption
<1>4. \A i \in DOMAIN list : i \in DOMAIN w /\ w[i] = list[i].mint
  BY <1>1, <1>2
<1>5. ASSUME ListsDistinct PROVE Cardinality({i \in DOMAIN w : w[i] = m}) <= 1
  <2>1. \A i, j \in {x \in DOMAIN w : w[x] = m} : i = j
    BY <1>3, <1>5 DEF ListsDistinct
  <2> QED
    BY <2>1, AtMostOne
<1> QED
  BY <1>3, <1>4, <1>5 DEF w

LEMMA InitDistinct == Init => SlotsDistinct
<1> SUFFICES ASSUME Init, NEW m \in Mints PROVE Passes(m) <= 1
  BY DEF SlotsDistinct
<1>1. {i \in DOMAIN slots : slots[i] = m} = {}
  BY DEF Init
<1> QED
  BY <1>1, FS_EmptySet DEF Passes

LEMMA SlotsKept ==
    ASSUME slots' = slots
    PROVE  /\ SlotsDistinct => SlotsDistinct'
           /\ Listed' = Listed
BY DEF SlotsDistinct, Passes, Listed

\* A retired account lists nothing.
LEMMA ZeroedLists ==
    ASSUME slots' = [i \in DOMAIN slots |-> NoMint]
    PROVE  SlotsDistinct' /\ Listed' = {}
<1>1. \A m \in Mints, i \in DOMAIN slots' : slots'[i] # m
  BY PoolAssumption
<1>2. ASSUME NEW m \in Mints PROVE Passes(m)' <= 1
  <2>1. {i \in DOMAIN slots' : slots'[i] = m} = {}
    BY <1>1
  <2> QED
    BY <2>1, FS_EmptySet DEF Passes
<1> QED
  BY <1>1, <1>2 DEF SlotsDistinct, Listed

LEMMA CreateLists ==
    ASSUME TypeOK, NEW u \in Users, NEW list \in AssetLists, NEW sp,
           NEW n \in MarketCounts, NEW per, NEW ratio,
           Create(u, list, sp, n, per, ratio)
    PROVE  /\ \A m \in Mints : m \in Listed' <=> \E i \in DOMAIN list : list[i].mint = m
           /\ ListsDistinct => SlotsDistinct'
<1>1. Len(list) \in Nat /\ n \in Nat /\ space \in Nat /\ n + Len(list) <= space
  BY PoolAssumption DEF AssetLists0, TypeOK, Create
<1>2. space - n \in Nat /\ Len(list) <= space - n /\ slots' = Written(list, space - n)
  BY <1>1 DEF Create
<1>3. \A m \in Mints : /\ (\E i \in DOMAIN slots' : slots'[i] = m)
                            <=> (\E i \in DOMAIN list : list[i].mint = m)
                       /\ ListsDistinct =>
                            Cardinality({i \in DOMAIN slots' : slots'[i] = m}) <= 1
  BY <1>2, WrittenLists
<1> QED
  BY <1>3 DEF Listed, SlotsDistinct, Passes

LEMMA NextDistinct ==
    ASSUME TypeOK, ListsDistinct, SlotsDistinct, [Next]_vars
    PROVE  SlotsDistinct'
<1>1. ASSUME CreateAny PROVE SlotsDistinct'
  BY <1>1, CreateLists DEF CreateAny
<1>2. ASSUME NEW h \in Holders, NEW k \in Redemptions, Redeem(h, k)
      PROVE  SlotsDistinct'
  BY <1>2, SlotsKept, ZeroedLists DEF Redeem
<1>3. ASSUME NEW u \in Users, NEW ask \in Asks, Deposit(u, ask) PROVE slots' = slots
  BY <1>3 DEF Deposit, BuyIn
<1>4. ASSUME NEW size \in Spaces, InitPool(size) PROVE slots' = slots
  BY <1>4 DEF InitPool
<1>5. CollectFees => slots' = slots
  BY DEF CollectFees
<1>6. ASSUME NEW h \in Holders, OpenTokenAccount(h) PROVE slots' = slots
  BY <1>6 DEF OpenTokenAccount
<1>7. ASSUME NEW u \in Users, NEW m \in Mints, NEW a \in Gifts, Gift(u, m, a)
      PROVE  slots' = slots
  BY <1>7 DEF Gift
<1>8. ASSUME NEW h \in Holders, NEW k \in Burns, BurnTokens(h, k) PROVE slots' = slots
  BY <1>8 DEF BurnTokens
<1>9. Tick \/ UNCHANGED vars => slots' = slots
  BY DEF Tick, vars
<1> QED
  BY <1>1, <1>2, <1>3, <1>4, <1>5, <1>6, <1>7, <1>8, <1>9, SlotsKept DEF Next

\* What the ledger says of its own formulas, it says of the pool's.
LEMMA SharesMath ==
    /\ \A r, n : Shares!FeelessRatio(r, n) = FeelessRatio(r, n)
    /\ \A r, n : Shares!DepositFee(r, n) = DepositFee(r, n)
<1>1. ASSUME NEW r, NEW n PROVE Shares!FeelessRatio(r, n) = FeelessRatio(r, n)
  BY DEF Shares!FeelessRatio, Shares!PowFixed, Shares!Not16,
         FeelessRatio, PowFixed, Not16
<1>2. ASSUME NEW r, NEW n PROVE Shares!DepositFee(r, n) = DepositFee(r, n)
  BY DEF Shares!DepositFee, DepositFee
<1> QED
  BY <1>1, <1>2

\* What a purse loses, the pool gains.
LEMMA PurseMoves ==
    ASSUME TypeOK, NEW h \in Holders, NEW p,
           wallet' = [wallet EXCEPT ![h] = p],
           \A m \in Mints : p[m] + poolBal'[m] = wallet[h][m] + poolBal[m]
    PROVE  Shares!Moves(h)
BY DEF TypeOK, Shares!Moves

LEMMA NothingMoves ==
    ASSUME UNCHANGED <<poolBal, wallet>>, NEW h \in Holders
    PROVE  Shares!Moves(h)
BY DEF Shares!Moves

LEMMA OnlyOne ==
    ASSUME TypeOK, NEW h \in Holders, NEW x, tokens' = [tokens EXCEPT ![h] = x]
    PROVE  Shares!Only(h) /\ tokens'[h] = x
BY DEF TypeOK, Shares!Only

\* A deposit pays no more than the ratio asks for.
LEMMA DepositPaysAtMost ==
    ASSUME NEW p \in Nat, NEW t \in Nat \ {0}, NEW e \in Nat
    PROVE  /\ (p + DepositAmount(e, p, t)) * t <= p * (t + e)
           /\ e = 0 => DepositAmount(e, p, t) = 0
<1> DEFINE d == (e * p) \div t
<1>1. e * p \in Nat
  OBVIOUS
<1>2. d \in Nat /\ d * t <= e * p
  BY <1>1, DivBounds
<1>3. (p + d) * t <= p * (t + e)
  <2> HIDE DEF d
  <2> QED
    BY <1>2, SMT
<1>4. e = 0 => d = 0
  <2>1. 0 * p = 0 /\ 0 \div t = 0
    OBVIOUS
  <2> QED
    BY <2>1
<1> QED
  BY <1>3, <1>4 DEF DepositAmount

\* A redemption pays the ratio less one unit at the most.
LEMMA RedeemPaysButOne ==
    ASSUME NEW k \in Nat, NEW p \in Nat, NEW t \in Nat \ {0}, k <= t
    PROVE  (p - RedeemAmount(k, p, t) - 1) * t < p * (t - k)
<1> DEFINE q == (k * p) \div t
<1>1. k * p \in Nat
  OBVIOUS
<1>2. q \in Nat /\ k * p < q * t + t
  BY <1>1, DivBounds
<1>3. (p - q - 1) * t < p * (t - k)
  <2> HIDE DEF q
  <2> QED
    BY <1>2, SMT
<1> QED
  BY <1>3 DEF RedeemAmount

\* The whole periods in a longer time are no fewer.
LEMMA DivMonotone ==
    ASSUME NEW a \in Nat, NEW b \in Nat, NEW c \in Nat \ {0}, a <= b
    PROVE  a \div c <= b \div c
<1> DEFINE x == a \div c  y == b \div c
<1>1. x \in Nat /\ y \in Nat /\ x * c <= a /\ b < y * c + c
  BY DivBounds
<1>2. x * c < (y + 1) * c
  <2> HIDE DEF x, y
  <2>1. (y + 1) * c = y * c + c
    BY <1>1, SMT
  <2>2. x * c \in Nat /\ y * c \in Nat
    BY <1>1, SMT
  <2> QED
    BY <1>1, <2>1, <2>2
<1> HIDE DEF x, y
<1>3. x <= y
  BY <1>1, <1>2, MultipleBound
<1> QED
  BY <1>3 DEF x, y

\* Within the first period no whole one is over, within two of them one.
LEMMA FewPeriods ==
    ASSUME NEW a \in Nat, NEW c \in Nat \ {0}
    PROVE  /\ a < c => a \div c = 0
           /\ a <= c => a \div c <= 1
<1> DEFINE x == a \div c
<1>1. x \in Nat /\ x * c <= a
  BY DivBounds
<1> HIDE DEF x
<1>2. ASSUME x >= 1 PROVE x * c >= c
  BY <1>1, <1>2, SMT
<1>3. ASSUME x >= 2 PROVE x * c >= 2 * c
  BY <1>1, <1>3, SMT
<1>4. (a < c => x = 0) /\ (a <= c => x <= 1)
  <2>1. x * c \in Nat
    BY <1>1
  <2> QED
    BY <1>1, <1>2, <1>3, <2>1
<1> QED
  BY <1>4 DEF x

\* What the ledger sees of the header and of the list, when they stay.
LEMMA HeaderKept ==
    ASSUME UNCHANGED <<header, slots, now>>
    PROVE  /\ (status \in Initialized)' = (status \in Initialized)
           /\ Listed' = Listed /\ feeRatio' = feeRatio
           /\ PeriodsOwed' = PeriodsOwed
BY SlotsKept DEF header, PeriodsOwed

LEMMA InitIsShares ==
    ASSUME Init
    PROVE  Shares!Init
<1>1. status \notin Initialized /\ PeriodsOwed = 0 /\ Listed = {}
  BY DEF Init, Initialized, PeriodsOwed, Listed
<1>2. wallet \in [Holders -> [Mints -> Nat]]
  BY InitType DEF TypeOK
<1> QED
  BY <1>1, <1>2 DEF Init, Shares!Init

LEMMA CreateBegins ==
    ASSUME IInv, Held, Held', ListsDistinct,
           NEW u \in Users, NEW list \in AssetLists, NEW sp,
           NEW n \in MarketCounts, NEW per \in Periods, NEW ratio,
           Create(u, list, sp, n, per, ratio)
    PROVE  Shares!Begin(u)
<1>0. TypeOK /\ u \in Holders
  BY DEF IInv, Holders
<1>1. status \notin Initialized /\ status' \in Initialized
  BY DEF Create, MayCreate, Initialized, Statuses
<1>2. Shares!Issued = 0
  BY <1>1, IssuedIsSupply DEF IInv, RetiredHasNoSupply
<1>3. \A m \in Mints : /\ Contributed(list, m) \in Nat
                       /\ poolBal'[m] = poolBal[m] + Contributed(list, m)
                       /\ poolBal[m] \in Nat /\ wallet[u][m] \in Nat
  BY <1>0 DEF Create, TypeOK
<1>4. Shares!Moves(u)
  <2> DEFINE p == [m \in Mints |-> wallet[u][m] - Contributed(list, m)]
  <2>1. wallet' = [wallet EXCEPT ![u] = p]
    BY DEF Create
  <2>2. \A m \in Mints : p[m] + poolBal'[m] = wallet[u][m] + poolBal[m]
    BY <1>3
  <2> HIDE DEF p
  <2> QED
    BY <1>0, <2>1, <2>2, PurseMoves
<1>5. Shares!Only(u) /\ tokens'[u] > tokens[u]
  <2>1. tokens[u] \in Nat /\ InitialTokens \in Nat \ {0}
    BY <1>0, PoolAssumption, MathAssumption DEF TypeOK
  <2>2. tokens' = [tokens EXCEPT ![u] = tokens[u] + InitialTokens]
    BY DEF Create
  <2>3. Shares!Only(u) /\ tokens'[u] = tokens[u] + InitialTokens
    BY <1>0, <2>2, OnlyOne
  <2> QED
    BY <2>1, <2>3
<1>6. \A m \in Mints : poolBal'[m] >= poolBal[m]
  BY <1>3
<1>7. Listed' = {m \in Mints : poolBal'[m] > poolBal[m]}
  <2>1. \A m \in Mints : m \in Listed' <=> Contributed(list, m) > 0
    BY <1>0, CreateLists, ContributedOnce
  <2>2. Listed' \subseteq Mints
    BY DEF Listed
  <2>3. \A m \in Mints : Contributed(list, m) > 0 <=> poolBal'[m] > poolBal[m]
    BY <1>3
  <2> QED
    BY <2>1, <2>2, <2>3
<1>8. PeriodsOwed' = 0
  <2>1. lastFee' = now /\ now' = now /\ period' = per /\ per >= MinPeriod /\ now \in Nat
    BY <1>0 DEF Create, FeeClock, TypeOK
  <2>2. per \in Nat \ {0} /\ now - now = 0
    BY <2>1, PoolAssumption
  <2>3. PeriodsOwed' = (now - now) \div per
    BY <1>1, <2>1 DEF PeriodsOwed, FeeCycles
  <2> QED
    BY <2>2, <2>3
<1> QED
  BY <1>1, <1>2, <1>4, <1>5, <1>6, <1>7, <1>8 DEF Shares!Begin

LEMMA DepositEnters ==
    ASSUME IInv, Held, Held', SlotsDistinct, NEW u \in Users, NEW ask \in Asks,
           NEW accounts, BuyIn(u, ask, accounts)
    PROVE  Shares!Enter(u)
<1>1. PICK eff \in DepositLimits(u, ask) :
        /\ \A m \in Mints : Paid(eff, m) \in 0 .. wallet[u][m]
        /\ wallet' = [wallet EXCEPT ![u] =
                        [m \in Mints |-> wallet[u][m] - Paid(eff, m)]]
        /\ poolBal' = [m \in Mints |-> poolBal[m] + Paid(eff, m)]
        /\ supply' = supply + eff
        /\ tokens' = [h \in Holders |->
             tokens[h] + FeeFor(h, DepositFee(feeRatio, eff))
                       + (IF h = u THEN eff - DepositFee(feeRatio, eff) ELSE 0)]
  BY DEF BuyIn
<1>2. /\ TypeOK /\ u \in Holders /\ supply \in Nat \ {0}
      /\ status \in Initialized /\ UNCHANGED <<header, slots, now>>
  BY DEF BuyIn, IInv, Holders, TypeOK
<1>3. eff \in Nat
  BY <1>2, DepositLimitsType, PoolAssumption DEF Amounts
<1>4. \A m \in Mints : /\ Paid(eff, m) \in Nat
                       /\ poolBal'[m] = poolBal[m] + Paid(eff, m)
                       /\ poolBal[m] \in Nat /\ wallet[u][m] \in Nat
  BY <1>1, <1>2 DEF TypeOK
<1>5. Shares!Moves(u)
  <2> DEFINE p == [m \in Mints |-> wallet[u][m] - Paid(eff, m)]
  <2>1. wallet' = [wallet EXCEPT ![u] = p]
    BY <1>1
  <2>2. \A m \in Mints : p[m] + poolBal'[m] = wallet[u][m] + poolBal[m]
    BY <1>4
  <2> HIDE DEF p
  <2> QED
    BY <1>2, <2>1, <2>2, PurseMoves
<1>6. \A m \in Mints \ Listed : poolBal'[m] = poolBal[m]
  BY <1>2, <1>3, <1>4, DistinctPaid
<1>7. ASSUME NEW m \in Listed
      PROVE  /\ poolBal'[m] >= poolBal[m]
             /\ poolBal'[m] * supply <= poolBal[m] * supply'
             /\ (poolBal'[m] + 1) * supply > poolBal[m] * supply'
             /\ eff = 0 => poolBal'[m] = poolBal[m]
  <2>1. m \in Mints
    BY DEF Listed
  <2>2. Paid(eff, m) = DepositAmount(eff, poolBal[m], supply)
    BY <1>2, <1>3, <2>1, DistinctPaid
  <2>3. (poolBal[m] + Paid(eff, m)) * supply <= poolBal[m] * (supply + eff)
        /\ (eff = 0 => Paid(eff, m) = 0)
    BY <1>2, <1>3, <1>4, <2>1, <2>2, DepositPaysAtMost
  <2>4. (poolBal'[m] + 1) * supply > poolBal[m] * supply'
    BY BuyInEntry
  <2> QED
    BY <1>1, <1>4, <2>1, <2>3, <2>4
<1>8. PICK m \in Listed : poolBal'[m] > poolBal[m]
  <2>1. PICK m \in Mints : poolBal'[m] > poolBal[m]
    BY BuyInCosts
  <2>2. m \in Listed
    BY <1>4, <1>6, <2>1
  <2> QED
    BY <2>1, <2>2
<1>9. eff > 0
  <2>1. m \in Mints /\ poolBal[m] \in Nat
    BY <1>4 DEF Listed
  <2> QED
    BY <1>3, <1>7, <1>8, <2>1
<1>10. Shares!Issued = supply /\ Shares!Issued' = supply'
  BY IssuedIsSupply
<1> DEFINE fee == DepositFee(feeRatio, eff)
<1>11. fee \in 0 .. eff /\ \A h \in Holders : FeeFor(h, fee) \in Nat
  <2>1. fee \in 0 .. eff
    BY <1>2, <1>3, DepositFeeBound DEF TypeOK
  <2> QED
    BY <1>3, <2>1, FeeForType
<1>12. /\ \A h \in Holders : tokens'[h] >= tokens[h]
       /\ tokens'[u] >= tokens[u] + eff - fee
  <2>1. \A h \in Holders : tokens[h] \in Nat /\
          tokens'[h] = tokens[h] + FeeFor(h, fee) + (IF h = u THEN eff - fee ELSE 0)
    BY <1>1, <1>2 DEF TypeOK
  <2> HIDE DEF fee
  <2> QED
    BY <1>2, <1>3, <1>11, <2>1
<1>13. tokens'[u] >= tokens[u] + (supply' - supply)
                      - Shares!DepositFee(feeRatio, supply' - supply)
  <2>1. supply' - supply = eff
    BY <1>1, <1>2, <1>3
  <2> QED
    BY <1>12, <2>1, SharesMath
<1>14. supply > 0 /\ supply' > supply
  BY <1>1, <1>2, <1>3, <1>9
<1>15. UNCHANGED <<(status \in Initialized), Listed, feeRatio, PeriodsOwed>>
  BY <1>2, HeaderKept
<1> HIDE DEF fee
<1> QED
  BY <1>2, <1>5, <1>6, <1>7, <1>8, <1>10, <1>12, <1>13, <1>14, <1>15
  DEF Shares!Enter

LEMMA RedemptionLeaves ==
    ASSUME IInv, Held, Held', SlotsDistinct, NEW h \in Holders,
           NEW k \in Redemptions, Redeem(h, k)
    PROVE  Shares!Leave(h)
<1>1. /\ TypeOK /\ supply \in Nat /\ k \in Nat /\ k <= supply
      /\ supply' = supply - k /\ status \in Initialized /\ feeRatio' = feeRatio
      /\ \A m \in Mints : PaidOut(k, m) \in 0 .. poolBal[m]
      /\ poolBal' = [m \in Mints |-> poolBal[m] - PaidOut(k, m)]
  <2>1. TypeOK /\ supply \in Nat /\ k \in Nat
    BY PoolAssumption DEF IInv, TypeOK
  <2> QED
    BY <2>1 DEF Redeem
<1>2. \A m \in Mints : /\ PaidOut(k, m) \in Nat
                       /\ poolBal'[m] = poolBal[m] - PaidOut(k, m)
                       /\ poolBal[m] \in Nat /\ wallet[h][m] \in Nat
                       /\ poolBal'[m] \in Nat
  BY <1>1 DEF TypeOK
<1>3. Shares!Moves(h)
  <2> DEFINE p == [m \in Mints |-> wallet[h][m] + PaidOut(k, m)]
  <2>1. wallet' = [wallet EXCEPT ![h] = p]
    BY DEF Redeem
  <2>2. \A m \in Mints : p[m] + poolBal'[m] = wallet[h][m] + poolBal[m]
    BY <1>2
  <2> HIDE DEF p
  <2> QED
    BY <1>1, <2>1, <2>2, PurseMoves
<1>4. Shares!Only(h) /\ tokens'[h] <= tokens[h]
  <2>1. tokens' = [tokens EXCEPT ![h] = tokens[h] - k] /\ tokens[h] \in Nat
    BY <1>1 DEF Redeem, TypeOK
  <2>2. Shares!Only(h) /\ tokens'[h] = tokens[h] - k
    BY <1>1, <2>1, OnlyOne
  <2> QED
    BY <1>1, <2>1, <2>2
<1>5. \A m \in Mints \ Listed : poolBal'[m] = poolBal[m]
  <2> SUFFICES ASSUME NEW m \in Mints \ Listed
               PROVE  poolBal'[m] = poolBal[m]
    OBVIOUS
  <2>1. LeftAfter(k, poolBal[m], supply, Passes(m)) = poolBal[m]
    BY <1>1, DistinctPasses, LeftAfterNone
  <2> QED
    BY <1>2, <2>1 DEF PaidOut
<1>6. ASSUME NEW m \in Listed
      PROVE  /\ poolBal'[m] <= poolBal[m]
             /\ poolBal'[m] * supply >= poolBal[m] * supply'
             /\ (poolBal'[m] - 1) * supply < poolBal[m] * supply'
  <2>1. m \in Mints /\ supply \in Nat \ {0}
    BY <1>1 DEF Listed, Redeem
  <2>2. LeftAfter(k, poolBal[m], supply, Passes(m))
          = poolBal[m] - RedeemAmount(k, poolBal[m], supply)
    BY <1>1, <1>2, <2>1, DistinctPasses, LeftAfterOnePass
  <2>3. poolBal'[m] = poolBal[m] - RedeemAmount(k, poolBal[m], supply)
    <3>1. RedeemAmount(k, poolBal[m], supply) \in 0 .. poolBal[m]
      BY <1>1, <1>2, <2>1, RedeemAmountType
    <3> QED
      BY <1>2, <2>1, <2>2, <3>1 DEF PaidOut
  <2>4. poolBal'[m] <= poolBal[m]
    BY <1>2, <2>1
  <2> QED
    BY <1>1, <1>2, <2>1, <2>3, <2>4, RedeemKeepsBacking, RedeemPaysButOne
<1>7. PeriodsOwed <= 1
  <2>1. now - lastFee <= period
    BY <1>1, PeriodFacts DEF Redeem, FeesOverdue
  <2> QED
    BY <1>1, <2>1, PeriodFacts, FewPeriods
<1>8. IF supply' = 0 THEN status' \notin Initialized /\ Listed' = {} /\ PeriodsOwed' = 0
                     ELSE UNCHANGED <<(status \in Initialized), Listed, PeriodsOwed>>
  <2>1. CASE k = supply
    <3>1. /\ supply' = 0 /\ status' = "Uninitialized"
          /\ slots' = [i \in DOMAIN slots |-> NoMint]
      BY <1>1, <2>1 DEF Redeem, Retires
    <3> QED
      BY <3>1, ZeroedLists DEF Initialized, PeriodsOwed
  <2>2. CASE k # supply
    <3>1. supply' # 0 /\ status' = status /\ slots' = slots
      BY <1>1, <2>2 DEF Redeem, Retires
    <3>2. UNCHANGED <<provider, feeRatio, period, lastFee, markets, now>>
      BY DEF Redeem
    <3> QED
      BY <3>1, <3>2, HeaderKept DEF header
  <2> QED
    BY <2>1, <2>2
<1>9. Shares!Issued = supply /\ Shares!Issued' = supply'
  BY IssuedIsSupply
<1> QED
  BY <1>1, <1>3, <1>4, <1>5, <1>6, <1>7, <1>8, <1>9 DEF Shares!Leave

LEMMA CollectionCharges ==
    ASSUME IInv, Held, Held', CollectFees
    PROVE  Shares!Charge
<1> DEFINE cycles == FeeCycles(now, lastFee, period)
<1>1. PICK feeless \in 1 .. Scale - 1 :
        /\ feeless = FeelessRatio(feeRatio, cycles)
        /\ supply' = supply + FeeTokens(feeless, supply)
        /\ tokens' = [h \in Holders |->
             tokens[h] + FeeFor(h, FeeTokens(feeless, supply))]
  BY DEF CollectFees
<1>2. /\ TypeOK /\ FeeClockNotAhead /\ supply \in Nat /\ status \in Initialized
      /\ UNCHANGED <<status, feeRatio, period, slots, poolBal, wallet, now>>
  BY DEF CollectFees, IInv, TypeOK
<1>3. PeriodsOwed = cycles /\ cycles > 0
  BY <1>2 DEF PeriodsOwed, CollectFees
<1>4. PeriodsOwed' = 0
  <2>1. lastFee' <= now /\ now - lastFee' < period
    BY <1>2, CollectFeesClock
  <2>2. lastFee' \in Nat /\ period \in Nat \ {0} /\ now \in Nat
    <3>1. TypeOK'
      BY <1>2, CollectFeesType
    <3> QED
      BY <1>2, <3>1, PeriodFacts DEF TypeOK
  <2>3. (now - lastFee') \div period = 0
    <3>1. ASSUME NEW t \in Nat, t <= now, now - t < period
          PROVE  (now - t) \div period = 0
      <4>1. now - t \in Nat
        BY <2>2, <3>1
      <4> QED
        BY <2>2, <3>1, <4>1, FewPeriods
    <3> QED
      BY <2>1, <2>2, <3>1
  <2> QED
    BY <1>2, <2>3 DEF PeriodsOwed, FeeCycles
<1>5. \A h \in Holders : tokens'[h] >= tokens[h]
  <2>1. FeeTokens(feeless, supply) \in Nat
    BY <1>2, FeeTokensType
  <2>2. \A h \in Holders : /\ FeeFor(h, FeeTokens(feeless, supply)) \in Nat
                           /\ tokens[h] \in Nat
    BY <1>2, <2>1, FeeForType DEF TypeOK
  <2> QED
    BY <1>1, <2>2
<1>6. supply * (Scale - 1) >= supply' * Shares!FeelessRatio(feeRatio, PeriodsOwed)
  <2>1. supply * (Scale - 1) >= (supply + FeeTokens(feeless, supply)) * feeless
    BY <1>2, FeeTokensBound
  <2> QED
    BY <1>1, <1>3, <2>1, SharesMath
<1>7. Shares!Issued = supply /\ Shares!Issued' = supply'
  BY IssuedIsSupply
<1>8. UNCHANGED <<(status \in Initialized), Listed, poolBal, wallet, feeRatio>>
  BY <1>2, SlotsKept
<1> QED
  BY <1>2, <1>3, <1>4, <1>5, <1>6, <1>7, <1>8 DEF Shares!Charge

LEMMA GiftGives ==
    ASSUME IInv, NEW u \in Users, NEW m \in Mints, NEW a \in Gifts, Gift(u, m, a)
    PROVE  Shares!Give(u)
<1>1. TypeOK /\ u \in Holders /\ a \in Nat
  BY PoolAssumption DEF IInv, Holders
<1>2. /\ wallet' = [wallet EXCEPT ![u] =
                      [wallet[u] EXCEPT ![m] = wallet[u][m] - a]]
      /\ poolBal' = [poolBal EXCEPT ![m] = @ + a]
  BY DEF Gift
<1>3. \A n \in Mints : poolBal[n] \in Nat /\ wallet[u][n] \in Nat
  BY <1>1 DEF TypeOK
<1>4. Shares!Moves(u)
  <2> DEFINE p == [wallet[u] EXCEPT ![m] = wallet[u][m] - a]
  <2>1. wallet' = [wallet EXCEPT ![u] = p]
    BY <1>2
  <2>2. \A n \in Mints : p[n] + poolBal'[n] = wallet[u][n] + poolBal[n]
    BY <1>1, <1>2, <1>3 DEF TypeOK
  <2> HIDE DEF p
  <2> QED
    BY <1>1, <2>1, <2>2, PurseMoves
<1>5. \A n \in Mints : poolBal'[n] >= poolBal[n]
  BY <1>1, <1>2, <1>3 DEF TypeOK
<1>6. UNCHANGED <<(status \in Initialized), Listed, tokens, feeRatio, PeriodsOwed>>
  BY HeaderKept DEF Gift
<1> QED
  BY <1>4, <1>5, <1>6 DEF Shares!Give

LEMMA BurnBurns ==
    ASSUME IInv, NEW h \in Holders, NEW k \in Burns, BurnTokens(h, k)
    PROVE  Shares!Burn(h)
<1>1. TypeOK /\ k \in Nat /\ tokens[h] \in Nat
  BY PoolAssumption DEF IInv, TypeOK
<1>2. tokens' = [tokens EXCEPT ![h] = tokens[h] - k]
  BY DEF BurnTokens
<1>3. Shares!Only(h) /\ tokens'[h] = tokens[h] - k
  BY <1>1, <1>2, OnlyOne
<1>4. tokens'[h] <= tokens[h]
  BY <1>1, <1>3
<1>5. UNCHANGED <<(status \in Initialized), Listed, poolBal, wallet, feeRatio,
                  PeriodsOwed>>
  BY HeaderKept DEF BurnTokens
<1> QED
  BY <1>3, <1>4, <1>5 DEF Shares!Burn

\* Time adds to what is owed, once there is a pool.
LEMMA TickWaits ==
    ASSUME IInv, Tick
    PROVE  Shares!Wait \/ UNCHANGED Shares!ledger
<1>1. /\ UNCHANGED <<status, period, lastFee, feeRatio, slots, tokens, poolBal, wallet>>
      /\ now' = now + 1
  BY DEF Tick, header
<1>2. UNCHANGED <<(status \in Initialized), Listed, poolBal, wallet, tokens, feeRatio>>
  BY <1>1, SlotsKept
<1>3. CASE status \in Initialized
  <2>0. PeriodsOwed' = (now' - lastFee') \div period'
    BY <1>1, <1>3 DEF PeriodsOwed, FeeCycles
  <2>1. PeriodsOwed' = (now + 1 - lastFee) \div period
    <3>1. now' = now + 1 /\ lastFee' = lastFee /\ period' = period
      BY <1>1
    <3>2. now' - lastFee' = now + 1 - lastFee
      BY <1>3, <3>1, PeriodFacts
    <3> QED
      BY <2>0, <3>1, <3>2
  <2>2. now + 1 - lastFee \in Nat /\ now - lastFee <= now + 1 - lastFee
    BY <1>3, PeriodFacts
  <2>3. PeriodsOwed' >= PeriodsOwed
    BY <1>3, <2>1, <2>2, PeriodFacts, DivMonotone
  <2> QED
    BY <1>2, <1>3, <2>3 DEF Shares!Wait
<1>4. CASE status \notin Initialized
  <2>1. PeriodsOwed' = PeriodsOwed
    BY <1>1, <1>4 DEF PeriodsOwed
  <2> QED
    BY <1>2, <2>1 DEF Shares!ledger
<1> QED
  BY <1>3, <1>4

LEMMA NextIsShares ==
    ASSUME IInv, Held, Held', SlotsDistinct, ListsDistinct, [Next]_vars
    PROVE  [Shares!Next]_Shares!ledger
<1>0. ASSUME UNCHANGED <<(status \in Initialized), Listed, poolBal, wallet, tokens,
                         feeRatio, PeriodsOwed>>
      PROVE  UNCHANGED Shares!ledger
  BY <1>0 DEF Shares!ledger
<1>1. ASSUME NEW size \in Spaces, InitPool(size) PROVE UNCHANGED Shares!ledger
  <2>1. status \notin Initialized /\ status' \notin Initialized
    BY <1>1 DEF InitPool, Initialized
  <2>2. UNCHANGED <<poolBal, wallet, tokens, feeRatio, slots>>
    BY <1>1 DEF InitPool
  <2>3. PeriodsOwed = 0 /\ PeriodsOwed' = 0
    BY <2>1 DEF PeriodsOwed
  <2>4. Listed' = Listed
    BY <2>2, SlotsKept
  <2>5. (status \in Initialized)' = (status \in Initialized)
    BY <2>1
  <2> QED
    BY <1>0, <2>2, <2>3, <2>4, <2>5
<1>2. ASSUME CreateAny PROVE Shares!Next
  <2>1. PICK u \in Users : Shares!Begin(u)
    BY <1>2, CreateBegins DEF CreateAny
  <2> QED
    BY <2>1 DEF Shares!Next, Holders
<1>3. ASSUME NEW u \in Users, NEW ask \in Asks, Deposit(u, ask) PROVE Shares!Next
  <2>1. Shares!Enter(u)
    BY <1>3, DepositEnters DEF Deposit
  <2> QED
    BY <2>1 DEF Shares!Next, Holders
<1>4. ASSUME NEW h \in Holders, NEW k \in Redemptions, Redeem(h, k) PROVE Shares!Next
  <2>1. Shares!Leave(h)
    BY <1>4, RedemptionLeaves
  <2> QED
    BY <2>1 DEF Shares!Next
<1>5. ASSUME CollectFees PROVE Shares!Next
  BY <1>5, CollectionCharges DEF Shares!Next
<1>6. ASSUME NEW h \in Holders, OpenTokenAccount(h) PROVE UNCHANGED Shares!ledger
  <2>1. UNCHANGED <<header, slots, now, poolBal, wallet, tokens>>
    BY <1>6 DEF OpenTokenAccount
  <2> QED
    BY <1>0, <2>1, HeaderKept
<1>7. ASSUME NEW u \in Users, NEW m \in Mints, NEW a \in Gifts, Gift(u, m, a)
      PROVE  Shares!Next
  <2>1. Shares!Give(u)
    BY <1>7, GiftGives
  <2> QED
    BY <2>1 DEF Shares!Next, Holders
<1>8. ASSUME NEW h \in Holders, NEW k \in Burns, BurnTokens(h, k) PROVE Shares!Next
  <2>1. Shares!Burn(h)
    BY <1>8, BurnBurns
  <2> QED
    BY <2>1 DEF Shares!Next
<1>9. ASSUME Tick PROVE Shares!Next \/ UNCHANGED Shares!ledger
  BY <1>9, TickWaits DEF Shares!Next
<1>10. CASE UNCHANGED vars
  <2>1. UNCHANGED <<header, slots, now, poolBal, wallet, tokens>>
    BY <1>10 DEF vars
  <2> QED
    BY <1>0, <2>1, HeaderKept
<1> QED
  BY <1>1, <1>2, <1>3, <1>4, <1>5, <1>6, <1>7, <1>8, <1>9, <1>10 DEF Next

(* A pool whose list names no mint twice keeps the ledger of shares, for   *)
(* every number of holders and assets and every width of the amounts: the  *)
(* instructions, the fee clock, gifts and burns from outside, and one life *)
(* of the pool after the other.                                            *)
THEOREM PoolImplementsShares == ListsDistinct => (Spec => ImplementsShares)
<1> SUFFICES ASSUME ListsDistinct PROVE Spec => ImplementsShares
  OBVIOUS
<1> DEFINE SInv == IInv /\ Held /\ SlotsDistinct
<1>1. Init => SInv /\ Shares!Init
  BY InitInv, InitHeld, InitDistinct, InitIsShares
<1>2. SInv /\ [Next]_vars => SInv'
  <2>1. IInv => TypeOK
    BY DEF IInv
  <2> QED
    BY <2>1, NextInv, NextHeld, NextDistinct
<1>3. SInv /\ SInv' /\ [Next]_vars => [Shares!Next]_Shares!ledger
  BY NextIsShares
<1> QED
  BY <1>1, <1>2, <1>3, PTL DEF Spec, ImplementsShares, Shares!Spec
=============================================================================
