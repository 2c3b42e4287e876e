---------------------------- MODULE TradingProofs ---------------------------
(***************************************************************************)
(* The count of pending orders locks the pool while its assets are out:    *)
(* proofs, for every set of open-orders accounts and every pool that an    *)
(* earlier deployment may have left.                                       *)
(***************************************************************************)
EXTENDS Trading, PoolProofs

\* An open-orders account only ever holds the two mints of its market.
MarketMintsOnly ==
    \A oo \in OpenOrders : \A m \in Mints \ MarketOf(oo) : total[oo][m] = 0

\* The inductive invariant.
TradeInv == TradingTypeOK /\ MarketMintsOnly /\ CountIsAccountsInUse

-----------------------------------------------------------------------------
(* The accounts in use                                                     *)

LEMMA UsedIsFinite ==
    ASSUME NEW purses
    PROVE  /\ IsFiniteSet(Used(purses))
           /\ Cardinality(Used(purses)) \in 0 .. MaxOrders
<1>1. Used(purses) \subseteq OpenOrders
  BY DEF Used
<1>2. /\ IsFiniteSet(OpenOrders)
      /\ Cardinality(OpenOrders) <= MaxOrders /\ MaxOrders = 64
  BY TradingAssumption DEF MaxOrders
<1>3. /\ IsFiniteSet(Used(purses))
      /\ Cardinality(Used(purses)) <= Cardinality(OpenOrders)
  BY <1>1, <1>2, FS_Subset
<1>4. /\ Cardinality(Used(purses)) \in Nat
      /\ Cardinality(OpenOrders) \in Nat
  BY <1>2, <1>3, FS_CardinalityType
<1> QED
  BY <1>2, <1>3, <1>4

\* No account is in use exactly when the count is zero.
LEMMA NoneUsed ==
    ASSUME CountIsAccountsInUse
    PROVE  pending = 0 <=> Used(total) = {}
BY UsedIsFinite, FS_EmptySet DEF CountIsAccountsInUse

-----------------------------------------------------------------------------
(* The steps                                                               *)

LEMMA InitTradeInv == TradingInit => TradeInv
<1> SUFFICES ASSUME TradingInit PROVE TradeInv
  OBVIOUS
<1>1. PICK p \in Legacy : total = p.total /\ pending = Cardinality(Used(p.total))
  BY DEF TradingInit
<1>2. total \in Purses /\ MarketMintsOnly
  BY <1>1, TradingAssumption DEF MarketMintsOnly
<1>3. pending \in 0 .. MaxOrders /\ CountIsAccountsInUse
  BY <1>1, UsedIsFinite DEF CountIsAccountsInUse
<1>4. /\ free \in Purses
      /\ \A oo \in OpenOrders, m \in Mints : free[oo][m] <= total[oo][m]
  <2>1. /\ free = [oo \in OpenOrders |-> [m \in Mints |-> 0]]
    BY DEF TradingInit, Zeroes
  <2> QED
    BY <1>2, <2>1 DEF Purses
<1>5. pending > 0 <=> status \in PendingKinds
  BY <1>3 DEF TradingInit, PendingKinds, MaxOrders
<1> QED
  BY <1>2, <1>3, <1>4, <1>5 DEF TradeInv, TradingTypeOK

\* A step of the pool alone keeps a pending status, and makes none.
LEMMA PoolStepKeepsLock ==
    ASSUME TradeInv, Next
    PROVE  status' \in PendingKinds <=> status \in PendingKinds
<1>1. ASSUME NEW size \in Spaces, InitPool(size)
      PROVE  status' = "Uninitialized" /\ status = "NoAccount"
  BY <1>1 DEF InitPool
<1>2. ASSUME CreateAny
      PROVE  status' = "Unlocked" /\ status = "Uninitialized"
  BY <1>2 DEF CreateAny, Create, MayCreate
<1>3. ASSUME NEW u \in Users, NEW ask \in Asks, Deposit(u, ask)
      PROVE  status' = status
  BY <1>3 DEF Deposit, BuyIn, header
<1>4. ASSUME NEW h \in Holders, NEW k \in Redemptions, Redeem(h, k)
      PROVE  /\ status \notin PendingKinds
             /\ status' \in {status, "Uninitialized"}
  BY <1>4 DEF Redeem, RedeemClosed, PendingKinds
<1>5. ASSUME CollectFees PROVE status' = status
  BY <1>5 DEF CollectFees
<1>6. ASSUME NEW h \in Holders, OpenTokenAccount(h) PROVE status' = status
  BY <1>6 DEF OpenTokenAccount, header
<1>7. ASSUME NEW u \in Users, NEW m \in Mints, NEW a \in Gifts, Gift(u, m, a)
      PROVE  status' = status
  BY <1>7 DEF Gift, header
<1>8. ASSUME NEW h \in Holders, NEW k \in Burns, BurnTokens(h, k)
      PROVE  status' = status
  BY <1>8 DEF BurnTokens, header
<1>9. ASSUME Tick PROVE status' = status
  BY <1>9 DEF Tick, header
<1>10. "Uninitialized" \notin PendingKinds /\ "NoAccount" \notin PendingKinds
       /\ "Unlocked" \notin PendingKinds
  BY DEF PendingKinds
<1> QED
  BY <1>1, <1>2, <1>3, <1>4, <1>5, <1>6, <1>7, <1>8, <1>9, <1>10 DEF Next

LEMMA PoolStepKeepsTradeInv ==
    ASSUME TradeInv, Next, UNCHANGED <<pending, serum>>
    PROVE  TradeInv'
BY PoolStepKeepsLock
DEF TradeInv, TradingTypeOK, MarketMintsOnly, CountIsAccountsInUse, serum, Used

\* What Settle leaves in the open-orders accounts.
LEMMA SettlePurses ==
    ASSUME TradeInv, NEW oo \in OpenOrders, NEW coin, NEW pc, Settle(oo, coin, pc)
    PROVE  /\ total' \in Purses /\ free' \in Purses
           /\ \A q \in OpenOrders, m \in Mints : free'[q][m] <= total'[q][m]
           /\ \A q \in OpenOrders \ {oo} : total'[q] = total[q]
           /\ \A m \in Mints : total'[oo][m] = total[oo][m] - free[oo][m]
<1>1. /\ total' = [total EXCEPT ![oo] = [m \in Mints |-> @[m] - free[oo][m]]]
      /\ free' = [free EXCEPT ![oo] = [m \in Mints |-> 0]]
  BY DEF Settle, MaySettle, Zeroes
<1>2. /\ total \in [OpenOrders -> [Mints -> Nat]]
      /\ free \in [OpenOrders -> [Mints -> Nat]]
      /\ \A q \in OpenOrders, m \in Mints : free[q][m] <= total[q][m]
  BY DEF TradeInv, TradingTypeOK, Purses
<1>3. [m \in Mints |-> total[oo][m] - free[oo][m]] \in [Mints -> Nat]
  BY <1>2
<1>4. /\ total' \in Purses /\ free' \in Purses
  BY <1>1, <1>2, <1>3 DEF Purses
<1>5. /\ \A q \in OpenOrders \ {oo} : total'[q] = total[q] /\ free'[q] = free[q]
      /\ \A m \in Mints : /\ total'[oo][m] = total[oo][m] - free[oo][m]
                          /\ free'[oo][m] = 0
  BY <1>1, <1>2
<1>6. ASSUME NEW q \in OpenOrders, NEW m \in Mints
      PROVE  free'[q][m] <= total'[q][m]
  <2>1. CASE q = oo
    BY <2>1, <1>2, <1>5
  <2>2. CASE q # oo
    BY <2>2, <1>2, <1>5
  <2> QED
    BY <2>1, <2>2
<1> QED
  BY <1>4, <1>5, <1>6

\* The account settled whole is out of use; the one settled in part is not.
LEMMA SettleUsed ==
    ASSUME TradeInv, NEW oo \in OpenOrders, NEW coin, NEW pc, Settle(oo, coin, pc)
    PROVE  /\ oo \in Used(total)
           /\ Used(total') = IF EntirelyFree(oo) THEN Used(total) \ {oo}
                             ELSE Used(total)
<1>1. /\ \A q \in OpenOrders \ {oo} : total'[q] = total[q]
      /\ \A m \in Mints : total'[oo][m] = total[oo][m] - free[oo][m]
  BY SettlePurses
<1>2. /\ CoinOf[oo] \in Mints /\ PcOf[oo] \in Mints
      /\ \A m \in Mints : m \in MarketOf(oo) \/ total[oo][m] = 0
      /\ \A m \in Mints : /\ total[oo][m] \in Nat /\ free[oo][m] \in Nat
                          /\ free[oo][m] <= total[oo][m]
  BY TradingAssumption
  DEF TradeInv, TradingTypeOK, Purses, MarketMintsOnly
<1>3. oo \in Used(total)
  <2>1. PICK m \in MarketOf(oo) : free[oo][m] # 0
    BY DEF Settle, MaySettle, HasFunds
  <2>2. m \in Mints /\ total[oo][m] # 0
    BY <1>2, <2>1 DEF MarketOf
  <2> QED
    BY <2>2 DEF Used
<1>4. ASSUME NEW q \in OpenOrders \ {oo}
      PROVE  q \in Used(total') <=> q \in Used(total)
  BY <1>1 DEF Used
<1>5. oo \in Used(total') <=> ~EntirelyFree(oo)
  <2>1. ASSUME NEW m \in Mints, EntirelyFree(oo) PROVE total'[oo][m] = 0
    BY <1>1, <1>2, <2>1 DEF EntirelyFree, MarketOf
  <2>2. ASSUME ~EntirelyFree(oo)
        PROVE  total'[oo][PcOf[oo]] # 0 \/ total'[oo][CoinOf[oo]] # 0
    BY <1>1, <1>2, <2>2 DEF EntirelyFree
  <2> QED
    BY <1>2, <2>1, <2>2 DEF Used
<1>6. Used(total) \subseteq OpenOrders /\ Used(total') \subseteq OpenOrders
  BY DEF Used
<1>7. ASSUME NEW q
      PROVE  q \in Used(total') <=>
               q \in IF EntirelyFree(oo) THEN Used(total) \ {oo} ELSE Used(total)
  BY <1>3, <1>4, <1>5, <1>6
<1> QED
  BY <1>3, <1>7

LEMMA SettleKeepsTradeInv ==
    ASSUME TradeInv, NEW oo \in OpenOrders, NEW coin, NEW pc, Settle(oo, coin, pc)
    PROVE  TradeInv'
<1>1. /\ total' \in Purses /\ free' \in Purses
      /\ \A q \in OpenOrders, m \in Mints : free'[q][m] <= total'[q][m]
  BY SettlePurses
<1>2. MarketMintsOnly'
  <2> SUFFICES ASSUME NEW q \in OpenOrders, NEW m \in Mints \ MarketOf(q)
               PROVE  total'[q][m] = 0
    BY DEF MarketMintsOnly, MarketOf
  <2>1. /\ total[q][m] = 0 /\ free[q][m] \in Nat /\ free[q][m] <= total[q][m]
    BY DEF TradeInv, TradingTypeOK, MarketMintsOnly, Purses
  <2>2. total'[q][m] = total[q][m] \/ total'[q][m] = total[q][m] - free[q][m]
    BY SettlePurses
  <2> QED
    BY <2>1, <2>2
<1>3. /\ pending = Cardinality(Used(total)) /\ pending \in 0 .. 64
      /\ pending > 0 <=> status \in PendingKinds
      /\ IsFiniteSet(Used(total)) /\ oo \in Used(total)
  BY UsedIsFinite, SettleUsed
  DEF TradeInv, TradingTypeOK, CountIsAccountsInUse, MaxOrders
<1>4. CASE EntirelyFree(oo)
  <2>1. /\ status \in PendingKinds
        /\ status' = Settled(StatusOf(status, pending)).kind
        /\ pending' = Settled(StatusOf(status, pending)).orders
    BY <1>4 DEF Settle, MaySettle
  <2>2. /\ pending' = pending - 1
        /\ pending' > 0 <=> status' \in PendingKinds
    BY <1>3, <2>1 DEF Settled, StatusOf, PendingKinds
  <2>3. Cardinality(Used(total) \ {oo}) = Cardinality(Used(total)) - 1
    BY <1>3, FS_RemoveElement
  <2>4. Used(total') = Used(total) \ {oo}
    BY <1>4, SettleUsed
  <2>5. CountIsAccountsInUse'
    BY <1>3, <2>2, <2>3, <2>4 DEF CountIsAccountsInUse, Used
  <2>6. pending' \in 0 .. MaxOrders
    BY <1>3, <2>1, <2>2 DEF MaxOrders
  <2> QED
    BY <1>1, <1>2, <2>2, <2>5, <2>6 DEF TradeInv, TradingTypeOK
<1>5. CASE ~EntirelyFree(oo)
  <2>1. status' = status /\ pending' = pending
    BY <1>5 DEF Settle, MaySettle
  <2>2. Used(total') = Used(total)
    BY <1>5, SettleUsed
  <2>3. CountIsAccountsInUse'
    BY <1>3, <2>1, <2>2 DEF CountIsAccountsInUse, Used
  <2> QED
    BY <1>1, <1>2, <1>3, <2>1, <2>3 DEF TradeInv, TradingTypeOK, MaxOrders
<1> QED
  BY <1>4, <1>5

\* What Serum gives back stays in the account until it is settled.
LEMMA GiveBackKeepsTradeInv ==
    ASSUME TradeInv, NEW oo \in OpenOrders, GiveBack(oo)
    PROVE  TradeInv'
<1>1. /\ free' = [free EXCEPT ![oo] = total[oo]]
      /\ total' = total /\ pending' = pending /\ status' = status
  BY DEF GiveBack, vars, header
<1>2. /\ free' \in Purses
      /\ \A q \in OpenOrders, m \in Mints : free'[q][m] <= total'[q][m]
  BY <1>1 DEF TradeInv, TradingTypeOK, Purses
<1> QED
  BY <1>1, <1>2
  DEF TradeInv, TradingTypeOK, MarketMintsOnly, CountIsAccountsInUse, Used

\* What a fill does to the purses of the account.
LEMMA FillPurses ==
    ASSUME TradeInv, NEW oo \in OpenOrders, NEW x, NEW y \in Proceeds,
           Fill(oo, x, y)
    PROVE  \E m, n \in MarketOf(oo) :
             /\ m # n /\ m \in Mints /\ n \in Mints /\ y \in Nat /\ y > 0
             /\ x \in 1 .. total[oo][m] - free[oo][m]
             /\ total[oo][m] \in Nat /\ free[oo][m] \in Nat
             /\ total[oo][n] \in Nat /\ free[oo][n] \in Nat
             /\ total[oo][m] - x \in Nat /\ free[oo][m] <= total[oo][m] - x
             /\ free[oo][n] + y <= total[oo][n] + y
             /\ total'[oo][m] = total[oo][m] - x
             /\ total'[oo][n] = total[oo][n] + y
             /\ free'[oo][n] = free[oo][n] + y
             /\ \A l \in Mints \ {m, n} : total'[oo][l] = total[oo][l]
             /\ \A l \in Mints \ {n} : free'[oo][l] = free[oo][l]
             /\ \A q \in OpenOrders \ {oo} :
                  total'[q] = total[q] /\ free'[q] = free[q]
             /\ total' \in Purses /\ free' \in Purses
             /\ UNCHANGED <<vars, pending>>
<1>1. PICK m \in MarketOf(oo), n \in MarketOf(oo) :
        /\ m # n
        /\ x \in 1 .. total[oo][m] - free[oo][m]
        /\ total' = [total EXCEPT ![oo][m] = @ - x, ![oo][n] = @ + y]
        /\ free' = [free EXCEPT ![oo][n] = @ + y]
        /\ UNCHANGED <<vars, pending>>
  BY DEF Fill
<1>2. /\ m \in Mints /\ n \in Mints /\ y \in Nat /\ y > 0
      /\ total \in [OpenOrders -> [Mints -> Nat]]
      /\ free \in [OpenOrders -> [Mints -> Nat]]
      /\ \A q \in OpenOrders, l \in Mints : free[q][l] <= total[q][l]
  BY TradingAssumption DEF TradeInv, TradingTypeOK, Purses, MarketOf
<1>3. /\ total[oo][m] - x \in Nat /\ total[oo][n] + y \in Nat
      /\ free[oo][m] <= total[oo][m] - x /\ free[oo][n] + y <= total[oo][n] + y
      /\ free[oo][n] + y \in Nat
  BY <1>1, <1>2
<1>4. /\ total' \in Purses /\ free' \in Purses
  BY <1>1, <1>2, <1>3 DEF Purses
<1>5. /\ total'[oo][m] = total[oo][m] - x /\ total'[oo][n] = total[oo][n] + y
      /\ \A l \in Mints \ {m, n} : total'[oo][l] = total[oo][l]
      /\ \A l \in Mints \ {n} : free'[oo][l] = free[oo][l]
      /\ free'[oo][n] = free[oo][n] + y
      /\ \A q \in OpenOrders \ {oo} : total'[q] = total[q] /\ free'[q] = free[q]
  BY <1>1, <1>2
<1>6. /\ total[oo][m] \in Nat /\ free[oo][m] \in Nat
      /\ total[oo][n] \in Nat /\ free[oo][n] \in Nat
  BY <1>2
<1> QED
  BY <1>1, <1>2, <1>3, <1>4, <1>5, <1>6

\* A fill leaves proceeds behind: the account stays in use.
LEMMA FillKeepsUsed ==
    ASSUME TradeInv, NEW oo \in OpenOrders, NEW x, NEW y \in Proceeds,
           Fill(oo, x, y)
    PROVE  Used(total') = Used(total)
<1>1. PICK m \in Mints, n \in Mints :
        /\ x \in 1 .. total[oo][m] - free[oo][m] /\ y > 0 /\ y \in Nat
        /\ total[oo][m] \in Nat /\ free[oo][m] \in Nat /\ total[oo][n] \in Nat
        /\ total'[oo][n] = total[oo][n] + y
        /\ \A q \in OpenOrders \ {oo} : total'[q] = total[q]
  BY FillPurses
<1>2. total[oo][m] # 0 /\ total'[oo][n] # 0
  BY <1>1
<1>3. oo \in Used(total) /\ oo \in Used(total')
  BY <1>1, <1>2 DEF Used
<1>4. ASSUME NEW q \in OpenOrders \ {oo}
      PROVE  q \in Used(total') <=> q \in Used(total)
  BY <1>1 DEF Used
<1>5. Used(total) \subseteq OpenOrders /\ Used(total') \subseteq OpenOrders
  BY DEF Used
<1> QED
  BY <1>3, <1>4, <1>5

LEMMA FillKeepsTradeInv ==
    ASSUME TradeInv, NEW oo \in OpenOrders, NEW x, NEW y \in Proceeds,
           Fill(oo, x, y)
    PROVE  TradeInv'
<1>1. PICK m \in MarketOf(oo), n \in MarketOf(oo) :
        /\ m # n /\ m \in Mints /\ n \in Mints
        /\ free[oo][m] <= total[oo][m] - x
        /\ free[oo][n] + y <= total[oo][n] + y
        /\ total'[oo][m] = total[oo][m] - x
        /\ total'[oo][n] = total[oo][n] + y
        /\ free'[oo][n] = free[oo][n] + y
        /\ \A l \in Mints \ {m, n} : total'[oo][l] = total[oo][l]
        /\ \A l \in Mints \ {n} : free'[oo][l] = free[oo][l]
        /\ \A q \in OpenOrders \ {oo} : total'[q] = total[q] /\ free'[q] = free[q]
        /\ total' \in Purses /\ free' \in Purses
        /\ UNCHANGED <<vars, pending>>
  BY FillPurses
<1>2. \A q \in OpenOrders, l \in Mints : free[q][l] <= total[q][l]
  BY DEF TradeInv, TradingTypeOK
<1>3. ASSUME NEW q \in OpenOrders, NEW l \in Mints
      PROVE  free'[q][l] <= total'[q][l]
  <2>1. CASE q # oo
    BY <2>1, <1>1, <1>2
  <2>2. CASE q = oo /\ l \notin {m, n}
    BY <2>2, <1>1, <1>2
  <2>3. CASE q = oo /\ l \in {m, n}
    BY <2>3, <1>1
  <2> QED
    BY <2>1, <2>2, <2>3
<1>4. MarketMintsOnly'
  <2> SUFFICES ASSUME NEW q \in OpenOrders, NEW l \in Mints \ MarketOf(q)
               PROVE  total'[q][l] = 0
    BY DEF MarketMintsOnly, MarketOf
  <2>1. total[q][l] = 0
    BY DEF TradeInv, MarketMintsOnly
  <2>2. q = oo => l \notin {m, n}
    BY <1>1
  <2> QED
    BY <1>1, <2>1, <2>2
<1>5. status' = status /\ pending' = pending
  BY <1>1 DEF vars, header
<1>6. CountIsAccountsInUse'
  BY <1>5, FillKeepsUsed DEF TradeInv, CountIsAccountsInUse, Used
<1> QED
  BY <1>1, <1>3, <1>4, <1>5, <1>6 DEF TradeInv, TradingTypeOK

LEMMA StepKeepsTradeInv == TradeInv /\ [TradingNext]_trade => TradeInv'
<1> SUFFICES ASSUME TradeInv, [TradingNext]_trade PROVE TradeInv'
  OBVIOUS
<1>1. CASE Next /\ UNCHANGED <<pending, serum>>
  BY <1>1, PoolStepKeepsTradeInv
<1>2. ASSUME NEW oo \in OpenOrders, SettleAny(oo) PROVE TradeInv'
  BY <1>2, SettleKeepsTradeInv DEF SettleAny
<1>3. ASSUME NEW u \in Users, NEW oo \in OpenOrders, Cancel(u, oo) PROVE TradeInv'
  BY <1>3, GiveBackKeepsTradeInv DEF Cancel
<1>4. ASSUME NEW oo \in OpenOrders, NEW x \in Proceeds, NEW y \in Proceeds,
             Fill(oo, x, y)
      PROVE  TradeInv'
  BY <1>4, FillKeepsTradeInv
<1>5. ASSUME NEW oo \in OpenOrders, Release(oo) PROVE TradeInv'
  BY <1>5, GiveBackKeepsTradeInv DEF Release
<1>6. CASE UNCHANGED trade
  BY <1>6 DEF trade, serum, vars, header, TradeInv, TradingTypeOK,
              MarketMintsOnly, CountIsAccountsInUse, Used
<1> QED
  BY <1>1, <1>2, <1>3, <1>4, <1>5, <1>6 DEF TradingNext

-----------------------------------------------------------------------------
(* The slots of the markets in use                                         *)

\* Only a step that finds all assets at home rewrites the list of a pool.
LEMMA PoolStepKeepsListed ==
    ASSUME TradeInv, UsedMarketsStayListed, Next, UNCHANGED <<pending, serum>>
    PROVE  UsedMarketsStayListed'
<1>1. total' = total
  BY DEF serum
<1>2. ASSUME slots' = slots PROVE UsedMarketsStayListed'
  BY <1>1, <1>2 DEF UsedMarketsStayListed, Used, Listed
<1>3. ASSUME status \notin PendingKinds PROVE UsedMarketsStayListed'
  <2>1. CountIsAccountsInUse /\ pending = 0
    BY <1>3 DEF TradeInv, TradingTypeOK, MaxOrders
  <2>2. Used(total') = {}
    BY <1>1, <2>1, NoneUsed
  <2> QED
    BY <2>2 DEF UsedMarketsStayListed, Used
<1>4. ASSUME NEW size \in Spaces, InitPool(size) PROVE slots' = slots
  BY <1>4 DEF InitPool
<1>5. ASSUME CreateAny PROVE status \notin PendingKinds
  BY <1>5 DEF CreateAny, Create, MayCreate, PendingKinds
<1>6. ASSUME NEW u \in Users, NEW ask \in Asks, Deposit(u, ask)
      PROVE  slots' = slots
  BY <1>6 DEF Deposit, BuyIn
<1>7. ASSUME NEW h \in Holders, NEW k \in Redemptions, Redeem(h, k)
      PROVE  status \notin PendingKinds
  BY <1>7 DEF Redeem, RedeemClosed, PendingKinds
<1>8. ASSUME CollectFees PROVE slots' = slots
  BY <1>8 DEF CollectFees
<1>9. ASSUME NEW h \in Holders, OpenTokenAccount(h) PROVE slots' = slots
  BY <1>9 DEF OpenTokenAccount
<1>10. ASSUME NEW u \in Users, NEW m \in Mints, NEW a \in Gifts, Gift(u, m, a)
       PROVE  slots' = slots
  BY <1>10 DEF Gift
<1>11. ASSUME NEW h \in Holders, NEW k \in Burns, BurnTokens(h, k)
       PROVE  slots' = slots
  BY <1>11 DEF BurnTokens
<1>12. ASSUME Tick PROVE slots' = slots
  BY <1>12 DEF Tick
<1> QED
  BY <1>2, <1>3, <1>4, <1>5, <1>6, <1>7, <1>8, <1>9, <1>10, <1>11, <1>12 DEF Next

\* A slot that lists a mint lists the same mint after a settlement.
LEMMA SettleKeepsListed ==
    ASSUME TradeInv, UsedMarketsStayListed,
           NEW oo \in OpenOrders, NEW coin, NEW pc, Settle(oo, coin, pc)
    PROVE  UsedMarketsStayListed'
<1>1. /\ coin \in DOMAIN slots /\ slots[coin] \in {NoMint, CoinOf[oo]}
      /\ pc \in DOMAIN slots /\ slots[pc] \in {NoMint, PcOf[oo]}
      /\ slots' = [[slots EXCEPT ![coin] = CoinOf[oo]] EXCEPT ![pc] = PcOf[oo]]
  BY DEF Settle, MaySettle, Fits
<1>2. ASSUME NEW m \in Mints, m \in Listed PROVE m \in Listed'
  <2>1. PICK i \in DOMAIN slots : slots[i] = m
    BY <1>2 DEF Listed
  <2>2. m # NoMint
    BY PoolAssumption
  <2>3. i \in DOMAIN slots' /\ slots'[i] = m
    BY <1>1, <2>1, <2>2
  <2> QED
    BY <2>3 DEF Listed
<1>3. Used(total') \subseteq Used(total)
  BY SettleUsed
<1>4. \A q \in OpenOrders : MarketOf(q) \subseteq Mints
  BY TradingAssumption DEF MarketOf
<1>5. SUFFICES ASSUME NEW q \in Used(total'), NEW m \in MarketOf(q)
               PROVE  m \in Listed'
  BY DEF UsedMarketsStayListed, Used, MarketOf
<1>6. q \in Used(total) /\ q \in OpenOrders /\ m \in Mints
  BY <1>3, <1>4, <1>5 DEF Used
<1> QED
  BY <1>2, <1>6 DEF UsedMarketsStayListed

\* Serum fills and frees what an account holds, and empties none.
LEMMA SerumKeepsListed ==
    ASSUME TradeInv, UsedMarketsStayListed, NEW oo \in OpenOrders,
           \/ GiveBack(oo)
           \/ \E x, y \in Proceeds : Fill(oo, x, y)
    PROVE  UsedMarketsStayListed'
<1>1. slots' = slots
  BY DEF GiveBack, Fill, vars
<1>2. CASE GiveBack(oo)
  BY <1>1, <1>2 DEF GiveBack, UsedMarketsStayListed, Used, Listed
<1>3. ASSUME NEW x \in Proceeds, NEW y \in Proceeds, Fill(oo, x, y)
      PROVE  UsedMarketsStayListed'
  <2>1. Used(total') \subseteq Used(total)
    BY <1>3, FillKeepsUsed
  <2> QED
    BY <1>1, <2>1 DEF UsedMarketsStayListed, Used, Listed
<1> QED
  BY <1>2, <1>3

LEMMA InitListed == TradingInit => UsedMarketsStayListed
<1> SUFFICES ASSUME TradingInit PROVE UsedMarketsStayListed
  OBVIOUS
<1>1. PICK p \in Legacy : slots = p.slots /\ total = p.total
  BY DEF TradingInit
<1>2. ASSUME NEW oo \in Used(total), NEW m \in MarketOf(oo) PROVE m \in Listed
  <2>1. \E i \in DOMAIN slots : slots[i] = m
    BY <1>1, <1>2, TradingAssumption
  <2>2. m \in Mints
    BY TradingAssumption DEF MarketOf, Used
  <2> QED
    BY <2>1, <2>2 DEF Listed
<1> QED
  BY <1>2 DEF UsedMarketsStayListed

LEMMA StepKeepsListed ==
    TradeInv /\ UsedMarketsStayListed /\ [TradingNext]_trade
      => UsedMarketsStayListed'
<1> SUFFICES ASSUME TradeInv, UsedMarketsStayListed, [TradingNext]_trade
             PROVE  UsedMarketsStayListed'
  OBVIOUS
<1>1. CASE Next /\ UNCHANGED <<pending, serum>>
  BY <1>1, PoolStepKeepsListed
<1>2. ASSUME NEW oo \in OpenOrders, SettleAny(oo) PROVE UsedMarketsStayListed'
  BY <1>2, SettleKeepsListed DEF SettleAny
<1>3. ASSUME NEW oo \in OpenOrders,
             \/ GiveBack(oo)
             \/ \E x, y \in Proceeds : Fill(oo, x, y)
      PROVE  UsedMarketsStayListed'
  BY <1>3, SerumKeepsListed
<1>4. CASE UNCHANGED trade
  BY <1>4 DEF trade, vars, serum, UsedMarketsStayListed, Used, Listed
<1> QED
  BY <1>1, <1>2, <1>3, <1>4 DEF TradingNext, Cancel, Release

-----------------------------------------------------------------------------
(* The theorems                                                            *)

THEOREM TradeInvHolds == TradingSpec => []TradeInv
BY InitTradeInv, StepKeepsTradeInv, PTL DEF TradingSpec

(* The numbers read of Serum and the count of the header stay in range,    *)
(* and exactly the pending statuses carry a count.                         *)
THEOREM TradingTypeCorrect == TradingSpec => []TradingTypeOK
<1>1. TradeInv => TradingTypeOK
  BY DEF TradeInv
<1> QED
  BY <1>1, TradeInvHolds, PTL

(* The count is the number of accounts that hold assets of the pool.       *)
THEOREM CountIsExact == TradingSpec => []CountIsAccountsInUse
<1>1. TradeInv => CountIsAccountsInUse
  BY DEF TradeInv
<1> QED
  BY <1>1, TradeInvHolds, PTL

(* Both mints of the market of an account in use keep a slot, whatever     *)
(* slots the callers of the settlements name.                              *)
THEOREM MarketsStayListed == TradingSpec => []UsedMarketsStayListed
BY InitListed, StepKeepsListed, TradeInvHolds, PTL DEF TradingSpec

\* An account with free funds is counted, so that the pool waits for it.
LEMMA FundsAreCounted ==
    ASSUME TradeInv, NEW oo \in OpenOrders, HasFunds(oo)
    PROVE  oo \in Used(total) /\ status \in PendingKinds
<1>1. PICK m \in MarketOf(oo) : free[oo][m] # 0
  BY DEF HasFunds
<1>2. m \in Mints
  BY <1>1, TradingAssumption DEF MarketOf
<1>3. free[oo][m] \in Nat /\ total[oo][m] \in Nat /\ free[oo][m] <= total[oo][m]
  BY <1>2 DEF TradeInv, TradingTypeOK, Purses
<1>4. oo \in Used(total)
  BY <1>1, <1>2, <1>3 DEF Used
<1>5. pending > 0
  <2>1. Cardinality(Used(total)) # 0
    BY <1>4, UsedIsFinite, FS_EmptySet
  <2> QED
    BY <2>1 DEF TradeInv, TradingTypeOK, CountIsAccountsInUse
<1> QED
  BY <1>4, <1>5 DEF TradeInv, TradingTypeOK

LEMMA FreeFundsFit ==
    ASSUME TradeInv, UsedMarketsStayListed
    PROVE  FreeFundsCanComeHome
<1>1. ASSUME NEW oo \in OpenOrders, HasFunds(oo)
      PROVE  \E coin, pc \in DOMAIN slots : MaySettle(oo, coin, pc)
  <2>1. oo \in Used(total) /\ status \in PendingKinds
    BY <1>1, FundsAreCounted
  <2>2. CoinOf[oo] \in Listed /\ PcOf[oo] \in Listed
    BY <2>1 DEF UsedMarketsStayListed, MarketOf
  <2>3. PICK coin \in DOMAIN slots : slots[coin] = CoinOf[oo]
    BY <2>2 DEF Listed
  <2>4. PICK pc \in DOMAIN slots : slots[pc] = PcOf[oo]
    BY <2>2 DEF Listed
  <2>5. status \in Initialized
    BY <2>1 DEF PendingKinds, Initialized, Statuses
  <2> QED
    BY <1>1, <2>1, <2>3, <2>4, <2>5 DEF MaySettle, Fits
<1> QED
  BY <1>1 DEF FreeFundsCanComeHome

(* What is free on Serum can always be brought home, whoever settled what  *)
(* before and whichever slots they named: the lock of the orders does not  *)
(* outlast them.                                                           *)
THEOREM FundsComeHome == TradingSpec => []FreeFundsCanComeHome
BY FreeFundsFit, MarketsStayListed, TradeInvHolds, PTL

(* A step that exchanges pool tokens for assets finds all assets at home.  *)
LEMMA TradesFindAssetsHome ==
    ASSUME TradeInv, [TradingNext]_trade, Trades
    PROVE  Used(total) = {}
<1> SUFFICES status \notin PendingKinds
  <2>1. CountIsAccountsInUse /\ (pending > 0 <=> status \in PendingKinds)
        /\ pending \in 0 .. MaxOrders
    BY DEF TradeInv, TradingTypeOK
  <2> QED
    BY <2>1, NoneUsed DEF MaxOrders
<1>1. supply' # supply /\ poolBal' # poolBal
  BY DEF Trades
<1>2. CASE Next /\ UNCHANGED <<pending, serum>>
  <2>1. ASSUME NEW size \in Spaces, InitPool(size) PROVE FALSE
    BY <1>1, <2>1 DEF InitPool
  <2>2. ASSUME CreateAny PROVE status = "Uninitialized"
    BY <2>2 DEF CreateAny, Create, MayCreate
  <2>3. ASSUME NEW u \in Users, NEW ask \in Asks, Deposit(u, ask)
        PROVE  status \notin {"PendingOrder", "LockedPendingOrder"}
    BY <2>3 DEF Deposit, BuyIn, DepositClosed
  <2>4. ASSUME NEW h \in Holders, NEW k \in Redemptions, Redeem(h, k)
        PROVE  status \notin {"PendingOrder", "LockedPendingOrder"}
    BY <2>4 DEF Redeem, RedeemClosed
  <2>5. ASSUME CollectFees PROVE FALSE
    BY <1>1, <2>5 DEF CollectFees
  <2>6. ASSUME NEW h \in Holders, OpenTokenAccount(h) PROVE FALSE
    BY <1>1, <2>6 DEF OpenTokenAccount
  <2>7. ASSUME NEW u \in Users, NEW m \in Mints, NEW a \in Gifts, Gift(u, m, a)
        PROVE  FALSE
    BY <1>1, <2>7 DEF Gift
  <2>8. ASSUME NEW h \in Holders, NEW k \in Burns, BurnTokens(h, k) PROVE FALSE
    BY <1>1, <2>8 DEF BurnTokens
  <2>9. ASSUME Tick PROVE FALSE
    BY <1>1, <2>9 DEF Tick
  <2> QED
    BY <1>2, <2>1, <2>2, <2>3, <2>4, <2>5, <2>6, <2>7, <2>8, <2>9
    DEF Next, PendingKinds
<1>3. ASSUME NEW oo \in OpenOrders, SettleAny(oo) PROVE FALSE
  BY <1>1, <1>3 DEF SettleAny, Settle, MaySettle
<1>4. ASSUME NEW oo \in OpenOrders, GiveBack(oo) PROVE FALSE
  BY <1>1, <1>4 DEF GiveBack, vars
<1>5. ASSUME NEW oo \in OpenOrders, NEW x, NEW y, Fill(oo, x, y) PROVE FALSE
  BY <1>1, <1>5 DEF Fill, vars
<1>6. CASE UNCHANGED trade
  BY <1>1, <1>6 DEF trade, vars
<1> QED
  BY <1>2, <1>3, <1>4, <1>5, <1>6 DEF TradingNext, Cancel, Release

(* Nobody trades pool tokens against balances that lack what is out.       *)
THEOREM TradesWaitForOrders == TradingSpec => NoTradeWhileAssetsAreOut
<1>1. TradeInv /\ [TradingNext]_trade => [Trades => Used(total) = {}]_trade
  BY TradesFindAssetsHome
<1> QED
  BY <1>1, TradeInvHolds, PTL DEF TradingSpec, NoTradeWhileAssetsAreOut

-----------------------------------------------------------------------------
(* The books, with the orders                                              *)

\* What an earlier deployment left is a pool as Create and its steps make it.
LEMMA LegacyLedger == TradingInit => IInv /\ Held
<1> SUFFICES ASSUME TradingInit PROVE IInv /\ Held
  OBVIOUS
<1>1. PICK p \in Legacy : /\ slots = p.slots /\ poolBal = p.poolBal
                          /\ markets = 1 /\ space = markets + Len(p.slots)
  BY DEF TradingInit
<1>2. /\ slots \in Seq(Mints \cup {NoMint}) /\ poolBal \in [Mints -> Nat]
      /\ markets \in Nat /\ space \in Nat /\ markets + Len(slots) <= space
  BY <1>1, TradingAssumption, LenProperties
<1>3. /\ status \in {"PendingOrder", "Unlocked"}
      /\ provider \in Users /\ feeRatio \in FeeRatios
      /\ period \in Periods /\ period >= MinPeriod /\ lastFee = 0 /\ now = 0
      /\ opened = Opened /\ supply = InitialTokens
      /\ tokens = [h \in Holders |-> IF h = provider THEN InitialTokens ELSE 0]
      /\ wallet = [h \in Holders |-> IF h \in Users THEN Endowment[h] ELSE Zeroes]
  BY DEF TradingInit
<1>4. /\ feeRatio \in 0 .. Scale - 1 /\ period \in Nat /\ opened \subseteq Holders
      /\ supply \in 0 .. U64 - 1 /\ supply > 0 /\ supply \in Nat
  BY <1>3, PoolAssumption, MathAssumption DEF Holders
<1>5. tokens \in [Holders -> Nat]
  BY <1>3, <1>4
<1>6. wallet \in [Holders -> [Mints -> Nat]]
  <2>1. Zeroes \in [Mints -> Nat]
    BY DEF Zeroes
  <2>2. \A u \in Users : Endowment[u] \in [Mints -> Nat]
    BY PoolAssumption
  <2> QED
    BY <1>3, <2>1, <2>2
<1>7. TypeOK
  BY <1>2, <1>3, <1>4, <1>5, <1>6 DEF TypeOK, Statuses, Initialized
<1>8. IInv
  BY <1>3, <1>4, <1>7
  DEF IInv, RetiredHasNoSupply, LiveHasSupply, FeeClockNotAhead, Initialized, Statuses
<1>9. Held
  <2>1. tokens \in [Holders -> Int] /\ provider \in Holders /\ InitialTokens \in Int
    BY <1>3, <1>4, <1>5 DEF Holders
  <2>2. \A h \in Holders : tokens[h] = IF h = provider THEN InitialTokens ELSE 0
    BY <1>3
  <2>3. SumOver(tokens, Holders) = InitialTokens
    BY <2>1, <2>2, HoldersFinite, SumOverOne
  <2> QED
    BY <1>3, <2>3 DEF Held
<1> QED
  BY <1>8, <1>9

\* A settlement leaves header and tokens alone, but for the status.
LEMMA SettleKeepsLedger ==
    ASSUME IInv, TradeInv, NEW oo \in OpenOrders, NEW coin, NEW pc,
           Settle(oo, coin, pc)
    PROVE  IInv' /\ (Held => Held')
<1>1. /\ status \in Initialized
      /\ UNCHANGED <<provider, feeRatio, period, lastFee, markets, space, supply,
                     tokens, opened, wallet, now>>
      /\ coin \in DOMAIN slots /\ pc \in DOMAIN slots
      /\ slots' = [[slots EXCEPT ![coin] = CoinOf[oo]] EXCEPT ![pc] = PcOf[oo]]
      /\ poolBal' = [m \in Mints |-> poolBal[m] + free[oo][m]]
  BY DEF Settle, MaySettle, Fits
<1>2. TypeOK
  BY DEF IInv
<1>3. status' \in Initialized /\ status' \in Statuses /\ status' # "NoAccount"
  <2>1. status' \in {status, "Unlocked", "Locked"}
    <3>1. CASE EntirelyFree(oo)
      <4>1. /\ status' = Settled(StatusOf(status, pending)).kind
        BY <3>1 DEF Settle, MaySettle
      <4> QED
        BY <4>1 DEF Settled, StatusOf
    <3>2. CASE ~EntirelyFree(oo)
      BY <3>2 DEF Settle, MaySettle
    <3> QED
      BY <3>1, <3>2
  <2> QED
    BY <1>1, <2>1 DEF Initialized, Statuses
<1>4. slots' \in Seq(Mints \cup {NoMint}) /\ Len(slots') = Len(slots)
  <2>1. CoinOf[oo] \in Mints /\ PcOf[oo] \in Mints
    BY TradingAssumption
  <2>2. slots \in Seq(Mints \cup {NoMint})
    BY <1>2 DEF TypeOK
  <2> QED
    BY <1>1, <2>1, <2>2
<1>5. poolBal' \in [Mints -> Nat]
  <2>1. \A m \in Mints : poolBal[m] \in Nat /\ free[oo][m] \in Nat
    BY <1>2 DEF TypeOK, TradeInv, TradingTypeOK, Purses
  <2> QED
    BY <1>1, <2>1
<1>6. TypeOK'
  BY <1>1, <1>2, <1>3, <1>4, <1>5 DEF TypeOK
<1>7. IInv'
  BY <1>1, <1>3, <1>6
  DEF IInv, RetiredHasNoSupply, LiveHasSupply, FeeClockNotAhead
<1>8. Held => Held'
  BY <1>1 DEF Held
<1> QED
  BY <1>7, <1>8

LEMMA StepKeepsLedger ==
    IInv /\ Held /\ TradeInv /\ [TradingNext]_trade => IInv' /\ Held'
<1> SUFFICES ASSUME IInv, Held, TradeInv, [TradingNext]_trade PROVE IInv' /\ Held'
  OBVIOUS
<1>1. ASSUME [Next]_vars PROVE IInv' /\ Held'
  <2>1. TypeOK
    BY DEF IInv
  <2> QED
    BY <1>1, <2>1, NextInv, NextHeld
<1>2. ASSUME NEW oo \in OpenOrders, SettleAny(oo) PROVE IInv' /\ Held'
  BY <1>2, SettleKeepsLedger DEF SettleAny
<1>3. ASSUME NEW oo \in OpenOrders, GiveBack(oo) PROVE UNCHANGED vars
  BY <1>3 DEF GiveBack
<1>4. ASSUME NEW oo \in OpenOrders, NEW x, NEW y, Fill(oo, x, y) PROVE UNCHANGED vars
  BY <1>4 DEF Fill
<1>5. CASE UNCHANGED trade
  BY <1>1, <1>5 DEF trade
<1> QED
  BY <1>1, <1>2, <1>3, <1>4, <1>5 DEF TradingNext, Cancel, Release

(* Settlements, fills and cancellations leave the books in order: types,   *)
(* supply and fee clock of a pool with orders are those of a pool without, *)
(* and so are the quotes of Deposit.                                       *)
THEOREM LedgerHolds ==
    TradingSpec => [](/\ IInv /\ SupplyIsHeld
                      /\ DepositIsAffordable /\ RoundTripNeverEarns
                      /\ FeesTakeAtMostTheirSum
                      /\ PeriodsOwed * (feeRatio + 1) < Scale => AlwaysUnlockable)
<1>1. TradingSpec => [](IInv /\ Held)
  BY LegacyLedger, StepKeepsLedger, TradeInvHolds, PTL DEF TradingSpec
<1>2. Held => SupplyIsHeld
  BY HeldIsSupplyIsHeld
<1>3. IInv => DepositIsAffordable /\ RoundTripNeverEarns
  BY AffordableQuote, RoundTripQuote DEF IInv
<1>4. IInv => /\ FeesTakeAtMostTheirSum
              /\ PeriodsOwed * (feeRatio + 1) < Scale => AlwaysUnlockable
  BY FeesOwedBound
<1> QED
  BY <1>1, <1>2, <1>3, <1>4, PTL

\* A step of the pool, or one that no promise about the books is about.
LEMMA LedgerStep ==
    ASSUME IInv, TradeInv, [TradingNext]_trade
    PROVE  \/ [Next]_vars
           \/ ~Redeems /\ ~BuysIn /\ ~Collects /\ ~IsRetired
<1>1. ASSUME NEW oo \in OpenOrders, NEW coin, NEW pc, Settle(oo, coin, pc)
      PROVE  ~Redeems /\ ~BuysIn /\ ~Collects /\ ~IsRetired
  <2>1. supply' = supply /\ lastFee' = lastFee /\ status \in Initialized
    BY <1>1 DEF Settle, MaySettle
  <2>2. supply \in Nat
    BY DEF IInv, TypeOK
  <2>3. status' # "Uninitialized"
    <3>1. CASE EntirelyFree(oo)
      <4>1. status' = Settled(StatusOf(status, pending)).kind
        BY <1>1, <3>1 DEF Settle, MaySettle
      <4> QED
        BY <2>1, <4>1 DEF Settled, StatusOf, Initialized
    <3>2. CASE ~EntirelyFree(oo)
      BY <1>1, <2>1, <3>2 DEF Settle, MaySettle, Initialized
    <3> QED
      BY <3>1, <3>2
  <2> QED
    BY <2>1, <2>2, <2>3 DEF Redeems, BuysIn, Collects, IsRetired
<1>2. ASSUME NEW oo \in OpenOrders, GiveBack(oo) PROVE UNCHANGED vars
  BY <1>2 DEF GiveBack
<1>3. ASSUME NEW oo \in OpenOrders, NEW x, NEW y, Fill(oo, x, y) PROVE UNCHANGED vars
  BY <1>3 DEF Fill
<1>4. CASE UNCHANGED trade
  BY <1>4 DEF trade
<1> QED
  BY <1>1, <1>2, <1>3, <1>4 DEF TradingNext, SettleAny, Cancel, Release

\* What the action properties of Pool say of one step.
StayersKeep == Redeems /\ SlotsDistinct =>
    \A m \in Mints : poolBal'[m] * supply >= poolBal[m] * supply'
EntryIsCheap == BuysIn /\ SlotsDistinct =>
    \A m \in Listed : (poolBal'[m] + 1) * supply > poolBal[m] * supply'
EntryCosts == BuysIn => \E m \in Mints : poolBal'[m] > poolBal[m]
DebtIsSettled == Collects => lastFee' <= now /\ now - lastFee' < period
FeeIsBounded == Collects =>
    LET feeless == FeelessRatio(feeRatio, FeeCycles(now, lastFee, period))
    IN  supply * (Scale - 1) >= supply' * feeless
RetiredIsEmptied == IsRetired => supply' = 0 /\ (\A m \in Listed : poolBal'[m] = 0)

FairStep == StayersKeep /\ EntryIsCheap /\ EntryCosts /\ DebtIsSettled /\ FeeIsBounded

LEMMA PoolStepIsFair ==
    ASSUME IInv, Next
    PROVE  FairStep /\ RetiredIsEmptied
<1>1. StayersKeep
  BY StayersStep DEF StayersKeep
<1>2. EntryIsCheap
  BY EntryStep DEF EntryIsCheap
<1>3. EntryCosts
  BY NoFreeTokensStep DEF EntryCosts
<1>4. DebtIsSettled
  BY CollectsIsCollectFees, CollectFeesClock DEF DebtIsSettled, IInv
<1>5. FeeIsBounded
  BY CollectionStep DEF FeeIsBounded
<1>6. RetiredIsEmptied
  BY RetirementStep DEF RetiredIsEmptied
<1> QED
  BY <1>1, <1>2, <1>3, <1>4, <1>5, <1>6 DEF FairStep

LEMMA NoStepIsFair ==
    ASSUME ~Redeems /\ ~BuysIn /\ ~Collects /\ ~IsRetired
    PROVE  FairStep /\ RetiredIsEmptied
BY DEF FairStep, StayersKeep, EntryIsCheap, EntryCosts, DebtIsSettled, FeeIsBounded,
       RetiredIsEmptied

LEMMA TradingStepIsFair ==
    IInv /\ TradeInv /\ [TradingNext]_trade => [FairStep /\ RetiredIsEmptied]_vars
BY LedgerStep, PoolStepIsFair, NoStepIsFair

LEMMA FairStepsHold ==
    [][FairStep]_vars => /\ StayersNotDiluted /\ EntryDilutesByLessThanOne
                         /\ NoFreeTokens /\ OneCollectionSuffices
                         /\ CollectionTakesAtMostTheFee
<1>1. FairStep => StayersKeep /\ EntryIsCheap /\ EntryCosts /\ DebtIsSettled /\ FeeIsBounded
  BY DEF FairStep
<1>2. [][FairStep]_vars => /\ [][StayersKeep]_vars /\ [][EntryIsCheap]_vars
                           /\ [][EntryCosts]_vars /\ [][DebtIsSettled]_vars
                           /\ [][FeeIsBounded]_vars
  BY <1>1, PTL
<1> QED
  BY <1>2, PTL
  DEF StayersKeep, EntryIsCheap, EntryCosts, DebtIsSettled, FeeIsBounded,
      StayersNotDiluted, EntryDilutesByLessThanOne, NoFreeTokens,
      OneCollectionSuffices, CollectionTakesAtMostTheFee

(* What holds of a step of the pool holds of one of a pool with orders:    *)
(* redemptions and deposits are fair to those who stay, a collection       *)
(* settles the whole debt and takes no more than the fee, and a retirement *)
(* leaves nothing, also after assets were brought home.                    *)
THEOREM LedgerStepsHold ==
    TradingSpec => /\ StayersNotDiluted /\ EntryDilutesByLessThanOne /\ NoFreeTokens
                   /\ OneCollectionSuffices /\ CollectionTakesAtMostTheFee
                   /\ RetirementLeavesNothing
<1>1. TradingSpec => [](IInv /\ TradeInv) /\ [][TradingNext]_trade
  BY LedgerHolds, TradeInvHolds, PTL DEF TradingSpec
<1>2. TradingSpec => [][FairStep]_vars /\ [][RetiredIsEmptied]_vars
  BY <1>1, TradingStepIsFair, PTL
<1>3. [][RetiredIsEmptied]_vars => RetirementLeavesNothing
  BY PTL DEF RetiredIsEmptied, RetirementLeavesNothing
<1> QED
  BY <1>2, <1>3, FairStepsHold, PTL

-----------------------------------------------------------------------------
(* The life of the pool                                                    *)

\* The account exists: TradingInit starts later, and no account is closed.
Exists == status # "NoAccount"

LEMMA InitLife == TradingInit => Exists /\ Life!Init
<1> SUFFICES ASSUME TradingInit PROVE Exists /\ Life!Init
  OBVIOUS
<1>1. pending \in 0 .. MaxOrders
  BY InitTradeInv DEF TradeInv, TradingTypeOK
<1>2. status = IF pending > 0 THEN "PendingOrder" ELSE "Unlocked"
  BY DEF TradingInit
<1> QED
  BY <1>1, <1>2 DEF Exists, Life!Init, Life!Pending, MaxOrders

\* A step of the pool alone creates it, retires it, or leaves its status.
LEMMA PoolStepLife ==
    ASSUME TradeInv, Exists, Next, pending' = pending
    PROVE  Exists' /\ [Life!Next]_<<status, pending>>
<1>1. pending > 0 <=> status \in {"PendingOrder", "LockedPendingOrder"}
  BY DEF TradeInv, TradingTypeOK, PendingKinds
<1>2. pending \in 0 .. 64
  BY DEF TradeInv, TradingTypeOK, MaxOrders
<1>3. ASSUME NEW size \in Spaces, InitPool(size) PROVE FALSE
  BY <1>3 DEF InitPool, Exists
<1>4. ASSUME CreateAny PROVE Exists' /\ Life!Create
  <2>1. status = "Uninitialized" /\ status' = "Unlocked"
    BY <1>4 DEF CreateAny, Create, MayCreate
  <2>2. pending' = 0
    BY <1>1, <1>2, <2>1
  <2> QED
    BY <2>1, <2>2 DEF Exists, Life!Create
<1>5. ASSUME NEW h \in Holders, NEW k \in Redemptions, Redeem(h, k)
      PROVE  Exists' /\ (status' = status \/ Life!Retire)
  <2>1. /\ status \in Initialized
        /\ status \notin {"PendingOrder", "LockedPendingOrder"}
        /\ status' = status \/ status' = "Uninitialized"
    BY <1>5 DEF Redeem, RedeemClosed
  <2>2. status \in {"Unlocked", "Locked"}
    BY <2>1 DEF Initialized, Statuses
  <2>3. pending' = 0
    BY <1>1, <1>2, <2>1
  <2> QED
    BY <2>1, <2>2, <2>3 DEF Exists, Life!Retire
<1>6. ASSUME NEW u \in Users, NEW ask \in Asks, Deposit(u, ask)
      PROVE  status' = status
  BY <1>6 DEF Deposit, BuyIn, header
<1>7. ASSUME CollectFees PROVE status' = status
  BY <1>7 DEF CollectFees
<1>8. ASSUME NEW h \in Holders, OpenTokenAccount(h) PROVE status' = status
  BY <1>8 DEF OpenTokenAccount, header
<1>9. ASSUME NEW u \in Users, NEW m \in Mints, NEW a \in Gifts, Gift(u, m, a)
      PROVE  status' = status
  BY <1>9 DEF Gift, header
<1>10. ASSUME NEW h \in Holders, NEW k \in Burns, BurnTokens(h, k)
       PROVE  status' = status
  BY <1>10 DEF BurnTokens, header
<1>11. ASSUME Tick PROVE status' = status
  BY <1>11 DEF Tick, header
<1>12. ASSUME status' = status PROVE Exists' /\ [Life!Next]_<<status, pending>>
  BY <1>12 DEF Exists
<1>13. ASSUME Life!Create \/ Life!Retire PROVE [Life!Next]_<<status, pending>>
  BY <1>13 DEF Life!Next
<1> QED
  BY <1>3, <1>4, <1>5, <1>6, <1>7, <1>8, <1>9, <1>10, <1>11, <1>12, <1>13 DEF Next

\* An account settled whole takes one order off the count.
LEMMA SettleLife ==
    ASSUME TradeInv, Exists, NEW oo \in OpenOrders, NEW coin, NEW pc,
           Settle(oo, coin, pc)
    PROVE  Exists' /\ [Life!Next]_<<status, pending>>
<1>1. CASE EntirelyFree(oo)
  <2>1. /\ status \in {"PendingOrder", "LockedPendingOrder"}
        /\ status' = Settled(StatusOf(status, pending)).kind
        /\ pending' = Settled(StatusOf(status, pending)).orders
    BY <1>1 DEF Settle, MaySettle, PendingKinds
  <2>2. pending \in 0 .. 64 /\ pending > 0
    BY <2>1 DEF TradeInv, TradingTypeOK, MaxOrders, PendingKinds
  <2>3. Life!SettleOne
    BY <2>1, <2>2 DEF Settled, StatusOf, Life!SettleOne, Life!Pending
  <2>4. Exists'
    BY <2>1 DEF Settled, StatusOf, Exists
  <2> QED
    BY <2>3, <2>4 DEF Life!Next
<1>2. CASE ~EntirelyFree(oo)
  BY <1>2 DEF Settle, MaySettle, Exists
<1> QED
  BY <1>1, <1>2

LEMMA StepLife ==
    TradeInv /\ Exists /\ [TradingNext]_trade
      => Exists' /\ [Life!Next]_<<status, pending>>
<1> SUFFICES ASSUME TradeInv, Exists, [TradingNext]_trade
             PROVE  Exists' /\ [Life!Next]_<<status, pending>>
  OBVIOUS
<1>1. CASE Next /\ UNCHANGED <<pending, serum>>
  BY <1>1, PoolStepLife
<1>2. ASSUME NEW oo \in OpenOrders, SettleAny(oo)
      PROVE  Exists' /\ [Life!Next]_<<status, pending>>
  BY <1>2, SettleLife DEF SettleAny
<1>3. ASSUME status' = status, pending' = pending
      PROVE  Exists' /\ [Life!Next]_<<status, pending>>
  BY <1>3 DEF Exists
<1>4. ASSUME NEW oo \in OpenOrders, GiveBack(oo)
      PROVE  status' = status /\ pending' = pending
  BY <1>4 DEF GiveBack, vars, header
<1>5. ASSUME NEW oo \in OpenOrders, NEW x, NEW y, Fill(oo, x, y)
      PROVE  status' = status /\ pending' = pending
  BY <1>5 DEF Fill, vars, header
<1>6. CASE UNCHANGED trade
  BY <1>3, <1>6 DEF trade, vars, header
<1> QED
  BY <1>1, <1>2, <1>3, <1>4, <1>5, <1>6 DEF TradingNext, Cancel, Release

(* A pool with orders implements PoolLife: it is created over no pending   *)
(* order, each account settled whole takes one order off the count and the *)
(* last one opens it with the lock it had, and it is retired only open.    *)
THEOREM TradingImplementsLife == TradingSpec => ImplementsPoolLife
<1>1. TradingInit => Exists /\ Life!Init
  BY InitLife
<1>2. TradingSpec => [](TradeInv /\ Exists)
  BY <1>1, StepLife, TradeInvHolds, PTL DEF TradingSpec
<1>3. TradeInv /\ Exists /\ [TradingNext]_trade => [Life!Next]_<<status, pending>>
  BY StepLife
<1> QED
  BY <1>1, <1>2, <1>3, PTL DEF TradingSpec, ImplementsPoolLife, Life!Spec

=============================================================================
