------------------------------ MODULE Trading -------------------------------
(***************************************************************************)
(* A pool with orders on Serum: Pool, and the open-orders accounts that    *)
(* hold the part of its assets that is out on the market.                  *)
(*                                                                         *)
(* At this commit process_create_order fails before it reads anything, so  *)
(* no step places an order: the module starts from the pools that an       *)
(* earlier deployment left with orders placed, which Settle and Cancel     *)
(* still serve.  Of these accounts the program reads two numbers a mint,   *)
(* the free and the total, and moves them with Serum's settle_funds and    *)
(* cancel_order.  Serum itself is external: its permissionless crank fills *)
(* an order in part, and releases what is left of it.                      *)
(***************************************************************************)
EXTENDS Pool, PoolStatus

CONSTANTS
    OpenOrders,     \* the open-orders accounts of the pool
    CoinOf, PcOf,   \* the two mints of the market of each of them
    Legacy,         \* pools with orders placed: [slots, poolBal, total]
    Proceeds        \* bound: what a fill can bring

MarketOf(oo) == {CoinOf[oo], PcOf[oo]}
Purses       == [OpenOrders -> [Mints -> Nat]]

\* The open-orders accounts that hold anything of the pool.
Used(purses) == {oo \in OpenOrders : \E m \in Mints : purses[oo][m] # 0}
Zeroes == [m \in Mints |-> 0]

(* CreateOrder tested the slot of the mint it sold, and wrote the mint it  *)
(* bought to the slot that its caller named: what it left behind lists     *)
(* both mints of the market of every order, some perhaps twice, perhaps    *)
(* with zeroed slots in between.                                           *)

ASSUME TradingAssumption ==
    /\ CoinOf \in [OpenOrders -> Mints] /\ PcOf \in [OpenOrders -> Mints]
    /\ \A oo \in OpenOrders : CoinOf[oo] # PcOf[oo]
    /\ IsFiniteSet(OpenOrders) /\ Cardinality(OpenOrders) <= MaxOrders
    /\ Proceeds \subseteq Nat \ {0}
    /\ \A p \in Legacy :
         /\ p.slots \in Seq(Mints \cup {NoMint})
         /\ p.poolBal \in [Mints -> Nat]
         /\ p.total \in Purses
         /\ \A oo \in OpenOrders : \A m \in Mints \ MarketOf(oo) : p.total[oo][m] = 0
         /\ \A oo \in Used(p.total) : \A m \in MarketOf(oo) :
              \E i \in DOMAIN p.slots : p.slots[i] = m

VARIABLES
    pending,    \* header: the number carried by a pending status
    total,      \* of each open-orders account: native_coin_total, native_pc_total
    free        \* native_coin_free, native_pc_free

serum == <<total, free>>
trade == <<vars, pending, serum>>

(* The pool as an earlier CreateOrder left it: every account with an order *)
(* is counted once, when its first order is placed, and nothing is filled. *)
TradingInit ==
    /\ \E p \in Legacy :
         /\ slots = p.slots /\ poolBal = p.poolBal /\ total = p.total
         /\ markets = 1 /\ space = markets + Len(p.slots)
         /\ pending = Cardinality(Used(p.total))
    /\ free = [oo \in OpenOrders |-> Zeroes]
    /\ status = (IF pending > 0 THEN "PendingOrder" ELSE "Unlocked")
    /\ provider \in Users /\ feeRatio \in FeeRatios
    /\ period \in {p \in Periods : p >= MinPeriod} /\ lastFee = 0 /\ now = 0
    /\ opened = Opened /\ supply = InitialTokens
    /\ tokens = [h \in Holders |-> IF h = provider THEN InitialTokens ELSE 0]
    /\ wallet = [h \in Holders |-> IF h \in Users THEN Endowment[h] ELSE Zeroes]

-----------------------------------------------------------------------------
(* Instructions                                                            *)

\* A plausible slip: the coins still on the book are overlooked.
NothingOnPcSide(oo) == free[oo][PcOf[oo]] = total[oo][PcOf[oo]]
\* `This means the order can be entirely settled.'
EntirelyFree(oo) ==
    /\ free[oo][PcOf[oo]]   = total[oo][PcOf[oo]]
    /\ free[oo][CoinOf[oo]] = total[oo][CoinOf[oo]]

\* A plausible slip: an account that was settled already is settled again.
FundsNotAsked(oo) == TRUE
\* `No funds to settle' otherwise, which rolls the packed header back.
HasFunds(oo) == \E m \in MarketOf(oo) : free[oo][m] # 0

\* A plausible slip: the slot has to be empty.
FitsOnlyZeroed(i, m) == i \in DOMAIN slots /\ slots[i] = NoMint
\* A plausible slip: the mint that the slot lists is not compared.
FitsAnywhere(i, m) == i \in DOMAIN slots
\* A slot that Settle may write a mint to: its own, or a zeroed one.
Fits(i, m) == i \in DOMAIN slots /\ slots[i] \in {NoMint, m}

\* What SettleFunds asks before it settles an account into two slots.
MaySettle(oo, coin, pc) ==
    /\ status \in Initialized
    /\ Fits(coin, CoinOf[oo]) /\ Fits(pc, PcOf[oo])
    /\ EntirelyFree(oo) => status \in PendingKinds
    /\ HasFunds(oo)

(* SettleFunds: anyone may bring the free funds of an open-orders account  *)
(* back into the pool, and names the slots of the two mints.               *)
Settle(oo, coin, pc) ==
    /\ MaySettle(oo, coin, pc)
    /\ IF EntirelyFree(oo)
       THEN LET s == Settled(StatusOf(status, pending))
            IN  status' = s.kind /\ pending' = s.orders
       ELSE UNCHANGED <<status, pending>>
    /\ slots' = [[slots EXCEPT ![coin] = CoinOf[oo]] EXCEPT ![pc] = PcOf[oo]]
    /\ poolBal' = [m \in Mints |-> poolBal[m] + free[oo][m]]
    /\ total' = [total EXCEPT ![oo] = [m \in Mints |-> @[m] - free[oo][m]]]
    /\ free' = [free EXCEPT ![oo] = Zeroes]
    /\ UNCHANGED <<provider, feeRatio, period, lastFee, markets, space, supply,
                   tokens, opened, wallet, now>>

SettleAny(oo) == \E coin, pc \in DOMAIN slots : Settle(oo, coin, pc)

\* Serum gives the unfilled part of an order back to its account.
GiveBack(oo) ==
    /\ free[oo] # total[oo]
    /\ free' = [free EXCEPT ![oo] = total[oo]]
    /\ UNCHANGED <<vars, pending, total>>

\* CancelOrder: signed by the signal provider; nothing of the pool changes.
Cancel(signer, oo) ==
    /\ status \in Initialized
    /\ signer = provider
    /\ GiveBack(oo)

-----------------------------------------------------------------------------
(* Serum                                                                   *)

\* Part of an order is matched: x of one mint is sold for y of the other.
Fill(oo, x, y) ==
    \E m, n \in MarketOf(oo) :
      /\ m # n
      /\ x \in 1 .. total[oo][m] - free[oo][m]
      /\ total' = [total EXCEPT ![oo][m] = @ - x, ![oo][n] = @ + y]
      /\ free' = [free EXCEPT ![oo][n] = @ + y]
      /\ UNCHANGED <<vars, pending>>

\* The end of an immediate-or-cancel order, as the crank consumes it.
Release(oo) == GiveBack(oo)

TradingNext ==
    \/ Next /\ UNCHANGED <<pending, serum>>
    \/ \E oo \in OpenOrders : SettleAny(oo)
    \/ \E u \in Users, oo \in OpenOrders : Cancel(u, oo)
    \/ \E oo \in OpenOrders, x, y \in Proceeds : Fill(oo, x, y)
    \/ \E oo \in OpenOrders : Release(oo)

TradingSpec == TradingInit /\ [][TradingNext]_trade

-----------------------------------------------------------------------------
(* Properties                                                              *)

(* The numbers that the program reads of Serum, and the count of the       *)
(* header, are in range; only a pending status carries a count.            *)
TradingTypeOK ==
    /\ pending \in 0 .. MaxOrders
    /\ total \in Purses /\ free \in Purses
    /\ \A oo \in OpenOrders, m \in Mints : free[oo][m] <= total[oo][m]
    /\ pending > 0 <=> status \in PendingKinds

(* The pool opens exactly when all its assets are home: the count of the   *)
(* header is the number of open-orders accounts that hold some of them,    *)
(* in whatever order they are filled, settled in part, and settled whole.  *)
CountIsAccountsInUse == pending = Cardinality(Used(total))

(* Whatever slots the callers of settlements name, and whatever zeroed     *)
(* slots they fill, both mints of an account in use keep a slot: the next  *)
(* settlement can always be given its own, and what it brings home is on   *)
(* the list that Redeem pays from.                                         *)
UsedMarketsStayListed ==
    \A oo \in Used(total) : \A m \in MarketOf(oo) : m \in Listed

(* Whatever a fill or a cancellation has set free can be brought home at   *)
(* once: the status counts its account, both mints have a slot to name,    *)
(* and no settlement of the other accounts was in the way.                 *)
FreeFundsCanComeHome ==
    \A oo \in OpenOrders :
      HasFunds(oo) => \E coin, pc \in DOMAIN slots : MaySettle(oo, coin, pc)

\* Pool tokens are exchanged for assets of the pool.
Trades == supply' # supply /\ poolBal' # poolBal

(* Nobody buys in or redeems at balances that lack what is on the market,  *)
(* and a pool is not created over its own pending orders.                  *)
NoTradeWhileAssetsAreOut == [][Trades => Used(total) = {}]_trade

\* The status and its count, without anything that moves them.
Life == INSTANCE PoolLife WITH kind <- status, orders <- pending

(* The pool lives the life of PoolLife: the guards of five instructions    *)
(* and the books of Serum never let the status go another way than created *)
(* unlocked, settled one account at a time, and retired with none pending. *)
ImplementsPoolLife == Life!Spec

(* Cranking Serum, settling, collecting the fees and opening an account    *)
(* are all permissionless: the holder who wants to leave can do each.      *)
TradingFairness ==
    /\ Fairness
    /\ \A oo \in OpenOrders : WF_trade(Release(oo)) /\ WF_trade(SettleAny(oo))
TradingFairSpec == TradingSpec /\ TradingFairness

\* Neither lock of the pool is on.
CanLeave == status \notin Initialized \/ (~RedeemClosed /\ ~FeesOverdue)

(* Whatever the orders and the fees, the holders can leave in the end.     *)
HoldersCanLeaveInTheEnd == []<>CanLeave
=============================================================================
