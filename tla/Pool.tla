-------------------------------- MODULE Pool --------------------------------
(***************************************************************************)
(* One pool of program/src/processor.rs: its account (header and asset     *)
(* slots), its mint, the token accounts it owns and those of the people    *)
(* who deal with it.  Each action is one instruction of the program that   *)
(* succeeds; an instruction that fails is rolled back whole by the runtime *)
(* and changes nothing, so every early return and every panic is a         *)
(* disabled action.  The last four actions belong to the environment: the  *)
(* SPL token program, the associated-account program and the clock.        *)
(*                                                                         *)
(* The instruction that places orders is disabled at this commit (it       *)
(* returns an error before it reads anything) and has no action here.      *)
(***************************************************************************)
EXTENDS PoolMath, Sequences, FiniteSets, FiniteSetsExt

CONSTANTS
    Users,         \* depositors; any of them may be a pool's signal provider
    Bonfida,       \* owner of the Bonfida fee account
    BuyBurn,       \* owner of the buy-and-burn fee account
    Mints,         \* the tokens a pool can hold
    NoMint,        \* the key in a zeroed asset slot
    NoOne,         \* the signal provider in a header that was never written
    InitialTokens, \* pool tokens minted by Create
    MinPeriod      \* shortest fee collection period (a week)

\* Inputs of the instructions, and bounds of the model.
CONSTANTS
    Spaces,        \* data sizes that InitPool allocates, in 32-byte words
    MarketCounts,  \* numbers of markets given to Create
    AssetLists,    \* asset lists given to Create
    Periods,       \* fee collection periods given to Create
    FeeRatios,     \* fee ratios given to Create
    Asks,          \* pool tokens asked for by Deposit
    Redemptions,   \* pool tokens given back by Redeem
    Gifts,         \* amounts sent to the pool outside any instruction
    Burns,         \* pool tokens burnt by their owner outside any instruction
    Endowment,     \* what each user holds of each token at the start
    Opened,        \* who has a pool token account from the start
    MaxTime        \* last instant of the clock

Amounts  == 0 .. U64 - 1    \* the values of a u64
Holders  == Users \cup {Bonfida, BuyBurn}
Statuses == {"NoAccount", "Uninitialized", "Unlocked", "Locked",
             "PendingOrder", "LockedPendingOrder"}
\* The statuses under which PoolHeader::unpack accepts the header.
Initialized == Statuses \ {"NoAccount", "Uninitialized"}

(* An asset list names the mints whose deposit is not zero: an entry of    *)
(* amount zero is skipped before anything is read of it.                   *)
AssetLists0 == Seq([mint : Mints, amount : Nat \ {0}])

ASSUME PoolAssumption ==
    /\ Bonfida # BuyBurn /\ Bonfida \notin Users /\ BuyBurn \notin Users
    /\ NoMint \notin Mints /\ NoOne \notin Users
    /\ IsFiniteSet(Users)
    /\ InitialTokens \in 1 .. U64 - 1
    /\ MinPeriod \in Nat \ {0}
    /\ AssetLists \subseteq AssetLists0
    /\ Spaces \subseteq Nat /\ MarketCounts \subseteq Nat
    /\ Periods \subseteq Nat /\ FeeRatios \subseteq 0 .. Scale - 1
    /\ Asks \subseteq 0 .. U64 - 1 /\ Redemptions \subseteq 0 .. U64 - 1
    /\ Gifts \subseteq Nat /\ Burns \subseteq Nat
    /\ Endowment \in [Users -> [Mints -> 0 .. U64 - 1]]
    /\ Opened \subseteq Users \cup {Bonfida, BuyBurn}
    /\ MaxTime \in Nat

VARIABLES
    status,     \* header: the pool's status
    provider,   \* header: the signal provider
    feeRatio,   \* header: the fee, in 1 / Scale
    period,     \* header: the fee collection period
    lastFee,    \* header: up to when the fees are collected
    markets,    \* header: the number of markets listed before the assets
    space,      \* words of the account that follow the header
    slots,      \* the asset slots of the account
    supply,     \* supply of the pool's mint
    tokens,     \* the pool tokens each holder has
    opened,     \* the holders who have a pool token account
    poolBal,    \* the pool's balance of each asset
    wallet,     \* each holder's balance of each asset
    now         \* Clock::unix_timestamp

header == <<status, provider, feeRatio, period, lastFee, markets>>
vars   == <<header, space, slots, supply, tokens, opened, poolBal, wallet, now>>

-----------------------------------------------------------------------------
(* The asset list of the account                                           *)

\* unpack_assets: the initialized slots, the zeroed ones skipped.
Passes(m) == Cardinality({i \in DOMAIN slots : slots[i] = m})
Listed    == {m \in Mints : \E i \in DOMAIN slots : slots[i] = m}

\* A plausible slip: the zeroed rest runs one slot past the account.
WrittenPastTheEnd(list, size) ==
    [i \in 1 .. size + 1 |-> IF i <= Len(list) THEN list[i].mint ELSE NoMint]

\* The slots that a freshly written list leaves: the assets, then zeroes.
Written(list, size) ==
    [i \in 1 .. size |-> IF i <= Len(list) THEN list[i].mint ELSE NoMint]

\* What the transfers of an asset list take of one mint.
Contributed(list, m) ==
    MapThenSumSet(LAMBDA i : list[i].amount,
                  {i \in DOMAIN list : list[i].mint = m})

-----------------------------------------------------------------------------
(* Pool tokens                                                             *)

\* A plausible slip: the rounding dust of the split is minted to nobody.
FeeForWithoutDust(h, fee) ==
      (IF h = provider THEN ProviderShare(fee) ELSE 0)
    + (IF h \in {Bonfida, BuyBurn} THEN BonfidaShare(fee) ELSE 0)

\* Who receives what of a fee.
FeeFor(h, fee) ==
      (IF h = provider THEN ProviderShare(fee) ELSE 0)
    + (IF h = Bonfida  THEN BonfidaShare(fee)  ELSE 0)
    + (IF h = BuyBurn  THEN BuyBurnShare(fee)  ELSE 0)

\* The accounts a fee is minted to; Deposit and CollectFees need all three.
FeeAccounts == {provider, Bonfida, BuyBurn}

IsLeast(x, S) == x \in S /\ \A y \in S : x <= y

-----------------------------------------------------------------------------
(* Instructions                                                            *)

Init ==
    /\ status = "NoAccount" /\ provider = NoOne
    /\ feeRatio = 0 /\ period = 0 /\ lastFee = 0 /\ markets = 0 /\ space = 0
    /\ slots = <<>>
    /\ supply = 0 /\ tokens = [h \in Holders |-> 0] /\ opened = Opened
    /\ poolBal = [m \in Mints |-> 0]
    /\ wallet = [h \in Holders |->
                   IF h \in Users THEN Endowment[h] ELSE [m \in Mints |-> 0]]
    /\ now = 0

(* Init: allocates the pool account, all zero, and its mint.  The system   *)
(* program refuses an address that exists already.                         *)
InitPool(size) ==
    /\ status = "NoAccount"
    /\ status' = "Uninitialized"
    /\ space' = size
    /\ UNCHANGED <<provider, feeRatio, period, lastFee, markets, slots, supply,
                   tokens, opened, poolBal, wallet, now>>

\* A plausible slip: a pool that exists can be created again.
MayCreateOver == status # "NoAccount"
\* Create refuses to overwrite a pool.
MayCreate == status = "Uninitialized"

\* A plausible slip: a pool created again goes on with the clock it had.
FeeClockOfLastLife == lastFee
\* The fee clock that Create writes.
FeeClock == now

(* Create: u moves the listed deposits into the pool, receives the first   *)
(* pool tokens, and names the signal provider, the fee and the markets.    *)
(* The header, the markets and the assets are written one after the other; *)
(* a list that does not fit the account fails on the slice bounds.         *)
Create(u, list, sp, nMarkets, per, ratio) ==
    /\ MayCreate
    /\ per >= MinPeriod
    /\ nMarkets + Len(list) <= space
    /\ u \in opened
    /\ \A m \in Mints : Contributed(list, m) \in 0 .. wallet[u][m]
    /\ supply + InitialTokens < U64
    /\ wallet' = [wallet EXCEPT ![u] =
                    [m \in Mints |-> wallet[u][m] - Contributed(list, m)]]
    /\ poolBal' = [m \in Mints |-> poolBal[m] + Contributed(list, m)]
    /\ supply' = supply + InitialTokens
    /\ tokens' = [tokens EXCEPT ![u] = @ + InitialTokens]
    /\ status' = "Unlocked" /\ provider' = sp
    /\ feeRatio' = ratio /\ period' = per /\ lastFee' = FeeClock
    /\ markets' = nMarkets
    /\ slots' = Written(list, space - nMarkets)
    /\ UNCHANGED <<space, opened, now>>

\* What limits a deposit: the wish, and what u can pay of each asset.
DepositLimits(u, ask) ==
    {ask} \cup {Affordable(wallet[u][m], supply, poolBal[m]) : m \in Listed}

\* What a deposit of eff pool tokens takes of a mint: once for every slot.
Paid(eff, m) == Passes(m) * DepositAmount(eff, poolBal[m], supply)

\* A plausible slip: a deposit that moves nothing is let through.
MovesNothingIgnored(eff) == FALSE
\* amounts_all_zero
MovesNothing(eff) == \A m \in Listed : DepositAmount(eff, poolBal[m], supply) = 0

\* The statuses in which Deposit answers LockedOperation.
DepositClosed == status \in {"Locked", "PendingOrder", "LockedPendingOrder"}

(* Deposit: u buys at most ask pool tokens at the pool's current ratios,   *)
(* and pays the entry fee out of them.  A pool without supply divides by   *)
(* zero.  Nothing here looks at the fee clock.  The pool token accounts in *)
(* accounts are open by then: the client opens the missing ones first, in  *)
(* the same transaction.                                                   *)
BuyIn(u, ask, accounts) ==
    /\ status \in Initialized /\ ~DepositClosed
    /\ FeeAccounts \cup {u} \subseteq accounts
    /\ supply > 0
    /\ \E eff \in DepositLimits(u, ask) :
         /\ IsLeast(eff, DepositLimits(u, ask))
         /\ ~MovesNothing(eff)
         /\ \A m \in Mints : Paid(eff, m) \in 0 .. wallet[u][m]
         /\ supply + eff < U64
         /\ wallet' = [wallet EXCEPT ![u] =
                         [m \in Mints |-> wallet[u][m] - Paid(eff, m)]]
         /\ poolBal' = [m \in Mints |-> poolBal[m] + Paid(eff, m)]
         /\ supply' = supply + eff
         /\ LET fee == DepositFee(feeRatio, eff)
            IN  tokens' = [h \in Holders |->
                             tokens[h] + FeeFor(h, fee)
                                       + (IF h = u THEN eff - fee ELSE 0)]
    /\ opened' = accounts
    /\ UNCHANGED <<header, space, slots, now>>

Deposit(u, ask) == BuyIn(u, ask, opened)

\* What makes Redeem answer that the fees should be collected first.
FeesOverdue == now - lastFee > period

\* The statuses in which Redeem answers LockedOperation.
RedeemClosed == status \in {"PendingOrder", "LockedPendingOrder"}

\* What a redemption of k pool tokens pays out of a mint.
PaidOut(k, m) == poolBal[m] - LeftAfter(k, poolBal[m], supply, Passes(m))

\* A plausible slip: the account that was emptied stays a created pool.
RetiresNever(k) == FALSE
\* A plausible slip: a holder who leaves altogether retires the pool.
RetiresWithAnyHolder(k) == \E h \in Holders : k > 0 /\ tokens[h] = k
\* Redeeming the whole supply retires the pool.
Retires(k) == k = supply

(* Redeem: h gives k pool tokens back for its part of every asset.  The    *)
(* last pool tokens retire the pool: its slots are zeroed and its status   *)
(* reset, the rest of the header stays.                                    *)
Redeem(h, k) ==
    /\ status \in Initialized /\ ~RedeemClosed
    /\ ~FeesOverdue
    /\ h \in opened
    /\ k <= tokens[h] /\ k <= supply
    /\ supply > 0 \/ Listed = {}
    /\ \A m \in Mints : PaidOut(k, m) \in 0 .. poolBal[m]
    /\ poolBal' = [m \in Mints |-> poolBal[m] - PaidOut(k, m)]
    /\ wallet' = [wallet EXCEPT ![h] =
                    [m \in Mints |-> wallet[h][m] + PaidOut(k, m)]]
    /\ supply' = supply - k
    /\ tokens' = [tokens EXCEPT ![h] = @ - k]
    /\ IF Retires(k)
       THEN /\ status' = "Uninitialized"
            /\ slots' = [i \in DOMAIN slots |-> NoMint]
       ELSE UNCHANGED <<status, slots>>
    /\ UNCHANGED <<provider, feeRatio, period, lastFee, markets, space, opened,
                   now>>

\* A plausible slip: the period that has begun is counted as well.
FeeClockAfterBegun(cycles) == lastFee + (cycles + 1) * period
\* A plausible slip: one period, however many were collected.
FeeClockAfterOne(cycles) == lastFee + period
\* A plausible slip: the clock is not written back.
FeeClockForgotten(cycles) == lastFee
\* The fee clock after a collection: whole periods only.
FeeClockAfter(cycles) == lastFee + cycles * period

(* CollectFees: anyone may have the fees of the whole periods since the    *)
(* last collection minted to the three fee accounts.  A remaining share of *)
(* zero divides by zero.                                                   *)
CollectFees ==
    /\ status \in Initialized
    /\ FeeAccounts \subseteq opened
    /\ LET cycles == FeeCycles(now, lastFee, period)
       IN  /\ cycles > 0
           /\ \E feeless \in 1 .. Scale - 1 :
                /\ feeless = FeelessRatio(feeRatio, cycles)
                /\ supply + FeeTokens(feeless, supply) < U64
                /\ supply' = supply + FeeTokens(feeless, supply)
                /\ tokens' = [h \in Holders |->
                     tokens[h] + FeeFor(h, FeeTokens(feeless, supply))]
           /\ lastFee' = FeeClockAfter(cycles)
    /\ UNCHANGED <<status, provider, feeRatio, period, markets, space, slots,
                   opened, poolBal, wallet, now>>

-----------------------------------------------------------------------------
(* The environment                                                         *)

\* Anyone may open the pool token account of anyone.
OpenTokenAccount(h) ==
    /\ status # "NoAccount"
    /\ h \notin opened
    /\ opened' = opened \cup {h}
    /\ UNCHANGED <<header, space, slots, supply, tokens, poolBal, wallet, now>>

\* A token account of the pool receives a plain transfer.
Gift(u, m, amount) ==
    /\ status # "NoAccount"
    /\ amount <= wallet[u][m]
    /\ wallet' = [wallet EXCEPT ![u][m] = @ - amount]
    /\ poolBal' = [poolBal EXCEPT ![m] = @ + amount]
    /\ UNCHANGED <<header, space, slots, supply, tokens, opened, now>>

\* The owner of pool tokens burns them through the token program.
BurnTokens(h, k) ==
    /\ k <= tokens[h] /\ k <= supply
    /\ tokens' = [tokens EXCEPT ![h] = @ - k]
    /\ supply' = supply - k
    /\ UNCHANGED <<header, space, slots, opened, poolBal, wallet, now>>

Tick ==
    /\ now < MaxTime
    /\ now' = now + 1
    /\ UNCHANGED <<header, space, slots, supply, tokens, opened, poolBal, wallet>>

CreateAny ==
    \E u \in Users, list \in AssetLists, sp \in Users, n \in MarketCounts,
       per \in Periods, ratio \in FeeRatios : Create(u, list, sp, n, per, ratio)

Next ==
    \/ \E size \in Spaces : InitPool(size)
    \/ CreateAny
    \/ \E u \in Users, ask \in Asks : Deposit(u, ask)
    \/ \E h \in Holders, k \in Redemptions : Redeem(h, k)
    \/ CollectFees
    \/ \E h \in Holders : OpenTokenAccount(h)
    \/ \E u \in Users, m \in Mints, a \in Gifts : Gift(u, m, a)
    \/ \E h \in Holders, k \in Burns : BurnTokens(h, k)
    \/ Tick

Spec == Init /\ [][Next]_vars

-----------------------------------------------------------------------------
(* Type invariant                                                          *)

(* Every variable stays in the range of the field it models; the list of   *)
(* markets and the asset slots fit the data that Init allocated.           *)
TypeOK ==
    /\ status \in Statuses
    /\ provider \in Users \cup {NoOne}
    /\ feeRatio \in 0 .. Scale - 1
    /\ period \in Nat /\ lastFee \in Nat /\ now \in Nat
    /\ markets \in Nat /\ space \in Nat
    /\ slots \in Seq(Mints \cup {NoMint})
    /\ markets + Len(slots) <= space
    /\ supply \in 0 .. U64 - 1
    /\ tokens \in [Holders -> Nat]
    /\ opened \subseteq Holders
    /\ poolBal \in [Mints -> Nat]
    /\ wallet \in [Holders -> [Mints -> Nat]]
    /\ status = "NoAccount" => slots = <<>> /\ markets = 0
    /\ status \in Initialized => provider \in Users /\ period >= MinPeriod

-----------------------------------------------------------------------------
(* Safety                                                                  *)

(* The supply of the mint is what the holders have: the parts that Deposit *)
(* and CollectFees mint add up, also when the fee is not divisible by four *)
(* and when one account is both the depositor and the signal provider.     *)
SupplyIsHeld == supply = MapThenSumSet(LAMBDA h : tokens[h], Holders)

(* A pool that is not created, or is retired, has no pool tokens left, so  *)
(* that the pool tokens of one life never claim the assets of the next.    *)
RetiredHasNoSupply == status \notin Initialized => supply = 0

(* As long as pool tokens are only burnt by Redeem, a created pool keeps a *)
(* supply: the divisions of Deposit and Redeem by it do not fail.          *)
LiveHasSupply == Burns = {} => (status \in Initialized => supply > 0)

(* The fee clock never runs ahead of the clock: `current - last` in Redeem *)
(* and CollectFees is computed in u64 and would wrap around.               *)
FeeClockNotAhead == lastFee <= now

\* The whole periods of a created pool that are not collected yet.
PeriodsOwed ==
    IF status \in Initialized THEN FeeCycles(now, lastFee, period) ELSE 0

(* However late the fees are collected: compounded and truncated, they     *)
(* take no more of the pool than their sum, each counted one step of the   *)
(* ratio higher.  A collection can divide by zero only when what is owed   *)
(* adds up to the whole pool.                                              *)
FeesTakeAtMostTheirSum ==
    PeriodsOwed > 0 =>
      FeelessRatio(feeRatio, PeriodsOwed) + PeriodsOwed * (feeRatio + 1) >= Scale

\* The asset list names no mint twice.
SlotsDistinct == \A m \in Mints : Passes(m) <= 1

(* What Deposit computes from the source balances is payable from them:    *)
(* no transfer fails half way through its loop over the assets.            *)
DepositIsAffordable ==
    status = "Unlocked" /\ SlotsDistinct /\ supply > 0 =>
      \A u \in Users, ask \in Amounts : \A eff \in DepositLimits(u, ask) :
        IsLeast(eff, DepositLimits(u, ask)) =>
          \A m \in Mints : Paid(eff, m) <= wallet[u][m]

(* Buying into a pool and selling out at once never earns any asset,       *)
(* however the roundings of the two instructions fall.                     *)
RoundTripNeverEarns ==
    status = "Unlocked" /\ SlotsDistinct /\ supply > 0 =>
      \A u \in Users, ask \in Amounts : \A eff \in DepositLimits(u, ask) :
        IsLeast(eff, DepositLimits(u, ask)) =>
          \A m \in Listed :
            RedeemAmount(eff, poolBal[m] + Paid(eff, m), supply + eff)
              <= Paid(eff, m)

-----------------------------------------------------------------------------
(* Action properties                                                       *)

\* The steps that redeem, buy in, and collect, told by what they change.
Redeems  == status \in Initialized /\ supply' < supply
BuysIn   == status \in Initialized /\ supply' > supply /\ lastFee' = lastFee
Collects == status \in Initialized /\ status' = status /\ lastFee' # lastFee
IsDrained == status \in Initialized /\ supply = 0 /\ Listed # {}
IsRetired == status \in Initialized /\ status' = "Uninitialized"

(* Whoever leaves does not dilute those who stay: no asset of the pool     *)
(* backs a remaining pool token with less than before.                     *)
StayersNotDiluted ==
    [][Redeems /\ SlotsDistinct =>
         \A m \in Mints : poolBal'[m] * supply >= poolBal[m] * supply']_vars

(* Whoever enters dilutes the others by less than one unit of each asset:  *)
(* the rounding of one deposit is all that is ever lost to it.             *)
EntryDilutesByLessThanOne ==
    [][BuysIn /\ SlotsDistinct =>
         \A m \in Listed : (poolBal'[m] + 1) * supply > poolBal[m] * supply']_vars

(* Nobody is given pool tokens for nothing: a deposit moves some asset     *)
(* into the pool (the amounts_all_zero test).                              *)
NoFreeTokens ==
    [][BuysIn => \E m \in Mints : poolBal'[m] > poolBal[m]]_vars

(* The redemption that retires the pool empties every asset it lists: no   *)
(* balance stays behind the zeroed slots.                                  *)
RetirementLeavesNothing ==
    [][IsRetired =>
         supply' = 0 /\ (\A m \in Listed : poolBal'[m] = 0)]_vars

(* Burning the last pool tokens through the token program, and not by      *)
(* Redeem, strands the pool for good: nobody can enter it, retire it or    *)
(* create it again, and its assets stay where they are or grow.            *)
DrainedPoolIsStuck ==
    [][IsDrained =>
         /\ status' = status /\ supply' = 0 /\ slots' = slots
         /\ \A m \in Mints : poolBal'[m] >= poolBal[m]]_vars

(* One collection settles the whole debt: whatever the number of periods   *)
(* that went by, Redeem does not ask for the fees again right after it.    *)
OneCollectionSuffices ==
    [][Collects => lastFee' <= now /\ now - lastFee' < period]_vars

(* A collection takes no more than the fee: the supply that was there      *)
(* before keeps feeless / Scale of the pool, up to the width of a ratio.   *)
CollectionTakesAtMostTheFee ==
    [][Collects =>
         LET feeless == FeelessRatio(feeRatio, FeeCycles(now, lastFee, period))
         IN  supply * (Scale - 1) >= supply' * feeless]_vars

-----------------------------------------------------------------------------
(* What a pool promises                                                    *)

Shares == INSTANCE ShareLedger
            WITH live <- status \in Initialized, basket <- Listed,
                 stock <- poolBal, purse <- wallet, shares <- tokens,
                 fee <- feeRatio, owed <- PeriodsOwed

(* The pool implements the ledger of shares: an instruction, and what      *)
(* others do around it, moves only what its signer owns and at the ratio   *)
(* of the pool, and a new life owes nothing from the one before.           *)
ImplementsShares == Shares!Spec

\* What is promised is promised of pools whose lists name no mint twice.
ListsDistinct ==
    \A list \in AssetLists : \A i, j \in DOMAIN list :
      list[i].mint = list[j].mint => i = j

-----------------------------------------------------------------------------
(* Liveness                                                                *)

(* CollectFees and the opening of a token account are permissionless: the  *)
(* holder who wants to leave can run both, so neither is put off forever.  *)
Fairness == WF_vars(CollectFees) /\ \A h \in Holders : WF_vars(OpenTokenAccount(h))
FairSpec == Spec /\ Fairness

(* Overdue fees do not keep the holders in the pool: they are collected in *)
(* the end, or the last holder has left.                                   *)
OverdueFeesGetCollected ==
    (status \in Initialized /\ FeesOverdue) ~>
        (status \notin Initialized \/ ~FeesOverdue)

-----------------------------------------------------------------------------
(* What the documentation says and the code does not                       *)

\* `It is always possible for users to unlock the pool' (js/README.md).
AlwaysUnlockable ==
    status \in Initialized /\ FeesOverdue =>
        FeelessRatio(feeRatio, FeeCycles(now, lastFee, period)) > 0

\* `Pool tokens which are redeemable for a commensurate proportion of pool
\* assets' (js/README.md), also when Create was given a mint twice.
RedemptionIsCommensurate ==
    [][Redeems => \A m \in Mints :
         (poolBal[m] - poolBal'[m]) * supply <= (supply - supply') * poolBal[m]]_vars
=============================================================================
