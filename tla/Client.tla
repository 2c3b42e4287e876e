------------------------------- MODULE Client --------------------------------
(***************************************************************************)
(* The client of a pool (js/src/main.ts): it reads the pool's account,     *)
(* composes a transaction from what it read, and sends it.  By the time    *)
(* the program takes the transaction the pool may have moved on, even      *)
(* through a retirement into its next life, or the transaction may have    *)
(* expired.  An instruction finds its accounts by their place in the       *)
(* client's list, and how many it takes depends on the pool at that time.  *)
(***************************************************************************)
EXTENDS Trading, AccountLists

CONSTANT MaxMail    \* bound: transactions under way

\* The pool owns its accounts under a derived key, which is nobody's wallet.
ASSUME ClientAssumption == "pool" \notin Holders

VARIABLE mail       \* the transactions under way

client == <<trade, mail>>

-----------------------------------------------------------------------------
(* What the client reads                                                   *)

\* The elements of a sequence that are not in a set, in their order.
Without(s, out) ==
    LET kept[i \in 0 .. Len(s)] ==
          IF i = 0 THEN <<>>
          ELSE IF s[i] \in out THEN kept[i - 1] ELSE Append(kept[i - 1], s[i])
    IN  kept[Len(s)]

\* unpack_assets, which the program and the client have alike.
Assets == Without(slots, {NoMint})

\* A plausible slip: positions are counted from one.
SlotAfter(m) == LET i == CHOOSE i \in DOMAIN Assets : Assets[i] = m IN i + 1
(* The slot that the client names for a mint: its first position among the *)
(* assets, whether or not there are zeroed slots before it.                *)
SlotOf(m) == CHOOSE i \in DOMAIN Assets :
               Assets[i] = m /\ \A j \in 1 .. i - 1 : Assets[j] # m

AssetAccounts(owner) == [i \in DOMAIN Assets |-> Token(owner, Assets[i])]

\* The three accounts that a fee goes to, as the client names them.
FeeReceivers == <<provider, Bonfida, BuyBurn>>

\* A plausible slip: accounts are created without a look whether they exist.
MissingUnasked(u) == <<u>> \o FeeReceivers
\* findAndCreateAssociatedAccount, for each of the accounts of a deposit.
Missing(u) == Without(<<u>> \o FeeReceivers, opened)

DepositOf(u, ask) ==
    [op |-> "deposit", by |-> u, amount |-> ask, fees |-> FeeReceivers,
     opens |-> Missing(u),
     accounts |-> deposit(AssetAccounts("pool"), AssetAccounts(u))]

RedemptionOf(h, k) ==
    [op |-> "redeem", by |-> h, amount |-> k,
     accounts |-> redeem(AssetAccounts("pool"), AssetAccounts(h))]

SettlementOf(oo) ==
    [op |-> "settle", oo |-> oo,
     coin |-> SlotOf(CoinOf[oo]), pc |-> SlotOf(PcOf[oo])]

CollectionNow == [op |-> "collect", fees |-> FeeReceivers]

-----------------------------------------------------------------------------
(* Composing and sending                                                   *)

Sends(r) ==
    /\ r \notin mail /\ Cardinality(mail) < MaxMail
    /\ mail' = mail \cup {r}
    /\ UNCHANGED trade

ComposeDeposit(u, ask) == Sends(DepositOf(u, ask))
ComposeRedeem(h, k)    == Sends(RedemptionOf(h, k))
\* A market with a mint that the pool does not list has no position to name.
ComposeSettle(oo)      == MarketOf(oo) \subseteq Listed /\ Sends(SettlementOf(oo))
ComposeCollect         == Sends(CollectionNow)

-----------------------------------------------------------------------------
(* What the program makes of it                                            *)

\* The account that a handler takes as the i-th of a role.
Taken(list, roles, role, i) ==
    list[CHOOSE p \in DOMAIN roles : roles[p] = role /\ Place(roles, p) = i]

\* The accounts of the fees are derived again from the header.
FeesChecked(r) == r.fees = FeeReceivers

(* A deposit is asked for under the keys of its list.  Creating a token    *)
(* account that exists already fails, and the transaction with it.         *)
ProcessDeposit(r) ==
    LET roles    == DepositTakes(Len(Assets))
        at(x, i) == Taken(r.accounts, roles, x, i)
    IN  /\ r.op = "deposit"
        /\ \A i, j \in DOMAIN r.opens : i # j => r.opens[i] # r.opens[j]
        /\ \A i \in DOMAIN r.opens : r.opens[i] \notin opened
        /\ Len(r.accounts) >= Len(roles)
        /\ at("owner", 1).signer
        /\ FeesChecked(r)
        /\ \A i \in DOMAIN Assets : at("asset", i).key = Token("pool", Assets[i])
        /\ BuyIn(r.by, r.amount,
                 opened \cup {r.opens[i] : i \in DOMAIN r.opens})

\* A plausible slip: the accounts of the assets are taken as they come.
AnyAccount(key, m) == key.owner = "pool"
\* `Provided pool asset account is invalid' otherwise.
IsPoolAsset(key, m) == key = Token("pool", m)

(* What the accounts hold after the first i transfers of a redemption.     *)
(* Each is computed from the balance of the account that was given, and a  *)
(* transfer between an account and itself moves nothing.                   *)
Left(r) ==
    LET n == Len(Assets)
        at(x, i) == Taken(r.accounts, RedeemTakes(n), x, i)
        left[i \in 0 .. n] ==
          IF i = 0 THEN poolBal
          ELSE LET m   == at("asset", i).key.mint
                   due == RedeemAmount(r.amount, left[i - 1][m], supply)
               IN  IF at("target", i).key = at("asset", i).key
                   THEN left[i - 1]
                   ELSE [left[i - 1] EXCEPT ![m] = @ - due]
    IN  left

(* Redeem, transfer by transfer: the token program refuses a transfer      *)
(* between two mints, unless nothing is due and no transfer is made.       *)
ProcessRedeem(r) ==
    LET n        == Len(Assets)
        roles    == RedeemTakes(n)
        at(x, i) == Taken(r.accounts, roles, x, i)
        left     == Left(r)
        due(i)   == RedeemAmount(r.amount, left[i - 1][at("asset", i).key.mint],
                                 supply)
    IN  /\ r.op = "redeem"
        /\ Len(r.accounts) >= Len(roles)
        /\ at("owner", 1).signer
        /\ status \in Initialized /\ ~RedeemClosed /\ ~FeesOverdue
        /\ r.by \in opened
        /\ r.amount <= tokens[r.by] /\ r.amount <= supply
        /\ supply > 0 \/ n = 0
        /\ \A i \in 1 .. n :
             /\ IsPoolAsset(at("asset", i).key, Assets[i])
             /\ due(i) # 0 => at("target", i).key.mint = at("asset", i).key.mint
        /\ poolBal' = left[n]
        /\ wallet' = [wallet EXCEPT ![r.by] =
                        [m \in Mints |-> @[m] + (poolBal[m] - left[n][m])]]
        /\ supply' = supply - r.amount
        /\ tokens' = [tokens EXCEPT ![r.by] = @ - r.amount]
        /\ IF Retires(r.amount)
           THEN /\ status' = "Uninitialized"
                /\ slots' = [i \in DOMAIN slots |-> NoMint]
           ELSE UNCHANGED <<status, slots>>
        /\ UNCHANGED <<provider, feeRatio, period, lastFee, markets, space,
                       opened, now>>

ProcessSettle(r)  == r.op = "settle" /\ Settle(r.oo, r.coin, r.pc)
ProcessCollect(r) == r.op = "collect" /\ FeesChecked(r) /\ CollectFees

\* A transaction is taken once.
Process(r) ==
    /\ mail' = mail \ {r}
    /\ \/ ProcessDeposit(r) /\ UNCHANGED <<pending, serum>>
       \/ ProcessRedeem(r) /\ UNCHANGED <<pending, serum>>
       \/ ProcessSettle(r)
       \/ ProcessCollect(r) /\ UNCHANGED <<pending, serum>>

\* A transaction fails, or is never taken before its blockhash expires.
Expire(r) ==
    /\ mail' = mail \ {r}
    /\ UNCHANGED trade

ClientInit == TradingInit /\ mail = {}

ClientNext ==
    \/ TradingNext /\ UNCHANGED mail
    \/ \E u \in Users, ask \in Asks : ComposeDeposit(u, ask)
    \/ \E h \in Holders, k \in Redemptions : ComposeRedeem(h, k)
    \/ \E oo \in OpenOrders : ComposeSettle(oo)
    \/ ComposeCollect
    \/ \E r \in mail : Process(r)
    \/ \E r \in mail : Expire(r)

ClientSpec == ClientInit /\ [][ClientNext]_client

-----------------------------------------------------------------------------
(* Properties                                                              *)

(* A redemption's list that is cut where the assets of the pool end now,   *)
(* and then names one of the pool's accounts as its own target.  Only one  *)
(* composed of a pool that listed a mint twice can come to that.           *)
PaysItself(r) ==
    /\ r.op = "redeem"
    /\ \E i \in 1 .. Len(Assets) :
         LET target == 6 + Len(Assets) + i
         IN  /\ target <= Len(r.accounts)
             /\ r.accounts[target].key = r.accounts[6 + i].key

(* However stale a transaction is when the program takes it, what it does  *)
(* is a step that the pool allows on purpose: nobody is paid from a list   *)
(* of an earlier life less or more than is due, and nobody pays for it.    *)
BuyInOpening ==
    \E u \in Users, ask \in Asks :
      /\ BuyIn(u, ask, opened \cup FeeAccounts \cup {u})
      /\ UNCHANGED <<pending, serum>>
StaleRequestsAreSteps ==
    [][(\A r \in mail \ mail' : ~PaysItself(r)) => TradingNext \/ BuyInOpening]_trade

(* What the client composes of the pool as it is, the program serves: the  *)
(* redemption or the deposit that the pool allows at all is the one that   *)
(* the composed accounts bring about, whatever the list repeats and        *)
(* whichever accounts are still to be opened.  Only a signal provider who  *)
(* deposits without an account has it opened twice.                        *)
FreshRequestsAreServed ==
    [][/\ \A h \in Holders, k \in Redemptions :
            Redeem(h, k) => ProcessRedeem(RedemptionOf(h, k))
       /\ \A u \in Users, ask \in Asks :
            /\ u # provider \/ u \in opened
            /\ BuyIn(u, ask, opened \cup FeeAccounts \cup {u})
            => ProcessDeposit(DepositOf(u, ask))]_trade

\* The assets of the account come without a gap, the zeroed slots after them.
NoGap == \A i, j \in DOMAIN slots : i < j /\ slots[i] = NoMint => slots[j] = NoMint

(* Where the list has no gap, the slots that the client names for the two  *)
(* mints are such that free funds can come home to them, now and with      *)
(* whatever was settled before.                                            *)
ClientSettlesFreeFunds ==
    NoGap => \A oo \in OpenOrders :
      HasFunds(oo) => MaySettle(oo, SlotOf(CoinOf[oo]), SlotOf(PcOf[oo]))

(* Serum's crank runs; whoever wants a pool unlocked settles its accounts  *)
(* through the client again and again, and some transaction gets through.  *)
(* Composing is strongly fair since only the model's mail can be full.     *)
Settles(oo) == \E r \in mail : r.op = "settle" /\ r.oo = oo /\ Process(r)
ClientFairness ==
    /\ \A oo \in OpenOrders :
         /\ WF_client(Release(oo) /\ UNCHANGED mail)
         /\ SF_client(ComposeSettle(oo)) /\ SF_client(Settles(oo))
    /\ WF_client(\E r \in mail : Expire(r))
ClientFairSpec == ClientSpec /\ ClientFairness

\* `A locked pool is unlockable by anyone', with the client's settleFunds.
ClientsUnlock == []<>(status \notin PendingKinds)

=============================================================================
