---------------------------- MODULE AccountLists ----------------------------
(***************************************************************************)
(* The accounts of a transaction on a pool.  An instruction names them by  *)
(* their place in a list: the builders of instruction.rs, and those of the *)
(* client in instructions.ts, write the list; the handlers of processor.rs *)
(* take one account after the other from it.  Nothing but the order tells  *)
(* the two sides which account is which.                                   *)
(***************************************************************************)
EXTENDS Naturals, Sequences, FiniteSets

(* A key is known by whose account it is: an account there is one of goes  *)
(* by its role, the token accounts of a wallet by the mint as well.  The   *)
(* account of the caller's pool tokens is the target of a deposit and the  *)
(* source of a redemption.                                                 *)
The(role)           == [owner |-> role, mint |-> 0]
Token(wallet, mint) == [owner |-> wallet, mint |-> mint]

\* AccountMeta: a key with what the transaction lets the program do with it.
Meta(k, w, s) == [key |-> k, writable |-> w, signer |-> s]
Readonly(roles) == [i \in DOMAIN roles |-> Meta(The(roles[i]), FALSE, FALSE)]
Writable(roles) == [i \in DOMAIN roles |-> Meta(The(roles[i]), TRUE, FALSE)]
Keys(keys)      == [i \in DOMAIN keys |-> Meta(keys[i], TRUE, FALSE)]
Signer(role)    == <<Meta(The(role), FALSE, TRUE)>>
Payer           == <<Meta(The("payer"), TRUE, TRUE)>>

-----------------------------------------------------------------------------
(* The lists that the builders write                                       *)

init ==
    Readonly(<<"system", "rent", "spl">>) \o Writable(<<"pool", "mint">>) \o Payer

create(assets, sources) ==
       Readonly(<<"spl", "clock", "serum", "provider">>)
    \o Writable(<<"mint", "poolTokens", "pool">>)
    \o Keys(assets) \o Signer("owner") \o Keys(sources)

deposit(assets, sources) ==
       Readonly(<<"spl">>)
    \o Writable(<<"mint", "poolTokens", "providerFee", "bonfidaFee", "buyBurnFee">>)
    \o Readonly(<<"pool">>)
    \o Keys(assets) \o Signer("owner") \o Keys(sources)

redeem(assets, targets) ==
       Readonly(<<"spl", "clock">>) \o Writable(<<"mint">>) \o Signer("owner")
    \o Writable(<<"poolTokens", "pool">>)
    \o Keys(assets) \o Keys(targets)

create_order ==
       Signer("provider")
    \o Writable(<<"market", "payerAsset", "openOrders", "eventQueue",
                  "requestQueue", "bids", "asks", "pool", "coinVault", "pcVault">>)
    \o Readonly(<<"spl", "rent", "dex">>)

cancel_order ==
       Signer("provider") \o Readonly(<<"market">>)
    \o Writable(<<"openOrders", "bids", "asks", "eventQueue">>)
    \o Readonly(<<"pool", "dex">>)

\* The client's list for the same instruction.
cancelOrderInstruction ==
       Signer("provider") \o Readonly(<<"market">>)
    \o Writable(<<"openOrders", "eventQueue", "bids", "asks">>)
    \o Readonly(<<"pool", "dex">>)

settle_funds ==
       Writable(<<"market", "openOrders", "pool">>) \o Readonly(<<"mint">>)
    \o Writable(<<"coinVault", "pcVault", "coinWallet", "pcWallet">>)
    \o Readonly(<<"vaultSigner", "spl", "dex">>)

collect_fees ==
       Readonly(<<"spl", "clock">>)
    \o Writable(<<"pool", "mint", "providerFee", "bonfidaFee", "buyBurnFee">>)

-----------------------------------------------------------------------------
(* The order in which the handlers take them; n is the number of assets    *)

Times(n, role) == [i \in 1 .. n |-> role]

\* Which of the accounts of its role the place p of a list of roles is.
Place(roles, p) == Cardinality({q \in 1 .. p : roles[q] = roles[p]})

InitTakes == <<"system", "rent", "spl", "pool", "mint", "payer">>

CreateTakes(n) ==
    <<"spl", "clock", "serum", "provider", "mint", "poolTokens", "pool">>
      \o Times(n, "asset") \o <<"owner">> \o Times(n, "source")

DepositTakes(n) ==
    <<"spl", "mint", "poolTokens", "providerFee", "bonfidaFee", "buyBurnFee",
      "pool">>
      \o Times(n, "asset") \o <<"owner">> \o Times(n, "source")

RedeemTakes(n) ==
    <<"spl", "clock", "mint", "owner", "poolTokens", "pool">>
      \o Times(n, "asset") \o Times(n, "target")

CancelTakes ==
    <<"provider", "market", "openOrders", "bids", "asks", "eventQueue", "pool",
      "dex">>

SettleTakes ==
    <<"market", "openOrders", "pool", "mint", "coinVault", "pcVault",
      "coinWallet", "pcWallet", "vaultSigner", "spl", "dex">>

CollectFeesTakes ==
    <<"spl", "clock", "pool", "mint", "providerFee", "bonfidaFee", "buyBurnFee">>
=============================================================================
