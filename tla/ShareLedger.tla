----------------------------- MODULE ShareLedger -----------------------------
(***************************************************************************)
(* What a pool promises its holders, whatever the formulas and however the *)
(* roundings fall: pool tokens are shares of the assets in its basket.     *)
(* Nobody's assets or shares are moved but by their owner; who enters pays *)
(* the pool's ratio less one unit of an asset at the most, who leaves gets *)
(* it less one unit at the most, and only the fees thin the shares.        *)
(***************************************************************************)
EXTENDS PoolMath, FiniteSetsExt

CONSTANTS
    Holders,   \* those who own assets and shares
    Mints      \* the assets

VARIABLES
    live,      \* there is a pool to enter
    basket,    \* the assets that its shares are shares of
    stock,     \* what the pool has of each asset
    purse,     \* what each holder has of each asset
    shares,    \* each holder's shares
    fee,       \* the fee, of an entry and of a period
    owed       \* the whole periods whose fee is not collected yet

ledger == <<live, basket, stock, purse, shares, fee, owed>>

Issued == MapThenSumSet(LAMBDA h : shares[h], Holders)

Init ==
    /\ ~live /\ basket = {} /\ fee = 0 /\ owed = 0
    /\ stock  = [m \in Mints |-> 0]
    /\ purse \in [Holders -> [Mints -> Nat]]
    /\ shares = [h \in Holders |-> 0]

\* Assets move between h and the pool, and none is made or lost.
Moves(h) ==
    /\ \A m \in Mints : purse'[h][m] + stock'[m] = purse[h][m] + stock[m]
    /\ \A g \in Holders \ {h} : purse'[g] = purse[g]

\* Nobody's shares but those of h change.
Only(h) == \A g \in Holders \ {h} : shares'[g] = shares[g]

\* h puts the first assets into a pool in which nobody has shares left.
Begin(h) ==
    /\ ~live /\ live'
    /\ Issued = 0
    /\ Moves(h) /\ Only(h) /\ shares'[h] > shares[h]
    /\ \A m \in Mints : stock'[m] >= stock[m]
    /\ basket' = {m \in Mints : stock'[m] > stock[m]}
    /\ owed' = 0

\* h buys shares at the pool's ratio, and pays the fee out of them.
Enter(h) ==
    /\ live /\ Issued > 0 /\ Issued' > Issued
    /\ Moves(h)
    /\ \A m \in Mints \ basket : stock'[m] = stock[m]
    /\ \A m \in basket :
         /\ stock'[m] >= stock[m]
         /\ stock'[m] * Issued <= stock[m] * Issued'
         /\ (stock'[m] + 1) * Issued > stock[m] * Issued'
    /\ \E m \in basket : stock'[m] > stock[m]
    /\ \A g \in Holders : shares'[g] >= shares[g]
    /\ LET bought == Issued' - Issued
       IN  shares'[h] >= shares[h] + bought - DepositFee(fee, bought)
    /\ UNCHANGED <<live, basket, fee, owed>>

\* h gives shares back at the pool's ratio; the last ones close the pool.
Leave(h) ==
    /\ live /\ owed <= 1
    /\ Moves(h) /\ Only(h) /\ shares'[h] <= shares[h]
    /\ \A m \in Mints \ basket : stock'[m] = stock[m]
    /\ \A m \in basket :
         /\ stock'[m] <= stock[m]
         /\ stock'[m] * Issued >= stock[m] * Issued'
         /\ (stock'[m] - 1) * Issued < stock[m] * Issued'
    /\ IF Issued' = 0 THEN ~live' /\ basket' = {} /\ owed' = 0
                      ELSE UNCHANGED <<live, basket, owed>>
    /\ fee' = fee

\* The fees of all periods are taken at once, in new shares.
Charge ==
    /\ live /\ owed > 0 /\ owed' = 0
    /\ \A g \in Holders : shares'[g] >= shares[g]
    /\ Issued * (Scale - 1) >= Issued' * FeelessRatio(fee, owed)
    /\ UNCHANGED <<live, basket, stock, purse, fee>>

\* h gives assets to the pool, or shares up, for nothing.
Give(h) ==
    /\ Moves(h) /\ \A m \in Mints : stock'[m] >= stock[m]
    /\ UNCHANGED <<live, basket, shares, fee, owed>>
Burn(h) ==
    /\ Only(h) /\ shares'[h] <= shares[h]
    /\ UNCHANGED <<live, basket, stock, purse, fee, owed>>

Wait ==
    /\ live /\ owed' >= owed
    /\ UNCHANGED <<live, basket, stock, purse, shares, fee>>

Next ==
    \/ \E h \in Holders : Begin(h) \/ Enter(h) \/ Leave(h) \/ Give(h) \/ Burn(h)
    \/ Charge
    \/ Wait

Spec == Init /\ [][Next]_ledger
=============================================================================
