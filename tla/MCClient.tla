------------------------------ MODULE MCClient ------------------------------
(***************************************************************************)
(* Clients of pools with and without orders.                               *)
(***************************************************************************)
EXTENDS Client, TLC

CONSTANTS u1, u2, A, B, C, o1, o2

\* The pool's assets, and a purse, of each mint.
Pile(a, b, c) == [m \in Mints |-> IF m = A THEN a ELSE IF m = B THEN b ELSE c]
MCEndowment  == u1 :> Pile(0, 0, 0) @@ u2 :> Pile(2, 1, 0)
MCHolders    == Holders
MCButBonfida == Holders \ {Bonfida}

\* The markets A/B and B/C, or A/B twice.
MCCoinOf   == o1 :> A @@ o2 :> B
MCPcOf     == o1 :> B @@ o2 :> C
MCTwiceCoinOf == o1 :> A @@ o2 :> A
MCTwicePcOf   == o1 :> B @@ o2 :> B

Placed(list, bal, first, second) ==
    [slots |-> list, poolBal |-> bal, total |-> o1 :> first @@ o2 :> second]
Nothing == Pile(0, 0, 0)

\* A pool with an order, one without, and what may be created after them.
MCLegacy == {Placed(<<A, B>>, Pile(1, 2, 0), Pile(1, 0, 0), Nothing),
             Placed(<<A, NoMint>>, Pile(2, 0, 0), Nothing, Nothing)}
Of(m, a) == [mint |-> m, amount |-> a]
MCNextLives == {<<Of(B, 1)>>, <<Of(B, 1), Of(A, 1)>>, <<Of(A, 1), Of(A, 1)>>}

\* A pool with a zeroed slot between its mints, and an order on B/C.
MCGap == {Placed(<<A, NoMint, B, C>>, Pile(1, 1, 1), Nothing, Pile(0, 0, 1))}
=============================================================================
