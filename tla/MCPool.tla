------------------------------- MODULE MCPool -------------------------------
(***************************************************************************)
(* Instances of Pool for TLC: two users, two tokens, an account with room  *)
(* for two or three words.                                                 *)
(***************************************************************************)
EXTENDS Pool, TLC

CONSTANTS u1, u2, A, B

Pile(a, b) == [m \in Mints |-> IF m = A THEN a ELSE b]
Entry(m, a) == [mint |-> m, amount |-> a]

\* u1 can create either pool; both can buy into it.
MCEndowment == u1 :> Pile(3, 1) @@ u2 :> Pile(2, 1)

MCAssetLists == {<<Entry(A, 2), Entry(B, 1)>>, <<Entry(A, 3)>>}
MCWideLists  == {<<>>, <<Entry(A, 1), Entry(A, 1)>>, <<Entry(A, 2), Entry(B, 1)>>,
                 <<Entry(A, 1), Entry(B, 1), Entry(A, 1)>>}

MCAll        == 0 .. U64 - 1
MCHolders    == Holders
MCButBonfida == Holders \ {Bonfida}
=============================================================================
