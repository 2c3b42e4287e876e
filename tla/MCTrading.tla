------------------------------ MODULE MCTrading -----------------------------
(***************************************************************************)
(* Pools that an earlier deployment left with one or two orders.           *)
(***************************************************************************)
EXTENDS Trading, TLC

CONSTANTS u1, u2, A, B, o1, o2

Pile(a, b) == A :> a @@ B :> b
MCEndowment == u1 :> Pile(0, 0) @@ u2 :> Pile(2, 1)
MCUsers == Users

\* Both markets trade the same two mints.
MCCoinOf == [oo \in OpenOrders |-> A]
MCPcOf   == [oo \in OpenOrders |-> B]

Placed(list, bal, first, second) ==
    [slots |-> list, poolBal |-> bal, total |-> o1 :> first @@ o2 :> second]

(* One order on each account; one order of an asset that was bought into a *)
(* slot further on than the first free one.                                *)
MCLegacy ==
    {Placed(<<A, B>>, Pile(1, 2), Pile(2, 0), Pile(0, 2)),
     Placed(<<A, NoMint, B>>, Pile(1, 1), Pile(2, 0), Pile(0, 0))}
=============================================================================
