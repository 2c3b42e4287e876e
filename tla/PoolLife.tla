------------------------------ MODULE PoolLife ------------------------------
(***************************************************************************)
(* What the program promises of a pool's status, whatever its encoding:    *)
(* it is created unlocked, every settled account takes exactly one order   *)
(* off the count, and it is retired only when no order is pending.         *)
(***************************************************************************)
EXTENDS Integers

CONSTANT MaxOrders
VARIABLES kind,     \* the variant of PoolStatus
          orders    \* its number of pending orders

Pending == {"PendingOrder", "LockedPendingOrder"}

Init ==
    \/ kind \in {"Uninitialized", "Unlocked", "Locked"} /\ orders = 0
    \/ kind \in Pending /\ orders \in 1 .. MaxOrders

Create == /\ kind = "Uninitialized"
          /\ kind' = "Unlocked" /\ orders' = 0

SettleOne ==
    /\ kind \in Pending
    /\ orders' = orders - 1
    /\ IF orders' > 0 THEN kind' = kind
       ELSE kind' = (IF kind = "PendingOrder" THEN "Unlocked" ELSE "Locked")

Retire == /\ kind \in {"Unlocked", "Locked"}
          /\ kind' = "Uninitialized" /\ orders' = 0

Next == Create \/ SettleOne \/ Retire
Spec == Init /\ [][Next]_<<kind, orders>>
=============================================================================
