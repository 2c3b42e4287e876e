----------------------------- MODULE PoolStatus -----------------------------
(***************************************************************************)
(* PoolStatus of program/src/state.rs, the byte of the pool account that   *)
(* stores it, and the function of the JavaScript client that reads it.     *)
(***************************************************************************)
EXTENDS Integers

MaxOrders == 64     \* most pending orders that a status can carry

StatusOf(kind, orders) == [kind |-> kind, orders |-> orders]

\* The values of the enum; those without a payload carry zero orders.
HeaderStatuses ==
    [kind : {"Uninitialized", "Unlocked", "Locked"}, orders : {0}] \cup
    [kind : {"PendingOrder", "LockedPendingOrder"}, orders : 1 .. MaxOrders]

-----------------------------------------------------------------------------
(* The status byte: two flag bits, and six for the number of orders.       *)

PendingFlag  == 64
LockedFlag   == 128
UnlockedByte == 63
CountBits(byte) == byte % 64    \* byte & STATUS_PENDING_ORDER_MASK

\* A plausible slip: the count is stored as it is, and 64 does not fit.
PackWithoutMinusOne(s) ==
    [Uninitialized      |-> 0,
     Unlocked           |-> UnlockedByte,
     Locked             |-> LockedFlag,
     PendingOrder       |-> PendingFlag + CountBits(s.orders),
     LockedPendingOrder |-> LockedFlag + PendingFlag + CountBits(s.orders)]
    [s.kind]

\* pack_into_slice: n orders are stored as n - 1.
Pack(s) ==
    [Uninitialized      |-> 0,
     Unlocked           |-> UnlockedByte,
     Locked             |-> LockedFlag,
     PendingOrder       |-> PendingFlag + CountBits(s.orders - 1),
     LockedPendingOrder |-> LockedFlag + PendingFlag + CountBits(s.orders - 1)]
    [s.kind]

PendingKinds == {"PendingOrder", "LockedPendingOrder"}

\* The variants by the two upper bits of the byte.
Kinds == <<"Unlocked", "PendingOrder", "Locked", "LockedPendingOrder">>

\* The status of that variant, with the count in the lower bits if it has one.
Parsed(kind, byte) ==
    StatusOf(kind, IF kind \in PendingKinds THEN CountBits(byte) + 1 ELSE 0)

\* unpack_from_slice: zero is a freshly allocated or a retired account.
Unpack(byte) ==
    Parsed(IF byte = 0 THEN "Uninitialized" ELSE Kinds[1 + byte \div 64], byte)

-----------------------------------------------------------------------------
(* The client                                                              *)

\* Buffer.readInt8: the byte as a signed number.
SignedByte(byte) == IF byte < 128 THEN byte ELSE byte - 256

\* What match_status throws.
NotParsed == StatusOf("NotParsed", 0)

\* match_status: the same switch, over the signed byte.
ClientStatus(byte) ==
    LET sByte == SignedByte(byte)
    IN  IF sByte = 0 THEN StatusOf("Uninitialized", 0)
        ELSE IF sByte \div 64 \in 0 .. 3
        THEN Parsed(Kinds[1 + sByte \div 64], sByte)
        ELSE NotParsed

-----------------------------------------------------------------------------
(* Settlement                                                              *)

IsPending(s) == s.kind \in PendingKinds

\* A plausible slip: the last settlement only takes the count to zero.
SettledToZero(s) == StatusOf(s.kind, s.orders - 1)

\* The status of a pool one of whose open-orders accounts is settled whole.
Settled(s) ==
    IF s.orders > 1 THEN StatusOf(s.kind, s.orders - 1)
    ELSE StatusOf(IF s.kind = "PendingOrder" THEN "Unlocked" ELSE "Locked", 0)
=============================================================================
