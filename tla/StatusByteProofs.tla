--------------------------- MODULE StatusByteProofs -------------------------
(***************************************************************************)
(* The status byte implements the pool's status: proofs.                   *)
(***************************************************************************)
EXTENDS StatusByte, TLAPS

Bytes == 0 .. 255

\* The inductive invariant: the variable is a byte.
ByteOK == byte \in Bytes

\* A status that is packed fits a byte and is read back as itself.
LEMMA PackUnpack ==
    ASSUME NEW s \in HeaderStatuses
    PROVE  Pack(s) \in Bytes /\ Unpack(Pack(s)) = s
<1>1. CASE s \in [kind : {"Uninitialized", "Unlocked", "Locked"}, orders : {0}]
  <2>1. /\ s.kind \in {"Uninitialized", "Unlocked", "Locked"}
        /\ s = [kind |-> s.kind, orders |-> 0]
    BY <1>1
  <2>2. /\ 0 \in Bytes /\ 63 \in Bytes /\ 128 \in Bytes
        /\ Unpack(0) = StatusOf("Uninitialized", 0)
        /\ Unpack(63) = StatusOf("Unlocked", 0)
        /\ Unpack(128) = StatusOf("Locked", 0)
    BY 63 \div 64 = 0, 128 \div 64 = 2
    DEF Bytes, Unpack, Parsed, Kinds, PendingKinds
  <2> QED
    BY <2>1, <2>2 DEF Pack, StatusOf, UnlockedByte, LockedFlag
<1>2. CASE s \in [kind : {"PendingOrder", "LockedPendingOrder"},
                  orders : 1 .. MaxOrders]
  <2>1. /\ s.kind \in {"PendingOrder", "LockedPendingOrder"}
        /\ s = [kind |-> s.kind, orders |-> s.orders]
        /\ s.orders \in 1 .. 64
    BY <1>2 DEF MaxOrders
  <2>2. CountBits(s.orders - 1) = s.orders - 1
    BY <2>1 DEF CountBits
  <2>3. ASSUME NEW n \in 0 .. 63
        PROVE  /\ (64 + n) \div 64 = 1 /\ (64 + n) % 64 = n
               /\ (192 + n) \div 64 = 3 /\ (192 + n) % 64 = n
    OBVIOUS
  <2>4. Unpack(64 + (s.orders - 1)) = StatusOf("PendingOrder", s.orders)
    BY <2>1, <2>3 DEF Unpack, CountBits, Parsed, Kinds, PendingKinds
  <2>5. Unpack(192 + (s.orders - 1)) = StatusOf("LockedPendingOrder", s.orders)
    BY <2>1, <2>3 DEF Unpack, CountBits, Parsed, Kinds, PendingKinds
  <2> QED
    BY <2>1, <2>2, <2>4, <2>5 DEF Pack, StatusOf, PendingFlag, LockedFlag, Bytes
<1> QED
  BY <1>1, <1>2 DEF HeaderStatuses

\* Every byte is read as one of the statuses.
LEMMA UnpackType ==
    ASSUME NEW b \in Bytes
    PROVE  Unpack(b) \in HeaderStatuses
<1>1. b \div 64 \in 0 .. 3 /\ b % 64 \in 0 .. 63
  BY DEF Bytes
<1> QED
  BY <1>1 DEF Unpack, Parsed, Kinds, PendingKinds, HeaderStatuses, StatusOf,
              CountBits, MaxOrders

\* A settled status is a status.
LEMMA SettledType ==
    ASSUME NEW s \in HeaderStatuses, IsPending(s)
    PROVE  Settled(s) \in HeaderStatuses
BY DEF HeaderStatuses, IsPending, PendingKinds, Settled, StatusOf, MaxOrders

\* Every step of the byte is a step of the status, or leaves it as it is.
LEMMA StepImplements ==
    ASSUME ByteOK, Next
    PROVE  ByteOK' /\ (Life!Next \/ Status' = Status)
<1> DEFINE old == Status
           new == Status'
<1>1. old \in HeaderStatuses
  BY UnpackType DEF Status, ByteOK
<1>2. CASE Create
  <2>1. byte' = Pack(StatusOf("Unlocked", 0)) /\ old.kind = "Uninitialized"
    BY <1>2 DEF Create
  <2>2. StatusOf("Unlocked", 0) \in HeaderStatuses
    BY DEF StatusOf, HeaderStatuses
  <2>3. byte' \in Bytes /\ new = StatusOf("Unlocked", 0)
    BY <2>1, <2>2, PackUnpack DEF Status
  <2> QED
    BY <2>1, <2>3 DEF Life!Next, Life!Create, StatusOf, ByteOK
<1>3. CASE Settle
  <2>1. byte' = Pack(Settled(old)) /\ IsPending(old)
    BY <1>3 DEF Settle
  <2>2. byte' \in Bytes /\ new = Settled(old)
    BY <1>1, <2>1, SettledType, PackUnpack DEF Status
  <2>3. /\ old.kind \in Life!Pending
        /\ new.orders = old.orders - 1
        /\ IF new.orders > 0 THEN new.kind = old.kind
           ELSE new.kind = (IF old.kind = "PendingOrder" THEN "Unlocked"
                            ELSE "Locked")
    BY <1>1, <2>1, <2>2
    DEF HeaderStatuses, IsPending, PendingKinds, Settled, StatusOf, Life!Pending,
        MaxOrders
  <2> QED
    BY <2>2, <2>3 DEF Life!Next, Life!SettleOne, ByteOK
<1>4. CASE Retire
  <2>1. byte' = Pack(StatusOf("Uninitialized", 0))
    BY <1>4 DEF Retire
  <2>2. StatusOf("Uninitialized", 0) \in HeaderStatuses
    BY DEF StatusOf, HeaderStatuses
  <2>3. byte' \in Bytes /\ new = StatusOf("Uninitialized", 0)
    BY <2>1, <2>2, PackUnpack DEF Status
  <2>4. old.kind \in {"Unlocked", "Locked"}
    BY <1>1, <1>4 DEF Retire, IsPending, PendingKinds, HeaderStatuses
  <2> QED
    BY <2>3, <2>4 DEF Life!Next, Life!Retire, StatusOf, ByteOK
<1>5. CASE Repack
  <2>1. byte' = Pack(old)
    BY <1>5 DEF Repack
  <2> QED
    BY <1>1, <2>1, PackUnpack DEF Status, ByteOK
<1> QED
  BY <1>2, <1>3, <1>4, <1>5 DEF Next, ByteOK

(* The byte that the instructions rewrite behaves as the status does: the  *)
(* whole variant and the whole count survive every packing.                *)
THEOREM ByteImplementsLife == Spec => ImplementsLife
<1>1. Init => ByteOK /\ Life!Init
  <2> SUFFICES ASSUME NEW s \in HeaderStatuses, byte = Pack(s)
               PROVE  ByteOK /\ Life!Init
    BY DEF Init
  <2>1. byte \in Bytes /\ Status = s
    BY PackUnpack DEF Status
  <2> QED
    BY <2>1 DEF Life!Init, Life!Pending, HeaderStatuses, ByteOK
<1>2. ByteOK /\ [Next]_byte
        => ByteOK' /\ [Life!Next]_<<Status.kind, Status.orders>>
  BY StepImplements DEF Status, ByteOK
<1> QED
  BY <1>1, <1>2, PTL DEF Spec, ImplementsLife, Life!Spec
=============================================================================
