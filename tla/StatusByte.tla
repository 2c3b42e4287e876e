----------------------------- MODULE StatusByte -----------------------------
(***************************************************************************)
(* The status byte of a pool account, as the instructions rewrite it: each *)
(* of them unpacks the header, changes it and packs it again.              *)
(***************************************************************************)
EXTENDS PoolStatus

VARIABLE byte   \* byte 96 of the pool account

Status == Unpack(byte)

\* An account that holds any of the statuses, as pack_into_slice stores it.
Init == \E s \in HeaderStatuses : byte = Pack(s)

\* Create refuses an account whose status is not Uninitialized.
Create == /\ Status.kind = "Uninitialized"
          /\ byte' = Pack(StatusOf("Unlocked", 0))

\* The settlement of an open-orders account that has nothing left to fill.
Settle == /\ IsPending(Status)
          /\ byte' = Pack(Settled(Status))

\* A redemption of the whole supply: the status is reset, the header packed.
Retire == /\ Status.kind # "Uninitialized" /\ ~IsPending(Status)
          /\ byte' = Pack(StatusOf("Uninitialized", 0))

\* CollectFees, and a settlement that leaves an order open: packed unchanged.
Repack == /\ Status.kind # "Uninitialized"
          /\ byte' = Pack(Status)

Next == Create \/ Settle \/ Retire \/ Repack
Spec == Init /\ [][Next]_byte

-----------------------------------------------------------------------------
Life == INSTANCE PoolLife WITH kind <- Status.kind, orders <- Status.orders

(* The byte implements the status: nothing that an instruction packs is    *)
(* read back by the next one as another variant or another count, up to    *)
(* the 64 orders of state.rs.                                              *)
ImplementsLife == Life!Spec

(* The client reads every status that the program can write (the switch of *)
(* match_status names all five variants).                                  *)
ClientReadsEveryStatus == ClientStatus(byte) = Status
=============================================================================
