--------------------------- MODULE InstructionData ---------------------------
(***************************************************************************)
(* The data of an instruction: PoolInstruction::pack writes the fields one *)
(* after the other, PoolInstruction::unpack reads each at an offset of its *)
(* own, and the client in instructions.ts writes them by itself.  A byte   *)
(* has Base values and every field its own number of bytes, so that a      *)
(* small Base keeps all the values of a u64 within reach.                  *)
(***************************************************************************)
EXTENDS Integers, Sequences

CONSTANT Base   \* 256: the values of a byte

\* The tags of the eight instructions are bytes.
ASSUME DataAssumption == Base \in Nat /\ Base > 8

Byte == 0 .. Base - 1

-----------------------------------------------------------------------------
(* Fields                                                                  *)

\* How many values w bytes have.
Values[w \in Nat] == IF w = 0 THEN 1 ELSE Base * Values[w - 1]

\* to_le_bytes: the number's w lowest digits, the least significant first.
LE(v, w) == [k \in 1 .. w |-> (v \div Values[k - 1]) % Base]

\* from_le_bytes: the k lowest bytes, and one byte more.
Value(bytes) ==
    LET low[k \in 0 .. Len(bytes)] ==
          IF k = 0 THEN 0 ELSE low[k - 1] + bytes[k] * Values[k - 1]
    IN  low[Len(bytes)]

\* A plausible slip: the first value that does not fit is let through.
FitsNumberuAlmost(v, w) == v <= Values[w]
\* The client's Numberu16 and its like: `Numberu16 too large' otherwise.
FitsNumberu(v, w) == v < Values[w]

\* The variants of the three enumerations, by their bytes 0, 1, 2.
Sides      == <<"Bid", "Ask">>
OrderTypes == <<"Limit", "ImmediateOrCancel", "PostOnly">>
SelfTrades == <<"DecrementTake", "CancelProvide", "AbortTransaction">>
ByteOf(variant, variants) == <<(CHOOSE b \in DOMAIN variants : variants[b] = variant) - 1>>

\* What the types of the fields admit.
Unsigned(w) == 0 .. Values[w] - 1
NonZero(w)  == 1 .. Values[w] - 1
Key         == [1 .. 32 -> Byte]

\* The variants of the enumeration; as many markets as a u16 counts.
InitFields ==
    [op : {"Init"}, pool_seed : Key, max_number_of_assets : Unsigned(4),
     number_of_markets : Unsigned(2)]

CreateFields ==
    [op : {"Create"}, pool_seed : Key, fee_collection_period : Unsigned(8),
     fee_ratio : Unsigned(2), markets : {m \in Seq(Key) : Len(m) < Values[2]},
     deposit_amounts : Seq(Unsigned(8))]

AmountFields ==
    [op : {"Deposit", "Redeem"}, pool_seed : Key, pool_token_amount : Unsigned(8)]

CreateOrderFields ==
    [op : {"CreateOrder"}, pool_seed : Key, side : {"Bid", "Ask"},
     limit_price : NonZero(8), ratio_of_pool_assets_to_trade : NonZero(2),
     order_type : {"Limit", "ImmediateOrCancel", "PostOnly"},
     client_id : Unsigned(8),
     self_trade_behavior : {"DecrementTake", "CancelProvide", "AbortTransaction"},
     source_index : Unsigned(8), target_index : Unsigned(8),
     market_index : Unsigned(2), coin_lot_size : Unsigned(8),
     pc_lot_size : Unsigned(8), target_mint : Key, serum_limit : Unsigned(2)]

CancelOrderFields ==
    [op : {"CancelOrder"}, pool_seed : Key, side : {"Bid", "Ask"},
     order_id : Unsigned(8) \X Unsigned(8)]

SettleFundsFields ==
    [op : {"SettleFunds"}, pool_seed : Key, pc_index : Unsigned(8),
     coin_index : Unsigned(8)]

CollectFeesFields == [op : {"CollectFees"}, pool_seed : Key]

PoolInstruction ==
    InitFields \cup CreateFields \cup AmountFields \cup CreateOrderFields
      \cup CancelOrderFields \cup SettleFundsFields \cup CollectFeesFields

-----------------------------------------------------------------------------
(* pack                                                                    *)

\* Pieces of w bytes, one after the other.
Joined(pieces, w) ==
    [j \in 1 .. w * Len(pieces) |-> pieces[(j - 1) \div w + 1][((j - 1) % w) + 1]]

PackInit(i) == <<0>> \o i.pool_seed
    \o LE(i.max_number_of_assets, 4) \o LE(i.number_of_markets, 2)

PackCreate(i) == <<1>> \o i.pool_seed
    \o LE(Len(i.markets), 2) \o LE(i.fee_collection_period, 8) \o LE(i.fee_ratio, 2)
    \o Joined(i.markets, 32)
    \o Joined([k \in DOMAIN i.deposit_amounts |-> LE(i.deposit_amounts[k], 8)], 8)

PackAmount(tag, i) == <<tag>> \o i.pool_seed \o LE(i.pool_token_amount, 8)

PackCreateOrder(i) == <<3>> \o i.pool_seed
    \o ByteOf(i.side, Sides) \o LE(i.limit_price, 8)
    \o LE(i.ratio_of_pool_assets_to_trade, 2)
    \o ByteOf(i.order_type, OrderTypes) \o LE(i.client_id, 8)
    \o ByteOf(i.self_trade_behavior, SelfTrades)
    \o LE(i.source_index, 8) \o LE(i.target_index, 8) \o LE(i.market_index, 2)
    \o LE(i.coin_lot_size, 8) \o LE(i.pc_lot_size, 8)
    \o i.target_mint \o LE(i.serum_limit, 2)

\* An order id is a u128, here by its two halves, the lower one first.
PackCancelOrder(i) == <<4>> \o i.pool_seed
    \o ByteOf(i.side, Sides) \o LE(i.order_id[1], 8) \o LE(i.order_id[2], 8)

PackSettleFunds(i) == <<5>> \o i.pool_seed \o LE(i.pc_index, 8) \o LE(i.coin_index, 8)

Pack(i) ==
    CASE i.op = "Init"        -> PackInit(i)
      [] i.op = "Create"      -> PackCreate(i)
      [] i.op = "Deposit"     -> PackAmount(2, i)
      [] i.op = "CreateOrder" -> PackCreateOrder(i)
      [] i.op = "CancelOrder" -> PackCancelOrder(i)
      [] i.op = "SettleFunds" -> PackSettleFunds(i)
      [] i.op = "Redeem"      -> PackAmount(6, i)
      [] i.op = "CollectFees" -> <<7>> \o i.pool_seed

-----------------------------------------------------------------------------
(* unpack                                                                  *)

\* What is not understood: an error of the program, or a panic of unwrap.
Refused  == [op |-> "InvalidInstruction"]
Panicked == [op |-> "Panic"]

\* rest.get(from..to), as bytes and as a number.
Get(rest, from, to) == SubSeq(rest, from + 1, to)
Num(rest, from, to) == Value(Get(rest, from, to))

\* A plausible slip: a byte out of range is the last variant.
VariantOrLast(rest, at, variants) ==
    variants[IF rest[at + 1] < Len(variants) THEN rest[at + 1] + 1 ELSE Len(variants)]

\* The variant that a byte stands for, if any.
Variant(rest, at, variants) ==
    IF rest[at + 1] < Len(variants) THEN variants[rest[at + 1] + 1] ELSE "unknown"

\* The data is long enough, the seed being unwrapped before the rest.
Understood(rest, length, i) ==
    IF Len(rest) < 32 THEN Panicked
    ELSE IF Len(rest) < length THEN Refused ELSE i

UnpackInit(rest) == Understood(rest, 38,
    [op |-> "Init", pool_seed |-> Get(rest, 0, 32),
     max_number_of_assets |-> Num(rest, 32, 36),
     number_of_markets |-> Num(rest, 36, 38)])

\* The amounts that the rest of the data holds, a last piece left over.
AmountCount(bytes) == bytes \div 8

UnpackCreate(rest) ==
    LET n    == Num(rest, 32, 34)
        last == 44 + 32 * n
    IN  Understood(rest, IF Len(rest) < 44 THEN 44 ELSE last,
        [op |-> "Create", pool_seed |-> Get(rest, 0, 32),
         fee_collection_period |-> Num(rest, 34, 42),
         fee_ratio |-> Num(rest, 42, 44),
         markets |-> [k \in 1 .. n |-> Get(rest, 12 + 32 * k, 44 + 32 * k)],
         deposit_amounts |-> [k \in 1 .. AmountCount(Len(rest) - last) |->
                                Num(rest, last + 8 * (k - 1), last + 8 * k)]])

UnpackAmount(op, rest) == Understood(rest, 40,
    [op |-> op, pool_seed |-> Get(rest, 0, 32),
     pool_token_amount |-> Num(rest, 32, 40)])

\* The values that the types of an order exclude.
OrderIsSound(rest) ==
    /\ Variant(rest, 32, Sides) # "unknown"
    /\ Variant(rest, 43, OrderTypes) # "unknown"
    /\ Variant(rest, 52, SelfTrades) # "unknown"
    /\ Num(rest, 33, 41) # 0 /\ Num(rest, 41, 43) # 0

(* The one instruction that does not unwrap its seed.                      *)
UnpackCreateOrder(rest) ==
    IF Len(rest) < 121 \/ ~OrderIsSound(rest) THEN Refused
    ELSE [op |-> "CreateOrder", pool_seed |-> Get(rest, 0, 32),
          side |-> Variant(rest, 32, Sides), limit_price |-> Num(rest, 33, 41),
          ratio_of_pool_assets_to_trade |-> Num(rest, 41, 43),
          order_type |-> Variant(rest, 43, OrderTypes),
          client_id |-> Num(rest, 44, 52),
          self_trade_behavior |-> Variant(rest, 52, SelfTrades),
          source_index |-> Num(rest, 53, 61), target_index |-> Num(rest, 61, 69),
          market_index |-> Num(rest, 69, 71),
          coin_lot_size |-> Num(rest, 71, 79), pc_lot_size |-> Num(rest, 79, 87),
          target_mint |-> Get(rest, 87, 119), serum_limit |-> Num(rest, 119, 121)]

UnpackCancelOrder(rest) ==
    IF Len(rest) >= 33 /\ Variant(rest, 32, Sides) = "unknown" THEN Refused
    ELSE Understood(rest, 49,
         [op |-> "CancelOrder", pool_seed |-> Get(rest, 0, 32),
          side |-> Variant(rest, 32, Sides),
          order_id |-> <<Num(rest, 33, 41), Num(rest, 41, 49)>>])

\* A plausible slip: the two indices are read in the order of their names.
UnpackSettleFundsCoinFirst(rest) == Understood(rest, 48,
    [op |-> "SettleFunds", pool_seed |-> Get(rest, 0, 32),
     pc_index |-> Num(rest, 40, 48), coin_index |-> Num(rest, 32, 40)])

UnpackSettleFunds(rest) == Understood(rest, 48,
    [op |-> "SettleFunds", pool_seed |-> Get(rest, 0, 32),
     pc_index |-> Num(rest, 32, 40), coin_index |-> Num(rest, 40, 48)])

UnpackCollectFees(rest) == Understood(rest, 32,
    [op |-> "CollectFees", pool_seed |-> Get(rest, 0, 32)])

Unpack(data) ==
    IF data = <<>> THEN Refused
    ELSE LET rest == Tail(data)
         IN  CASE data[1] = 0 -> UnpackInit(rest)
               [] data[1] = 1 -> UnpackCreate(rest)
               [] data[1] = 2 -> UnpackAmount("Deposit", rest)
               [] data[1] = 3 -> UnpackCreateOrder(rest)
               [] data[1] = 4 -> UnpackCancelOrder(rest)
               [] data[1] = 5 -> UnpackSettleFunds(rest)
               [] data[1] = 6 -> UnpackAmount("Redeem", rest)
               [] data[1] = 7 -> UnpackCollectFees(rest)
               [] OTHER       -> Refused
=============================================================================
