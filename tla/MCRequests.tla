----------------------------- MODULE MCRequests ------------------------------
(***************************************************************************)
(* Every instruction, with fields at both ends of their ranges.            *)
(***************************************************************************)
EXTENDS Requests

Seed == [k \in 1 .. 32 |-> k % Base]
KeyOf(b) == [k \in 1 .. 32 |-> IF k = 32 THEN 1 ELSE b]
U16 == Base ^ 2 - 1
U64 == Base ^ 8 - 1

MCInits == [op : {"Init"}, pool_seed : {Seed}, max_number_of_assets : {0, Base ^ 4 - 1},
            number_of_markets : {1, U16}]
MCCreates == [op : {"Create"}, pool_seed : {Seed}, fee_collection_period : {604800},
              fee_ratio : {0, U16}, markets : {<<>>, <<KeyOf(2), KeyOf(0)>>},
              deposit_amounts : {<<>>, <<7>>, <<0, U64>>}]
MCAmounts == [op : {"Deposit", "Redeem"}, pool_seed : {Seed},
              pool_token_amount : {0, 1, U64}]
MCOrders == [op : {"CreateOrder"}, pool_seed : {Seed}, side : {"Ask"},
             limit_price : {1}, ratio_of_pool_assets_to_trade : {U16},
             order_type : {"PostOnly"}, client_id : {12345},
             self_trade_behavior : {"CancelProvide", "AbortTransaction"},
             source_index : {0}, target_index : {U64}, market_index : {3},
             coin_lot_size : {1}, pc_lot_size : {100}, target_mint : {KeyOf(5)},
             serum_limit : {U16}]
MCCancels == [op : {"CancelOrder"}, pool_seed : {Seed}, side : {"Bid", "Ask"},
              order_id : {<<0, 0>>, <<U64, 123>>}]
MCSettles == [op : {"SettleFunds"}, pool_seed : {Seed}, pc_index : {0, 1},
              coin_index : {2, U64}]
MCCollects == [op : {"CollectFees"}, pool_seed : {Seed}]

MCInstructions == MCInits \cup MCCreates \cup MCAmounts \cup MCOrders \cup MCCancels
                    \cup MCSettles \cup MCCollects
=============================================================================
