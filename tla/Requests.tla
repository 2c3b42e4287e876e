------------------------------ MODULE Requests -------------------------------
(***************************************************************************)
(* A request on its way into the program: a caller writes the data and the *)
(* accounts of an instruction, the entry point understands the data and    *)
(* dispatches it, and the handler takes its accounts from the list and     *)
(* tests the ones it can.  The state that the handlers work on is in Pool  *)
(* and Trading; here a handler serves a request when it has what it needs. *)
(*                                                                         *)
(* The callers are the builders of instruction.rs, the client, and anybody *)
(* else, who may cut the data or change a byte of it.                      *)
(***************************************************************************)
EXTENDS InstructionData, AccountLists

CONSTANTS
    Instructions,   \* the instructions that are sent
    AssetCounts,    \* how many assets the pool may list
    Percentages,    \* fee percentages given to the client's createPool
    Tampered        \* bytes that somebody writes into the data

\* Instructions have the types of their fields; the rest are numbers and bytes.
ASSUME RequestsAssumption ==
    /\ Instructions \subseteq PoolInstruction
    /\ AssetCounts \subseteq Nat /\ Percentages \subseteq Nat /\ Tampered \subseteq Byte

VARIABLES
    caller,   \* who wrote the request: "builder", "client" or "anyone"
    sent,     \* the instruction that is meant
    listed,   \* the number of assets of the pool, which callers read as well
    data,     \* the data of the request
    accounts, \* its accounts
    answer    \* what the program made of it

request == <<caller, sent, listed, data, accounts>>
reqVars == <<request, answer>>

Waiting == [result |-> "waiting", understood |-> Refused, found |-> <<>>]

-----------------------------------------------------------------------------
(* The callers                                                             *)

\* The asset accounts of somebody, by their place.
Nth(role, n) == [i \in 1 .. n |-> Token(role, i)]

\* The accounts that the builders list for an instruction.
AccountsOf(i, n) ==
    CASE i.op = "Init"        -> init
      [] i.op = "Create"      -> create(Nth("asset", n), Nth("source", n))
      [] i.op = "Deposit"     -> deposit(Nth("asset", n), Nth("source", n))
      [] i.op = "CreateOrder" -> create_order
      [] i.op = "CancelOrder" -> cancel_order
      [] i.op = "SettleFunds" -> settle_funds
      [] i.op = "Redeem"      -> redeem(Nth("asset", n), Nth("target", n))
      [] i.op = "CollectFees" -> collect_fees

\* The client's lists are the same but for one.
ClientAccountsOf(i, n) ==
    IF i.op = "CancelOrder" THEN cancelOrderInstruction ELSE AccountsOf(i, n)

\* A deposit or a redemption lists the assets of the pool, a Create its own.
AssetsOf(i) == IF i.op = "Create" THEN Len(i.deposit_amounts) ELSE listed

ReqInit ==
    /\ caller = "builder" /\ sent \in Instructions /\ listed \in AssetCounts
    /\ data = Pack(sent) /\ accounts = AccountsOf(sent, AssetsOf(sent))
    /\ answer = Waiting

\* The same request, written by the client.
ClientWrites ==
    /\ answer = Waiting /\ caller = "builder"
    /\ caller' = "client"
    /\ accounts' = ClientAccountsOf(sent, AssetsOf(sent))
    /\ UNCHANGED <<sent, listed, data, answer>>

\* The client's createPool turns a percentage into a ratio, or throws.
ClientCreates(percentage) ==
    /\ answer = Waiting /\ caller = "builder" /\ sent.op = "Create"
    /\ caller' = "client"
    /\ LET ratio == (Values[2] * percentage) \div 100
       IN  IF FitsNumberu(ratio, 2)
           THEN /\ sent' = [sent EXCEPT !.fee_ratio = ratio]
                /\ data' = Pack(sent')
                /\ UNCHANGED answer
           ELSE /\ answer' = [Waiting EXCEPT !.result = "thrown"]
                /\ UNCHANGED <<sent, data>>
    /\ UNCHANGED <<listed, accounts>>

\* Somebody else's request: the data cut short, or with one byte changed.
Cut(length) ==
    /\ answer = Waiting /\ caller = "builder"
    /\ caller' = "anyone" /\ data' = SubSeq(data, 1, length)
    /\ UNCHANGED <<sent, listed, accounts, answer>>

Change(at, byte) ==
    /\ answer = Waiting /\ caller = "builder"
    /\ caller' = "anyone" /\ data' = [data EXCEPT ![at] = byte]
    /\ UNCHANGED <<sent, listed, accounts, answer>>

-----------------------------------------------------------------------------
(* The program                                                             *)

\* The roles that a handler takes from its list of accounts, in order.
Takes(i) ==
    CASE i.op = "Init"        -> InitTakes
      [] i.op = "Create"      -> CreateTakes(Len(i.deposit_amounts))
      [] i.op = "Deposit"     -> DepositTakes(listed)
      [] i.op = "CancelOrder" -> CancelTakes
      [] i.op = "SettleFunds" -> SettleTakes
      [] i.op = "Redeem"      -> RedeemTakes(listed)
      [] i.op = "CollectFees" -> CollectFeesTakes

\* The key that is meant by the place p of a list of roles.
Meant(roles, p) ==
    IF roles[p] \in {"asset", "source", "target"}
    THEN Token(roles[p], Place(roles, p))
    ELSE The(roles[p])

Fees == {"providerFee", "bonfidaFee", "buyBurnFee"}

\* check_pool_key and check_signal_provider compare the key of their account.
check_pool_key        == {"pool"}
check_signal_provider == {"provider"}

(* What a handler needs of its accounts: the roles whose key it compares   *)
(* with the one it derives or knows, those that have to sign, for it or    *)
(* for what it invokes, and those that it changes: the runtime fails an    *)
(* instruction that changes an account passed as read-only.                *)
InitNeeds ==
    [keys    |-> {"rent", "spl", "pool", "mint"},
     signers |-> {"payer"},
     changed |-> {"pool", "mint", "payer"}]

\* A plausible slip: the owner is not asked to sign.
CreateNeedsNoOwner ==
    [keys    |-> {"spl", "clock", "pool", "mint"},
     signers |-> {},
     changed |-> {"pool", "mint", "poolTokens", "asset", "source"}]

CreateNeeds ==
    [keys    |-> {"spl", "clock", "pool", "mint"},
     signers |-> {"owner"},
     changed |-> {"pool", "mint", "poolTokens", "asset", "source"}]

DepositNeeds ==
    [keys    |-> {"spl", "pool", "mint", "asset"} \cup Fees,
     signers |-> {"owner"},
     changed |-> {"mint", "poolTokens", "asset", "source"} \cup Fees]

RedeemNeeds ==
    [keys    |-> {"spl", "clock", "mint", "asset"} \cup check_pool_key,
     signers |-> {"owner"},
     changed |-> {"mint", "poolTokens", "pool", "asset", "target"}]

CancelNeeds ==
    [keys    |-> check_pool_key \cup check_signal_provider,
     signers |-> check_signal_provider,
     changed |-> {"openOrders", "bids", "asks", "eventQueue"}]

SettleNeeds ==
    [keys    |-> {"spl", "mint", "coinWallet", "pcWallet"} \cup check_pool_key,
     signers |-> {},
     changed |-> {"openOrders", "pool", "coinVault", "pcVault",
                  "coinWallet", "pcWallet"}]

CollectFeesNeeds ==
    [keys    |-> {"spl", "clock", "mint"} \cup Fees \cup check_pool_key,
     signers |-> {},
     changed |-> {"pool", "mint"} \cup Fees]

Needs(op) ==
    CASE op = "Init"        -> InitNeeds
      [] op = "Create"      -> CreateNeeds
      [] op = "Deposit"     -> DepositNeeds
      [] op = "CancelOrder" -> CancelNeeds
      [] op = "SettleFunds" -> SettleNeeds
      [] op = "Redeem"      -> RedeemNeeds
      [] op = "CollectFees" -> CollectFeesNeeds

(* Create derives the mint of an asset from the account that it is given:  *)
(* any asset account of the pool will do, and anything for a zero deposit. *)
AssetWillDo(i, key, k) ==
    i.op = "Create" => i.deposit_amounts[k] = 0 \/ key.owner = "asset"

\* `Disabled endpoint': no account is taken.
process_create_order(i) ==
    [result |-> "disabled", understood |-> i, found |-> <<>>]

\* What a handler answers to an instruction and a list of accounts.
Handled(i, list) ==
    IF i.op = "CreateOrder" THEN process_create_order(i)
    ELSE LET roles == Takes(i)
             needs == Needs(i.op)
             right(p) ==
               /\ roles[p] \in needs.keys => list[p].key = Meant(roles, p)
               /\ roles[p] = "asset" => AssetWillDo(i, list[p].key, Place(roles, p))
               /\ roles[p] \in needs.signers => list[p].signer
               /\ roles[p] \in needs.changed => list[p].writable
         IN  IF Len(list) < Len(roles)
             THEN [result |-> "not enough keys", understood |-> i, found |-> <<>>]
             ELSE [result |-> IF \A p \in DOMAIN roles : right(p)
                              THEN "served" ELSE "refused",
                   understood |-> i, found |-> SubSeq(list, 1, Len(roles))]

(* The entry point: unpack and dispatch.  An error of either is printed    *)
(* and returned as it is.                                                  *)
process_instruction ==
    /\ answer = Waiting
    /\ LET i == Unpack(data)
       IN  answer' = IF i \in {Refused, Panicked}
                     THEN [result |-> i.op, understood |-> i, found |-> <<>>]
                     ELSE Handled(i, accounts)
    /\ UNCHANGED request

ReqNext ==
    \/ ClientWrites
    \/ \E percentage \in Percentages : ClientCreates(percentage)
    \/ \E length \in 0 .. Len(data) - 1 : Cut(length)
    \/ \E at \in DOMAIN data, byte \in Tampered : Change(at, byte)
    \/ process_instruction

ReqSpec == ReqInit /\ [][ReqNext]_reqVars

-----------------------------------------------------------------------------
(* Properties                                                              *)

Served == answer.result = "served"

(* What a builder packs the program unpacks, and it finds every account it *)
(* needs in the builder's list: two tables kept by hand, one written in    *)
(* order and one read by offsets.                                          *)
BuildersAreServed ==
    caller = "builder" /\ answer # Waiting =>
      /\ answer.understood = sent
      /\ answer.result = IF sent.op = "CreateOrder" THEN "disabled" ELSE "served"

(* Whatever the bytes, the program understands only what a builder could   *)
(* have written: the understood instruction packs to the bytes it came     *)
(* from, so that no two readings of the same data are possible.            *)
OnlyPackedIsUnderstood ==
    answer.understood \notin {Refused, Panicked} =>
      LET packed == Pack(answer.understood)
      IN  Len(packed) <= Len(data) /\ packed = SubSeq(data, 1, Len(packed))

(* What the client writes by itself means what it was asked for: a fee of  *)
(* the whole pool, one more than a ratio holds, is thrown out and does not *)
(* wrap around to a pool without fees.                                     *)
ClientIsUnderstood ==
    caller = "client" /\ answer.result # "waiting" =>
      answer.understood = sent \/ answer.result = "thrown"

(* Data and accounts that do not belong together are refused: a request is *)
(* served only if each place holds the account that its role means, also   *)
(* where the handler cannot test the key, as for the source and the target *)
(* accounts.                                                               *)
MismatchIsRefused ==
    Served /\ caller # "client" =>
      \A p \in DOMAIN answer.found :
        answer.found[p].key = Meant(Takes(answer.understood), p)

-----------------------------------------------------------------------------
(* What the documentation says and the code does not                       *)

(* `3. The Serum market bids, 4. The Serum market asks, 5. The Serum event *)
(* queue' (instruction.rs, CancelOrder): the accounts that a handler takes *)
(* from the client's list, and passes on to Serum, are the ones it means.  *)
ClientListsTheAccounts ==
    caller = "client" =>
      \A p \in DOMAIN answer.found :
        answer.found[p].key = Meant(Takes(answer.understood), p)

=============================================================================
