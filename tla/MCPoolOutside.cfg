\* Transfers and burns outside the program, lists that repeat a mint, are
\* empty or do not fit, several sizes of account, and a u64 so small that the
\* cast of the quotient to u64 truncates.
SPECIFICATION Spec
CONSTANTS
    u1 = u1
    u2 = u2
    A = A
    B = B
    Users = {u1, u2}
    Bonfida = bonfida
    BuyBurn = buyburn
    Mints = {A, B}
    NoMint = NoMint
    NoOne = NoOne
    InitialTokens = 4
    MinPeriod = 2
    Scale = 16
    U64 = 12
    Spaces = {2, 3}
    MarketCounts = {0, 1}
    AssetLists <- MCWideLists
    Periods = {1, 2}
    FeeRatios = {0, 8}
    Asks = {2, 5}
    Redemptions = {1, 3, 4}
    Gifts = {1}
    Burns = {1, 4}
    Endowment <- MCEndowment
    Opened <- MCButBonfida
    MaxTime = 0
INVARIANTS
    RetiredHasNoSupply
    DepositIsAffordable
    RoundTripNeverEarns
PROPERTIES
    DrainedPoolIsStuck
CHECK_DEADLOCK FALSE
