\* A fee of one half, left uncollected.
SPECIFICATION Spec
CONSTANTS
    u1 = u1
    u2 = u2
    A = A
    B = B
    Users = {u1, u2}
    Bonfida = bonfida
    BuyBurn = buyburn
    Mints = {A, B}
    NoMint = NoMint
    NoOne = NoOne
    InitialTokens = 4
    MinPeriod = 2
    Scale = 16
    U64 = 64
    Spaces = {2}
    MarketCounts = {0}
    AssetLists <- MCAssetLists
    Periods = {2}
    FeeRatios = {8}
    Asks = {1}
    Redemptions <- MCAll
    Gifts = {}
    Burns = {}
    Endowment <- MCEndowment
    Opened <- MCHolders
    MaxTime = 8
INVARIANTS
    AlwaysUnlockable
CHECK_DEADLOCK FALSE
