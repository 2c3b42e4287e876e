\* A pool that was created with a list that names a mint twice.
SPECIFICATION Spec
CONSTANTS
    u1 = u1
    u2 = u2
    A = A
    B = B
    Users = {u1, u2}
    Bonfida = bonfida
    BuyBurn = buyburn
    Mints = {A, B}
    NoMint = NoMint
    NoOne = NoOne
    InitialTokens = 4
    MinPeriod = 2
    Scale = 16
    U64 = 14
    Spaces = {2}
    MarketCounts = {0}
    AssetLists <- MCWideLists
    Periods = {2}
    FeeRatios = {4}
    Asks = {1, 3}
    Redemptions <- MCAll
    Gifts = {}
    Burns = {}
    Endowment <- MCEndowment
    Opened <- MCHolders
    MaxTime = 3
PROPERTIES
    RedemptionIsCommensurate
CHECK_DEADLOCK FALSE
