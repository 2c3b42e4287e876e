\* A transaction under way while the pool is traded, retired and created again.
SPECIFICATION ClientFairSpec
CONSTANTS
    u1 = u1
    u2 = u2
    A = A
    B = B
    o1 = o1
    o2 = o2
    OpenOrders = {o1, o2}
    CoinOf <- MCTwiceCoinOf
    PcOf <- MCTwicePcOf
    Users = {u1, u2}
    Bonfida = bonfida
    BuyBurn = buyburn
    Mints = {A, B}
    NoMint = NoMint
    NoOne = NoOne
    InitialTokens = 4
    MinPeriod = 2
    Scale = 16
    U64 = 16
    Spaces = {}
    MarketCounts = {0}
    AssetLists <- MCNextLives
    Periods = {2}
    FeeRatios = {1}
    Asks = {2}
    Redemptions = {2, 4}
    Gifts = {}
    Burns = {}
    Endowment <- MCEndowment
    Opened <- MCButBonfida
    MaxTime = 2
    Proceeds = {1}
    Legacy <- MCLegacy
    C = C
    MaxMail = 1

    
PROPERTIES
    StaleRequestsAreSteps
    FreshRequestsAreServed
    ClientsUnlock
CHECK_DEADLOCK FALSE
