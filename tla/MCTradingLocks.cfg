\* Orders on two open-orders accounts, filled, released and settled in any
\* order, and overdue fees lock the same pool, with and without a zeroed slot.
SPECIFICATION TradingFairSpec
CONSTANTS
    u1 = u1
    u2 = u2
    A = A
    B = B
    o1 = o1
    o2 = o2
    OpenOrders = {o1, o2}
    CoinOf <- MCCoinOf
    PcOf <- MCPcOf
    Users = {u1, u2}
    Bonfida = bonfida
    BuyBurn = buyburn
    Mints = {A, B}
    NoMint = NoMint
    NoOne = NoOne
    InitialTokens = 4
    MinPeriod = 2
    Scale = 64
    U64 = 64
    Spaces = {}
    MarketCounts = {}
    AssetLists = {}
    Periods = {1, 2, 3}
    FeeRatios = {0, 16}
    Asks = {2}
    Redemptions = {1, 4}
    Gifts = {}
    Burns = {}
    Endowment <- MCEndowment
    Opened <- MCUsers
    MaxTime = 4
    Proceeds = {1, 2}
    Legacy <- MCLegacy
INVARIANTS
    TradingTypeOK
    
    
    FeeClockNotAhead
    FeesTakeAtMostTheirSum
    
PROPERTIES
    
    OneCollectionSuffices
    CollectionTakesAtMostTheFee
    ImplementsPoolLife
    OverdueFeesGetCollected
    
CHECK_DEADLOCK FALSE
