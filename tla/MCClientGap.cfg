\* Clients settle an order of a pool with a zeroed slot in its list.
SPECIFICATION ClientFairSpec
CONSTANTS
    u1 = u1
    u2 = u2
    A = A
    B = B
    o1 = o1
    o2 = o2
    OpenOrders = {o1, o2}
    CoinOf <- MCCoinOf
    PcOf <- MCPcOf
    Users = {u1, u2}
    Bonfida = bonfida
    BuyBurn = buyburn
    Mints = {A, B, C}
    NoMint = NoMint
    NoOne = NoOne
    InitialTokens = 4
    MinPeriod = 2
    Scale = 16
    U64 = 16
    Spaces = {}
    MarketCounts = {}
    AssetLists = {}
    Periods = {2}
    FeeRatios = {1}
    Asks = {}
    Redemptions = {}
    Gifts = {}
    Burns = {}
    Endowment <- MCEndowment
    Opened <- MCHolders
    MaxTime = 0
    Proceeds = {1}
    Legacy <- MCGap
    C = C
    MaxMail = 1
PROPERTIES
    ClientsUnlock
CHECK_DEADLOCK FALSE
