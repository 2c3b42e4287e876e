\* Two users trade shares of one pool: entry, exit, fees, gifts, retirement
\* and a second life of the pool.  Nothing moves once all is spent.
SPECIFICATION Spec
CONSTANTS
    u1 = u1
    u2 = u2
    A = A
    B = B
    Users = {u1, u2}
    Bonfida = bonfida
    BuyBurn = buyburn
    Mints = {A, B}
    NoMint = NoMint
    NoOne = NoOne
    InitialTokens = 4
    MinPeriod = 2
    Scale = 16
    U64 = 14
    Spaces = {2}
    MarketCounts = {0}
    AssetLists <- MCAssetLists
    Periods = {2}
    FeeRatios = {4}
    Asks = {1, 6}
    Redemptions <- MCAll
    Gifts = {1}
    Burns = {}
    Endowment <- MCEndowment
    Opened <- MCHolders
    MaxTime = 3
INVARIANTS
    TypeOK
    SupplyIsHeld
    LiveHasSupply
PROPERTIES
    StayersNotDiluted
    EntryDilutesByLessThanOne
    NoFreeTokens
    RetirementLeavesNothing
    ImplementsShares
CHECK_DEADLOCK FALSE
