\* The client cancels an order.
SPECIFICATION ReqSpec
CONSTANTS
    Base = 10
    Instructions <- MCCancels
    AssetCounts = {2}
    Percentages = {}
    Tampered = {}
INVARIANTS
    ClientListsTheAccounts
CHECK_DEADLOCK FALSE
