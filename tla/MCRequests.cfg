\* Every instruction, from a builder, from the client, and tampered with.
SPECIFICATION ReqSpec
CONSTANTS
    Base = 10
    Instructions <- MCInstructions
    AssetCounts = {0, 2}
    Percentages = {0, 20, 99, 100}
    Tampered = {0, 3, 6, 9}
INVARIANTS
    BuildersAreServed
    OnlyPackedIsUnderstood
    ClientIsUnderstood
    MismatchIsRefused
CHECK_DEADLOCK FALSE
