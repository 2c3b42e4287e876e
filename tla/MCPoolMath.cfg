\* Ratios of five bits, and up to six periods collected at once.
SPECIFICATION Spec
CONSTANTS
    Scale = 32
    U64 = 1024
    MaxPower = 6
INVARIANTS
    PowNeverOverstates
    PowErrsByLessThanItsExponent
CHECK_DEADLOCK FALSE
