\* Exact division by an exact zero.
CONSTANTS
    FixBits <- MCFixBits
    BigLib = "mini"
    Literals <- AllLiterals
    MaxCalls = 2
    Shifts = {}
    Exponents = {}
SPECIFICATION CoreSpec
CHECK_DEADLOCK FALSE
INVARIANT ExactDivision
