\* Integer division with an infinite argument, system GMP build.
CONSTANTS
    FixBits <- MCFixBits
    BigLib = "gmp"
    Literals <- AllLiterals
    MaxCalls = 2
    Shifts = {}
    Exponents = {}
SPECIFICATION CoreSpec
CHECK_DEADLOCK FALSE
INVARIANT NoAbort
