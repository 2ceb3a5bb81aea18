\* round of a rational whose denominator is the value 2 held in a bignum.
CONSTANTS
    FixBits <- MCFixBits
    BigLib = "mini"
    Literals <- AllLiterals
    MaxCalls = 2
    Shifts = {}
    Exponents = {}
SPECIFICATION CoreSpec
\* A program is a finite sequence of calls: it stops after MaxCalls.
CHECK_DEADLOCK FALSE
INVARIANT RoundHalfEven
