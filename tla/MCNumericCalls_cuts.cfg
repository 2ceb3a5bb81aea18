\* One transcendental call on real arguments outside the real domain of
\* acosh, asin, acos and atanh: spec 4.6's extension into the complex
\* domain.  Expected to fail at (acosh -2), which acosh_aux computes as
\* log(sqrt(3) - 2) in doubles: +nan.0.
CONSTANTS
    FixBits <- MCFixBitsWide
    BigLib = "gmp"
    Literals <- CutLiterals
    MaxCalls = 1
    Shifts <- ShiftCounts
    Exponents <- SquareExponents
SPECIFICATION TranscendentalSpec
CHECK_DEADLOCK FALSE
INVARIANT BranchCuts
