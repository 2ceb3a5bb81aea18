\* exact->inexact of the rational 100/3, whose numerator is a bignum.
CONSTANTS
    FixBits <- MCFixBits
    BigLib = "gmp"
    ExpBits <- MCExpBits
    FracBits <- MCFracBits
    LimbBits <- MCLimbBits
    Doubles <- NegativeZero
    Exacts <- BigRational
    Payloads <- ZeroPayload
    Triples <- NoTriples
    MaxCalls = 1
SPECIFICATION Spec
\* A program is a finite sequence of calls: it stops after MaxCalls.
CHECK_DEADLOCK FALSE
INVARIANT InexactNearest
