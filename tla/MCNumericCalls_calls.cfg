\* Sequences of two calls of every primitive (arithmetic, the predicates,
\* numerator and denominator, the rounding primitives, the bit operations
\* of logical.stk, expt and sqrt) over literals of every representation,
\* at a fixnum width where the base-16 digits 0..15 are fixnums.
CONSTANTS
    FixBits <- MCFixBitsWide
    BigLib = "gmp"
    Literals <- WideLiterals
    MaxCalls = 2
    Shifts <- ShiftCounts
    Exponents <- SquareExponents
SPECIFICATION ArithSpec
\* A program is a finite sequence of calls: it stops after MaxCalls.
CHECK_DEADLOCK FALSE
INVARIANT CanonicalValues
INVARIANT ExactArithmetic
INVARIANT CompareAgreesWithOrder
INVARIANT RemainderModuloLaw
INVARIANT MaxMinLaw
INVARIANT BitwiseLaw
INVARIANT ExptLaw
INVARIANT SqrtRoot
INVARIANT RoundingLaw
INVARIANT TypePredicatesLaw
INVARIANT MagnitudeLaw
