\* One call of every transcendental primitive (exp, log, the trigonometric
\* and hyperbolic functions and their inverses, (log x b), (atan y x),
\* make-polar and sqrt) on literals of every representation, at the wide
\* fixnum width.  One call: composed libm results are exact rationals of
\* the model whose products leave TLC's integers.
CONSTANTS
    FixBits <- MCFixBitsWide
    BigLib = "gmp"
    Literals <- TranscendentalLiterals
    MaxCalls = 1
    Shifts <- ShiftCounts
    Exponents <- SquareExponents
SPECIFICATION TranscendentalSpec
\* A program is a finite sequence of calls: it stops after MaxCalls.
CHECK_DEADLOCK FALSE
INVARIANT TranscendentalExactness
INVARIANT RealResults
