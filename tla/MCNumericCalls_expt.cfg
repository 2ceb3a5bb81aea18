\* One call of expt on nineteen literals of every representation raised to
\* exponents of every type other than the exact integers: reals (integral,
\* negative, zero, non-integral), exact rationals, the infinities, NaN and
\* two complexes, at the wide fixnum width.  One call, as for the other
\* transcendental functions: exp(log(x) * y) composes libm results.
CONSTANTS
    FixBits <- MCFixBitsWide
    BigLib = "gmp"
    Literals <- TranscendentalLiterals
    MaxCalls = 1
    Shifts <- ShiftCounts
    Exponents <- ExptExponents
SPECIFICATION ExptSpec
\* A program is a finite sequence of calls: it stops after MaxCalls.
CHECK_DEADLOCK FALSE
INVARIANT ExptExactness
INVARIANT ExptRealResults
