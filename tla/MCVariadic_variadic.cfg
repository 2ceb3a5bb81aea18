\* Every call of a variadic primitive with up to three arguments,
\* over literals of every representation.
CONSTANTS
    FixBits <- MCFixBits
    BigLib = "gmp"
    Literals <- VariadicLiterals
    MaxArgs = 3
SPECIFICATION Spec
\* A behaviour is one call; it stops when the call returns.
CHECK_DEADLOCK FALSE
PROPERTY VariadicRefinement
PROPERTY CallsReturn
