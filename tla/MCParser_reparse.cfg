\* Two base-10 calls on the same string, of up to five characters.
CONSTANTS
    FixBits <- MCFixBits
    BigLib = "gmp"
    Strings <- ReparseStrings
    Radixes = {10}
    MaxCalls = 2
SPECIFICATION Spec
INVARIANT ParseRepeatable
