\* Sequences of two calls of the NaN primitives, decode-float,
\* encode-float, the float limits and exact->inexact, on a 10-bit format.
CONSTANTS
    FixBits <- MCFixBits
    BigLib = "gmp"
    ExpBits <- MCExpBits
    FracBits <- MCFracBits
    LimbBits <- MCLimbBits
    Doubles <- MCDoubles
    Exacts <- MCExacts
    Payloads <- MCPayloads
    Triples <- MCTriples
    MaxCalls = 2
SPECIFICATION Spec
\* A program is a finite sequence of calls: it stops after MaxCalls.
CHECK_DEADLOCK FALSE
INVARIANT NanFields
INVARIANT DecodeLaw
INVARIANT EncodeDecodeValue
