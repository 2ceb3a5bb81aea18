\* One or two calls of string->number, number->string and write, in base
\* 10 or 16, on every string of up to four characters and on the texts
\* printed, with the SRFI-169 toggle and the real precision set between.
CONSTANTS
    FixBits <- MCFixBits
    BigLib = "gmp"
    Strings <- ParseStrings
    Radixes = {10, 16}
    MaxCalls = 2
    Numbers <- PrintNumbers
    Precisions <- MCPrecisions
    RealFormatSize <- MCRealFormatSize
    MaxExponent <- MCMaxExponent
SPECIFICATION PrintFirstSpec
INVARIANT LiteralValue
INVARIANT UnderscoreTransparent
INVARIANT RoundTrip
