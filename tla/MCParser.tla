------------------------------ MODULE MCParser ------------------------------
(***************************************************************************)
(* Model values for Parser.  Fixnums are 5 bits wide: INT_MAX_VAL is 15,  *)
(* so log10_maxint is 1, a one-digit decimal is read by atol, "11" by GMP *)
(* and demoted to a fixnum, and "111" (or "11" in base 16) is a bignum.  *)
(* The strings are every short string over an alphabet of one digit and  *)
(* the characters the reader dispatches on.                               *)
(***************************************************************************)
EXTENDS Parser

MCFixBits == 5

\* An exponent has one digit: 10^e stays within the integers TLC computes
\* with (the model of strtod and compute_exact_real raises 10 to it).
ExpDigit(c) == c \in {"1", "#", "_"}
ShortExponents(s) ==
    \A k \in DOMAIN s : s[k] = "e" =>
        LET j == IF k < Len(s) /\ s[k + 1] \in {"+", "-"} THEN k + 2 ELSE k + 1
        IN  ~(j < Len(s) /\ ExpDigit(s[j]) /\ ExpDigit(s[j + 1]))
Short(S) == {s \in S : ShortExponents(s)}

SpecialStrings == {<<"+", "i", "n", "f", ".", "0">>, <<"-", "n", "a", "n", ".", "0">>}

\* Every string of up to four characters over the digit 1, the placeholder
\* '#', the exponent marker and prefix letter 'e', both signs, '.', '/',
\* '_' and 'i', and two of the special literals.
ParseStrings == Short(BoundedSeq({"1", "#", "e", "+", "-", ".", "/", "_", "i"}, 4)) \cup SpecialStrings

\* Up to five characters: #e and a decimal with a fraction.
ReparseStrings == Short(BoundedSeq({"1", "#", "e", "."}, 5))

====
