------------------------------ MODULE MCPrinter ------------------------------
(***************************************************************************)
(* Model values for Printer, with the fixnums and strings of MCParser.     *)
(* The precision starts at 3 digits (REAL_FORMAT_SIZE is 15, whose powers *)
(* of ten leave TLC's integers) and may be set to 1, to 0 or 51 (refused). *)
(***************************************************************************)
EXTENDS Printer, MCParser

MCRealFormatSize == 3
MCPrecisions == {0, 1, 51}
MCMaxExponent == 5

\* INT_MIN_VAL (-16), a bignum, a rational, exact complexes with a
\* negative and a positive imaginary part; reals that round at 1 and 3
\* digits, one tie, one printed in the style e with a positive and one
\* with a negative exponent; an infinity, NaN, and complexes with real
\* parts, the imaginary part of one negative and of the other positive
\* and printed in the style e.
PrintNumbers == {Fix(-16), Big(26), Cmake_rational(Fix(-2), Fix(3)),
                 Cmake_complex(Fix(1), Cmake_rational(Fix(-1), Fix(2))),
                 Cmake_complex(Fix(-1), Fix(2)),
                 Cmake_complex(FinReal(5, 2), FinReal(1, 100000)),
                 FinReal(-2, 3), FinReal(5, 2), FinReal(2500, 1), FinReal(1, 100000),
                 PInf, NaN, Cmake_complex(FinReal(1, 2), FinReal(-3, 1))}

\* The programs of the runs print before they read: the printing steps
\* are taken while no string->number call has been made.  number->string
\* and write make a new string, so the string a program held before does
\* not matter: the printing programs start from the empty string (every
\* other string is read by the programs that do not print).
Printing == ~Called(last) /\ (chars = <<>> \/ printed.radix # 0)
PrintFirstSpec ==
    PrintInit /\ [][\/ ReadSteps
                    \/ Printing /\ number2string
                    \/ Printing /\ write_number
                    \/ Printing /\ real_precision_conv]_printVars

\* A complex whose imaginary part is +inf.0, as (make-rectangular 1 +inf.0)
\* builds it.
InfiniteImaginary == {Cmake_complex(Fix(1), PInf)}
\* A program that only prints starts from the empty string.
EmptyString == {<<>>}
====
