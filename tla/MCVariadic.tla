---------------------------- MODULE MCVariadic ----------------------------
(***************************************************************************)
(* Model values for Variadic.  Fixnums are 3 bits wide (-4..3), so that   *)
(* sums and products of two or three arguments leave the fixnum range and *)
(* come back to it.                                                        *)
(***************************************************************************)
EXTENDS Variadic

MCFixBits == 3

\* INT_MIN_VAL, zero, INT_MAX_VAL, a bignum, a rational, an integral
\* double, an infinity, NaN and an exact complex: arguments inside and
\* outside the domain of every primitive.
VariadicLiterals == {Fix(-4), Fix(0), Fix(3), Big(5), Cmake_rational(Fix(1), Fix(2)),
                     FinReal(-2, 1), PInf, NaN, Cmake_complex(Fix(1), Fix(1))}
====
