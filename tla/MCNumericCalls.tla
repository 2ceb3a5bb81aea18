--------------------------- MODULE MCNumericCalls ---------------------------
(***************************************************************************)
(* Model values for NumericCalls.  Fixnums are 3 bits wide, so they span   *)
(* -4..3: INT_MIN_VAL is -4 and 4 is already a bignum, and a product of   *)
(* two small literals overflows the fast paths of add2, sub2 and mul2.    *)
(***************************************************************************)
EXTENDS NumericCalls

MCFixBits == 3

Half     == Cmake_rational(Fix(1), Fix(2))
MinusTwoThirds == Cmake_rational(Fix(-2), Fix(3))

\* The fixnum boundaries -4, 3 and a bignum beside them, rationals, reals
\* with the IEEE specials, an exact and an inexact complex.
AllLiterals == {Fix(-4), Fix(-1), Fix(0), Fix(2), Fix(3), Big(5),
                Half, MinusTwoThirds,
                FinReal(1, 2), FinReal(-2, 1), PInf, MInf, NaN,
                Cmake_complex(Fix(1), Fix(1)), Cmake_complex(Fix(1), FinReal(3, 2))}
\* For logical.stk: fixnums of 6 bits (-32..31), so that 16 and the
\* digits 0..15 are fixnums as in the 62-bit build.
MCFixBitsWide == 6
\* For arithmetic and the bit operations together at that width: the
\* fixnum boundaries, -1, 0, bignums of both signs, a rational, a real,
\* the IEEE specials and a complex.
WideLiterals == {Fix(-32), Fix(-1), Fix(0), Fix(31), Big(-40), Big(100),
                 MinusTwoThirds, FinReal(5, 2), PInf, NaN, Cmake_complex(Fix(1), Fix(1))}
\* For the transcendental library: the exact shortcut points 0 and 1, the
\* poles and domain ends +-1 and +-1.0, fixnums, bignums and rationals on
\* either side of them, 0.0, the IEEE specials and two complexes.
TranscendentalLiterals ==
    {Fix(-2), Fix(-1), Fix(0), Fix(1), Fix(2), Big(-40), Big(100),
     Half, MinusTwoThirds, FinReal(0, 1), FinReal(1, 1), FinReal(-1, 1),
     FinReal(5, 2), FinReal(-5, 2), PInf, MInf, NaN,
     Cmake_complex(Fix(1), Fix(1)), Cmake_complex(Fix(0), FinReal(-1, 2))}
\* Real arguments below the real domain of acosh and outside that of
\* asin, acos and atanh: the fixnum -2, the double 2.5, the rational -2/3.
CutLiterals == {Fix(-2), FinReal(5, 2), MinusTwoThirds}
ShiftCounts == {Fix(-3), Fix(-1), Fix(2), Fix(5)}
\* Exponents of expt other than the exact integers: a non-integral and an
\* integral negative double, 0.0, a positive and a negative rational, the
\* IEEE specials and two complexes, one with a zero real part.
ExptExponents == {FinReal(5, 2), FinReal(-1, 1), FinReal(0, 1), Half, MinusTwoThirds,
                  PInf, MInf, NaN, Cmake_complex(Fix(1), Fix(1)),
                  Cmake_complex(Fix(0), FinReal(-1, 2))}
\* Exponents up to 2: 100^2 squared stays within TLC's integers.
SquareExponents == {Fix(-2), Fix(-1), Fix(0), Fix(2)}
====
