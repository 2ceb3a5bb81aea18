---------------------------- MODULE MCFloatBits ----------------------------
(***************************************************************************)
(* FloatBits on a 10-bit binary format: 5 exponent bits (bias 15) and 4  *)
(* fraction bits, so DBL_MANT_DIG = 5, DBL_MIN_EXP = -13, DBL_MAX_EXP =   *)
(* 16, 3 payload bits below the quiet bit and the signaling bit.  Limbs   *)
(* of 4 bits make bigrational2double scale by 2^-4 one or more times.     *)
(* Fixnums of 6 bits (-32..31) hold every significand (0..31) and every   *)
(* exponent (-18..11) of the format, as fixnums hold those of binary64.   *)
(***************************************************************************)
EXTENDS FloatBits

MCFixBits == 6
MCExpBits == 5
MCFracBits == 4
MCLimbBits == 4

\* +0.0, -0.0, the subnormal 3 * 2^-18, the smallest normal 2^-14, 1.5,
\* -2.75, the largest finite 31 * 2^11, +inf.0, -inf.0, +nan.0 and the
\* -nan 0.0/0.0 gives, and a quiet NaN with bit 50 set too (a signaling
\* NaN quieted by an arithmetic operation).
MCDoubles == {0, 512, 3, 16, 248, 774, 495, 496, 1008, 504, 1016, 508}

\* Integers of both representations, one of which (99) is not a double
\* and one (-45) is half-way between two; rationals with fixnum parts.
MCExacts == {Fix(0), Fix(-7), Fix(31), Big(99), Big(-45),
             Cmake_rational(Fix(1), Fix(3)), Cmake_rational(Fix(-9), Fix(4))}

\* A negative payload, the largest one (payload_mask = 3), one too large.
MCPayloads == {Fix(-1), Fix(0), Fix(3), Fix(4)}

\* The NaN and infinity requests, the largest significand and exponent,
\* and one argument out of each range or not an integer.
MCTriples == {<<SchemeBool(FALSE), Fix(0), Fix(0)>>, <<SchemeBool(TRUE), Fix(0), Fix(-1)>>,
              <<Fix(31), Fix(11), Fix(1)>>, <<Big(32), Fix(0), Fix(1)>>,
              <<Fix(-1), Fix(0), Fix(1)>>, <<Fix(1), Fix(-19), Fix(-1)>>,
              <<Fix(1), Fix(12), Fix(1)>>, <<Fix(3), Cmake_rational(Fix(1), Fix(2)), Fix(1)>>}

\* 100/3, a rational with a bignum numerator: the doubles next to it are
\* 32 and 34, and 34 is the nearer.
BigRational == {Cmake_rational(Big(100), Fix(3))}

\* -0.0 alone, for the decode, encode, exact->inexact sequence.
NegativeZero == {512}
NoExacts == {}
NoTriples == {}
ZeroPayload == {Fix(0)}
====
