---------------------------- MODULE Transcendental ----------------------------
(***************************************************************************)
(* The transcendental library of src/src/number.c on the values of Tower: *)
(* my_exp, my_log, the trigonometric and hyperbolic functions and their   *)
(* inverses, my_atan2, magnitude, angle and make_polar.  The exact        *)
(* shortcuts, the dispatch on the representation, the identities through *)
(* exp, log and sqrt and the error paths are kept; what the C library     *)
(* computes (exp(), log(), sin(), ...) is abstracted by Libm below.       *)
(***************************************************************************)
EXTENDS Powers

\* MY_PI, a double close to pi.
MyPi == FinReal(22, 7)

\* The libm functions that are odd: their result has the argument's sign.
LibmOdd == {"sin", "tan", "asin", "atan", "sinh", "tanh", "asinh"}

\* C99 Annex F values at the infinities (atan(+-inf) = +-pi/2).
LibmAtPInf == [exp |-> PInf, log |-> PInf, sin |-> NaN, cos |-> NaN, tan |-> NaN,
               atan |-> FinReal(11, 7), sinh |-> PInf, cosh |-> PInf,
               tanh |-> FinReal(1, 1), asinh |-> PInf]
LibmAtMInf == [exp |-> FinReal(0, 1), log |-> NaN, sin |-> NaN, cos |-> NaN,
               tan |-> NaN, atan |-> FinReal(-11, 7), sinh |-> MInf, cosh |-> PInf,
               tanh |-> FinReal(-1, 1), asinh |-> MInf]

\* The double a libm function f returns at the double x.  NaN propagates;
\* log is -inf at 0.0 and NaN below; exp, cos and cosh are 1.0 at 0.0.
\* Any other result is an irrational double, abstracted to +-1/3 with the
\* sign of the true result where the argument fixes it: an odd function
\* has the argument's sign (0.0 at 0.0), log the sign of x - 1 (0.0 at
\* 1.0).  What the properties tell apart is exact or inexact, real or
\* complex, finite or not; never the digits.
Libm(f, x) ==
    CASE x.k = "nan"                            -> NaN
      [] x.k = "pinf"                           -> LibmAtPInf[f]
      [] x.k = "minf"                           -> LibmAtMInf[f]
      [] f = "log" /\ x.n < 0                   -> NaN
      [] f = "log" /\ x.n = 0                   -> MInf
      [] f = "log"                              -> FinReal(RSign(FAdd(x, FinReal(-1, 1))), 3)
      [] f \in {"exp", "cos", "cosh"} /\ x.n = 0 -> FinReal(1, 1)
      [] f \in LibmOdd                          -> FinReal(RSign(x), 3)
      [] OTHER                                  -> FinReal(1, 3)

\* atan2(y, x) of C99 on two doubles (signed zeros not modelled).
Atan2(y, x) ==
    CASE Nanp(y) \/ Nanp(x)              -> NaN
      [] RSign(y) = 0                    -> IF RSign(x) < 0 THEN MyPi ELSE FinReal(0, 1)
      [] y.k = "fin" /\ x.k = "pinf"     -> FinReal(0, 1)
      [] y.k = "fin" /\ x.k = "minf"     -> FinReal(RSign(y) * 22, 7)
      [] OTHER                           -> FinReal(RSign(y), 3)

\* my_atan2: both arguments real?, then atan2 of their inexact real parts.
MyAtan2(y, x) ==
    CASE ~Realp(y) -> Error("BadNumber")
      [] ~Realp(x) -> Error("BadNumber")
      [] OTHER     -> Atan2(Exact2Inexact(RealPart(y)), Exact2Inexact(RealPart(x)))

\* Variant: magnitude with sub2 where the code adds the squares.
MagnitudeDiff(z) == IF z.t = "complex" THEN Sqrt(Sub2(Mul2(z.re, z.re), Mul2(z.im, z.im)))
                    ELSE Absolute(z)

\* magnitude: absolute of a real, the root of re^2 + im^2 of a complex.
Magnitude(z) == IF z.t = "complex" THEN Sqrt(Add2(Mul2(z.re, z.re), Mul2(z.im, z.im)))
                ELSE Absolute(z)

\* angle: 0 (exact for an exact argument, 0.0 for a real) when positive?,
\* MY_PI otherwise; my_atan2(im, re) of a complex.
Angle(z) ==
    CASE z.t = "complex" -> MyAtan2(z.im, z.re)
      [] Positivep(z)    -> IF z.t = "real" THEN FinReal(0, 1) ELSE Fix(0)
      [] OTHER           -> MyPi

----------------------------------------------------------------------------
(* exp, log, sin, cos and make_polar call one another.                    *)

RECURSIVE MyExp(_), MyCos(_), MySin(_), MakePolar(_, _)

\* make_polar: a*cos(m) + i a*sin(m), through make_complex.
MakePolar(a, m) == make_complex(Mul2(a, MyCos(m)), Mul2(a, MySin(m)))

\* my_exp: exact 1 at the fixnum 0, libm on a non-complex, make_polar of
\* a complex.
MyExp(z) ==
    CASE z.t = "complex"    -> MakePolar(MyExp(z.re), z.im)
      [] SameObject(z, Fix(0)) -> Fix(1)
      [] OTHER              -> Libm("exp", ToReal(z))

\* The two exponentials of the complex identities of cos and sin:
\* exp(-im + i re) and exp(im - i re).
ExpIZ(z) == MyExp(make_complex(Sub2(Fix(0), z.im), z.re))
ExpMinusIZ(z) == MyExp(make_complex(z.im, Sub2(Fix(0), z.re)))

\* my_cos: exact 1 at the fixnum 0; (e^iz + e^-iz) / 2 of a complex.
MyCos(z) ==
    CASE z.t = "complex"       -> Div2(Add2(ExpIZ(z), ExpMinusIZ(z)), Fix(2))
      [] SameObject(z, Fix(0)) -> Fix(1)
      [] OTHER                 -> Libm("cos", ToReal(z))

\* my_sin: exact 0 at the fixnum 0; (e^iz - e^-iz) / 2i of a complex.
MySin(z) ==
    CASE z.t = "complex"       -> Div2(Sub2(ExpIZ(z), ExpMinusIZ(z)),
                                       Cmake_complex(Fix(0), Fix(2)))
      [] SameObject(z, Fix(0)) -> Fix(0)
      [] OTHER                 -> Libm("sin", ToReal(z))

\* my_log: a finite negative non-complex is log(-z) + i MY_PI; the fixnum
\* 0 signals, the fixnum 1 is exact 0; a complex is log(magnitude) + i
\* angle; otherwise libm (-0.0 is not modelled).
RECURSIVE MyLog(_)
MyLog(z) ==
    CASE z.t # "complex" /\ Negativep(z) /\ Finitep(z) ->
              make_complex(MyLog(Sub2(Fix(0), z)), MyPi)
      [] SameObject(z, Fix(0)) -> Error("Undefined")
      [] SameObject(z, Fix(1)) -> Fix(0)
      [] z.t = "complex"       -> make_complex(MyLog(Magnitude(z)), Angle(z))
      [] OTHER                 -> Libm("log", ToReal(z))

\* sqrt of a complex: make_polar of the root of the magnitude and half
\* the angle.
SqrtComplex(z) == MakePolar(Sqrt(Magnitude(z)), Div2(Angle(z), Fix(2)))

\* my_tan on a non-complex: exact 0 at the fixnum 0, libm otherwise.
MyTan(z) == IF SameObject(z, Fix(0)) THEN Fix(0) ELSE Libm("tan", ToReal(z))

\* my_atan on a non-complex: exact 0 at the fixnum 0, libm otherwise.
MyAtan(z) == IF SameObject(z, Fix(0)) THEN Fix(0) ELSE Libm("atan", ToReal(z))

MinusI == Cmake_complex(Fix(0), Fix(-1))
PlusI  == Cmake_complex(Fix(0), Fix(1))

\* asin_real: the opposite of asin(-d) below -1, -i log(i d + sqrt(1 - d^2))
\* above 1 (1 - d*d computed in doubles), libm in between and for a NaN.
RECURSIVE AsinReal(_)
AsinReal(d) ==
    CASE FLess(d, FinReal(-1, 1)) -> Sub2(Fix(0), AsinReal(FNeg(d)))
      [] FLess(FinReal(1, 1), d)  ->
            Mul2(MinusI, MyLog(Add2(Mul2(PlusI, d),
                                    Sqrt(FAdd(FinReal(1, 1), FNeg(FMul(d, d)))))))
      [] OTHER                    -> Libm("asin", d)

\* my_asin on a non-complex: exact 0 at the fixnum 0, asin_real otherwise.
MyAsin(z) == IF SameObject(z, Fix(0)) THEN Fix(0) ELSE AsinReal(ToReal(z))

\* acos_complex: -i log(z + i sqrt(1 - z^2)).
AcosComplex(z) ==
    Mul2(MinusI, MyLog(Add2(z, Mul2(PlusI, Sqrt(Sub2(Fix(1), Mul2(z, z)))))))

\* acos_real: libm strictly inside (-1, 1), acos_complex of the double
\* elsewhere (a NaN included).
AcosReal(d) == IF FLess(FinReal(-1, 1), d) /\ FLess(d, FinReal(1, 1))
               THEN Libm("acos", d) ELSE AcosComplex(d)

\* my_acos on a non-complex: MY_PI / 2 at the fixnum 0.
MyAcos(z) == IF SameObject(z, Fix(0)) THEN Div2(MyPi, Fix(2)) ELSE AcosReal(ToReal(z))

----------------------------------------------------------------------------
(* The hyperbolic functions on non-complex arguments.                      *)

\* fpclassify(REAL_VAL(z)) == FP_ZERO, INT_VAL(z) == 0.
IsZeroDouble(z) == z.t = "real" /\ RSign(z) = 0 /\ z.k = "fin"
IsFixZero(z) == z.t = "integer" /\ z.v = 0

\* Variant: cosh without the FP_ZERO test of a real.
MyCoshNoZeroTest(z) ==
    CASE IsFixZero(z)                 -> Fix(1)
      [] z.t \in {"real", "integer"}  -> Libm("cosh", ToReal(z))
      [] OTHER -> Div2(Add2(MyExp(z), Div2(Fix(1), MyExp(z))), FinReal(2, 1))

\* my_cosh: exact 1 at a zero real or fixnum, libm on a real or fixnum,
\* (e^z + 1/e^z) / 2.0 on a bignum or rational.
MyCosh(z) ==
    CASE IsZeroDouble(z) \/ IsFixZero(z) -> Fix(1)
      [] z.t \in {"real", "integer"}     -> Libm("cosh", ToReal(z))
      [] OTHER -> Div2(Add2(MyExp(z), Div2(Fix(1), MyExp(z))), FinReal(2, 1))

\* my_sinh: exact 0 at a zero real or fixnum; (e^z - 1/e^z) / 2.0.
MySinh(z) ==
    CASE IsZeroDouble(z) \/ IsFixZero(z) -> Fix(0)
      [] z.t \in {"real", "integer"}     -> Libm("sinh", ToReal(z))
      [] OTHER -> Div2(Sub2(MyExp(z), Div2(Fix(1), MyExp(z))), FinReal(2, 1))

\* my_tanh: exact 0 at a zero real or fixnum; (e^z - 1/e^z) / (e^z + 1/e^z).
MyTanh(z) ==
    CASE IsZeroDouble(z) \/ IsFixZero(z) -> Fix(0)
      [] z.t \in {"real", "integer"}     -> Libm("tanh", ToReal(z))
      [] OTHER -> Div2(Sub2(MyExp(z), Div2(Fix(1), MyExp(z))),
                       Add2(MyExp(z), Div2(Fix(1), MyExp(z))))

\* my_asinh: exact 0 at a zero real or fixnum; log(z + sqrt(z^2 + 1)).
MyAsinh(z) ==
    CASE IsZeroDouble(z) \/ IsFixZero(z) -> Fix(0)
      [] z.t \in {"real", "integer"}     -> Libm("asinh", ToReal(z))
      [] OTHER -> MyLog(Add2(z, Sqrt(Add2(Mul2(z, z), Fix(1)))))

\* The identity of acosh: log(z + sqrt(z^2 - 1)).
AcoshIdentity(z) == MyLog(Add2(z, Sqrt(Sub2(Mul2(z, z), Fix(1)))))

\* acosh_aux: when r = zz*zz - 1 is a finite double >= 0, log of the
\* double sqrt(r) + zz, which has the sign of zz (sqrt(r) < |zz|) and is
\* not 1.0 (zz = 1.0 returned earlier); the identity otherwise.
AcoshAux(z, zz) ==
    LET r == FAdd(FMul(zz, zz), FinReal(-1, 1))
    IN  IF r.k = "fin" /\ RSign(r) >= 0
        THEN Libm("log", FinReal(RSign(zz) * 3, 2))
        ELSE AcoshIdentity(z)

\* my_acosh: exact 0 at 1.0 and the fixnum 1, acosh_aux on a real or
\* fixnum, the identity on a bignum or rational.
MyAcosh(z) ==
    CASE z.t = "real" /\ FEq(z, FinReal(1, 1))  -> Fix(0)
      [] z.t = "integer" /\ z.v = 1             -> Fix(0)
      [] z.t \in {"real", "integer"}            -> AcoshAux(z, ToReal(z))
      [] OTHER                                  -> AcoshIdentity(z)

\* atanh_aux on the doubles 1 + zz and 1 - zz: (log n - log d) / 2.0, an
\* irrational double with the sign of zz, when both are positive; else
\* l = my_log(n) - my_log(d), halved as a double when it is real.
AtanhAux(zz) ==
    LET n == FAdd(FinReal(1, 1), zz)
        d == FAdd(FinReal(1, 1), FNeg(zz))
    IN  IF FLess(FinReal(0, 1), n) /\ FLess(FinReal(0, 1), d)
        THEN FinReal(RSign(zz), 3)
        ELSE LET l == Sub2(MyLog(n), MyLog(d))
             IN  IF l.t = "real" THEN FDiv(l, FinReal(2, 1)) ELSE Div2(l, FinReal(2, 1))

\* my_atanh: out of range at +-1 and +-1.0, exact 0 at a zero real or
\* fixnum, atanh_aux on a real or fixnum; on a bignum or rational
\* log(1 + z) - log(1 - z), halved.
MyAtanh(z) ==
    CASE z.t \in {"real", "integer"} /\ ToReal(z) \in {FinReal(1, 1), FinReal(-1, 1)} ->
              Error("OutOfRange")
      [] IsZeroDouble(z) \/ IsFixZero(z) -> Fix(0)
      [] z.t \in {"real", "integer"}     -> AtanhAux(ToReal(z))
      [] OTHER -> LET l == Sub2(MyLog(Add2(Fix(1), z)), MyLog(Sub2(Fix(1), z)))
                  IN  IF l.t = "real" THEN FDiv(l, FinReal(2, 1)) ELSE Div2(l, FinReal(2, 1))


----------------------------------------------------------------------------
(* expt with any exponent: my_expt and the primitive.                     *)

\* !(y - floor(y)) on a double: true of a finite integral value only (the
\* difference is NaN at the infinities and at NaN).
IntegralReal(y) == y.k = "fin" /\ y.d = 1

\* pow(x, y) of C99 for y > 0 (the zero exponent and the zero base are
\* handled before pow is called): 1 at the base 1.0, NaN propagates, the
\* limits at +inf and at the infinite bases, NaN for a negative base and a
\* non-integral exponent, the power itself for an integral one, and the
\* stand-in of Libm for an irrational power.
Pow(x, y) ==
    CASE x = FinReal(1, 1)                        -> FinReal(1, 1)
      [] Nanp(x) \/ Nanp(y)                       -> NaN
      [] y.k = "pinf" /\ x.k = "fin"              ->
            CASE AbsI(x.n) < x.d -> FinReal(0, 1)
              [] AbsI(x.n) = x.d -> FinReal(1, 1)
              [] OTHER           -> PInf
      [] x.k = "pinf"                             -> PInf
      [] x.k = "minf"                             ->
            IF IntegralReal(y) /\ y.n % 2 = 1 THEN MInf ELSE PInf
      [] IntegralReal(y)                          -> FinReal(x.n ^ y.n, x.d ^ y.n)
      [] x.n < 0                                  -> NaN
      [] OTHER                                    -> FinReal(1, 3)

\* exact2inexact of a result that may be an error of exact_exponent_expt.
InexactPower(p) == IF IsErr(p) THEN p ELSE Exact2Inexact(p)

\* Variant: the exact power of an integral double exponent not made
\* inexact.
MyExptExactPower(x, y) ==
    CASE IsIntClass(y)                                     -> ExactExponentExpt(x, y)
      [] y.t # "complex" /\ Zerop(y)                       -> FinReal(1, 1)
      [] y.t # "complex" /\ Zerop(x)                       ->
            IF SameObject(x, Fix(0)) THEN x ELSE FinReal(0, 1)
      [] y.t = "real" /\ x.t = "real"                      -> Pow(x, y)
      [] y.t = "real" /\ IntegralReal(y)                   -> ExactExponentExpt(x, Inexact2Exact(y))
      [] y.t = "complex" /\ Zerop(x)                       ->
            CASE ~Positivep(y.re) -> Error("ZeroToComplexPower")
              [] Isexactp(x)     -> Fix(0)
              [] OTHER           -> FinReal(0, 1)
      [] OTHER                                             -> MyExp(Mul2(MyLog(x), y))

\* Variant: no case for an integral double exponent; a negative base goes
\* through exp(log(x) * y).
MyExptNoIntegral(x, y) ==
    CASE IsIntClass(y)                                     -> ExactExponentExpt(x, y)
      [] y.t # "complex" /\ Zerop(y)                       -> FinReal(1, 1)
      [] y.t # "complex" /\ Zerop(x)                       ->
            IF SameObject(x, Fix(0)) THEN x ELSE FinReal(0, 1)
      [] y.t = "real" /\ x.t = "real"                      -> Pow(x, y)
      [] y.t = "complex" /\ Zerop(x)                       ->
            CASE ~Positivep(y.re) -> Error("ZeroToComplexPower")
              [] Isexactp(x)     -> Fix(0)
              [] OTHER           -> FinReal(0, 1)
      [] OTHER                                             -> MyExp(Mul2(MyLog(x), y))

\* my_expt(x, y), y >= 0: exact_exponent_expt for an exact integer; for a
\* rational or real y, 1.0 at a zero exponent, the base itself (fixnum 0)
\* or 0.0 at a zero base, pow when both are doubles (pow never overflows
\* on the model's exact reals), the exact power made inexact for an
\* integral double; then, for a complex y or after the fall through, 0 or
\* an error at a zero base, and exp(log(x) * y).
MyExpt(x, y) ==
    CASE IsIntClass(y)                                     -> ExactExponentExpt(x, y)
      [] y.t # "complex" /\ Zerop(y)                       -> FinReal(1, 1)
      [] y.t # "complex" /\ Zerop(x)                       ->
            IF SameObject(x, Fix(0)) THEN x ELSE FinReal(0, 1)
      [] y.t = "real" /\ x.t = "real"                      -> Pow(x, y)
      [] y.t = "real" /\ IntegralReal(y)                   ->
            InexactPower(ExactExponentExpt(x, Inexact2Exact(y)))
      [] y.t = "complex" /\ Zerop(x)                       ->
            CASE ~Positivep(y.re) -> Error("ZeroToComplexPower")
              [] Isexactp(x)     -> Fix(0)
              [] OTHER           -> FinReal(0, 1)
      [] OTHER                                             -> MyExp(Mul2(MyLog(x), y))

\* The exponent my_expt is called with: the opposite of a negative
\* non-complex exponent.
ExptNeg(y) == y.t # "complex" /\ Negativep(y)
ExptArg(y) == IF ExptNeg(y) THEN Sub2(Fix(0), y) ELSE y

\* "expt": 1 / my_expt(x, -y) for a negative non-complex y.
ExptPrim(x, y) == ExptInverse(ExptNeg(y), MyExpt(x, ExptArg(y)))

\* The outcomes of the build: the uninitialized mpz_t of the bignum case
\* of exact_exponent_expt is reached through an exact exponent or an
\* integral double exponent of a non-double base.
ExptPrimOutcomes(x, y) ==
    LET e == ExptArg(y)
        ee == CASE IsIntClass(e)                                  -> e
                [] e.t = "real" /\ x.t # "real" /\ IntegralReal(e) -> Inexact2Exact(e)
                [] OTHER                                           -> Fix(0)
    IN  {ExptPrim(x, y)} \cup (IF UninitPow(x, ee) THEN {Error("Abort")} ELSE {})

====
