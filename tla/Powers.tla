------------------------------- MODULE Powers -------------------------------
(***************************************************************************)
(* sqrt and expt of src/src/number.c on the values of Tower: the exact    *)
(* shortcuts my_sqrt_exact and exact_exponent_expt, and the primitives    *)
(* "sqrt" (non-complex arguments) and "expt" (exact integer exponents).   *)
(* The exp(log(x) * y) fallback and make_polar are transcendental and     *)
(* are not modelled.                                                       *)
(***************************************************************************)
EXTENDS Tower

\* A C int is half as wide as a C long (32 and 64 bits); (int) casts and
\* int products wrap at that width.
CInt(n) == Wrap(n, (FixBits + 2) \div 2)

\* floor(sqrt(n)) of a natural: (int) sqrt((double) n), and mpz_sqrt.
RECURSIVE ISqrt(_)
ISqrt(n) == IF n < 2 THEN n
            ELSE LET r == 2 * ISqrt(n \div 4)
                 IN  IF (r + 1) * (r + 1) <= n THEN r + 1 ELSE r

\* sqrt() of a double.  A square root that is not rational is abstracted
\* to the real half-way between its floor and its ceiling: what the
\* properties tell apart is whether it is an integer, never its digits.
CSqrt(x) ==
    CASE x.k = "fin" /\ x.n < 0 -> NaN
      [] x.k = "fin" ->
            IF ISqrt(x.n) ^ 2 = x.n /\ ISqrt(x.d) ^ 2 = x.d
            THEN FinReal(ISqrt(x.n), ISqrt(x.d))
            ELSE FinReal(2 * ISqrt(x.n \div x.d) + 1, 2)
      [] x.k = "pinf" -> PInf
      [] OTHER -> NaN

\* Variant: MAKE_INT((int) d) without the perfect-square test.
SqrtFixnumUnchecked(i, r) == MakeInt(CInt(r))

\* The fixnum case: d = sqrt((double) i); "(int) d * (int) d == i" is an
\* int product.
SqrtFixnum(i, r) == IF CInt(CInt(r) * CInt(r)) = i THEN MakeInt(CInt(r))
                    ELSE CSqrt(FinReal(i, 1))

\* my_sqrt_exact: zero, a negative number as i times the root of its
\* opposite, a fixnum through a double, a bignum through mpz_sqrt.
RECURSIVE my_sqrt_exact(_)
my_sqrt_exact(x) ==
    CASE Zerop(x)          -> Fix(0)
      [] Negativep(x)      -> Cmake_complex(Fix(0), my_sqrt_exact(Mul2(Fix(-1), x)))
      [] x.t = "integer"   -> SqrtFixnum(x.v, ISqrt(x.v))
      [] OTHER             -> IF ISqrt(x.v) ^ 2 = x.v THEN Bignum2Number(ISqrt(x.v))
                              ELSE CSqrt(ToReal(x))

\* Variant: the sign test of a real as REAL_VAL(z) <= 0.
SqrtNonPositive(z) ==
    CASE IsIntClass(z)    -> my_sqrt_exact(z)
      [] z.t = "rational" -> Div2(my_sqrt_exact(z.num), my_sqrt_exact(z.den))
      [] OTHER            -> IF z.k = "fin" /\ z.n <= 0
                             THEN Cmake_complex(Fix(0), CSqrt(FNeg(z)))
                             ELSE CSqrt(z)

\* The primitive on a non-complex argument.
Sqrt(z) ==
    CASE IsIntClass(z)    -> my_sqrt_exact(z)
      [] z.t = "rational" -> Div2(my_sqrt_exact(z.num), my_sqrt_exact(z.den))
      [] OTHER            -> IF z.k = "fin" /\ z.n < 0
                             THEN Cmake_complex(Fix(0), CSqrt(FNeg(z)))
                             ELSE CSqrt(z)

----------------------------------------------------------------------------
(* expt with an exact integer exponent.                                   *)

\* Variant: the odd test of the loop inverted (STk_evenp(y) != STk_false).
RECURSIVE ExptLoopEvenTest(_, _, _)
ExptLoopEvenTest(x, y, val) ==
    IF SameObject(y, Fix(1)) THEN Mul2(val, x)
    ELSE ExptLoopEvenTest(Mul2(x, x), Quotient(y, Fix(2)),
                          IF NumberParity(y) > 0 THEN Mul2(x, val) ELSE val)

\* The square-and-multiply loop of the default case (a real or complex
\* base): "while (y != MAKE_INT(1))" square x and halve y, and multiply
\* val by x when y is odd.
RECURSIVE ExptLoop(_, _, _)
ExptLoop(x, y, val) ==
    IF SameObject(y, Fix(1)) THEN Mul2(val, x)
    ELSE ExptLoop(Mul2(x, x), Quotient(y, Fix(2)),
                  IF NumberParity(y) < 0 THEN Mul2(x, val) ELSE val)

\* exact_exponent_expt(x, y), y an exact integer >= 0: mpz_pow_ui on an
\* integer base, the parts of a rational through make_rational.
RECURSIVE ExactExponentExpt(_, _)
ExactExponentExpt(x, y) ==
    CASE Zerop(y)                           -> Fix(1)
      [] Zerop(x) \/ SameObject(x, Fix(1))  -> x
      [] y.t = "bignum"                     -> Error("ExponentTooBig")
      [] IsIntClass(x)                      -> Bignum2Number(x.v ^ y.v)
      [] x.t = "rational"                   ->
            MakeRational(ExactExponentExpt(x.num, y), ExactExponentExpt(x.den, y))
      [] OTHER                              -> ExptLoop(x, y, Fix(1))

\* The tc_bignum case calls mpz_pow_ui on the never initialized mpz_t
\* res: undefined behaviour, which computes the power or kills the process
\* depending on what the stack held.
UninitPow(x, y) ==
    /\ ~Zerop(y) /\ y.t = "integer"
    /\ \/ x.t = "bignum"
       \/ x.t = "rational" /\ "bignum" \in {x.num.t, x.den.t}

\* "expt": a negative exponent is the inverse of the opposite power.
ExptInverse(neg, p) == IF neg /\ ~IsErr(p) THEN Div2(Fix(1), p) ELSE p

ExptOf(x, y, neg) ==
    ExptInverse(neg, ExactExponentExpt(x, IF neg THEN Sub2(Fix(0), y) ELSE y))

Expt(x, y) == ExptOf(x, y, Negativep(y))

\* The results the build can give: the power, or an abort when the
\* uninitialized mpz_t is reached.
ExptOutcomes(x, y) ==
    {Expt(x, y)} \cup (IF UninitPow(x, IF Negativep(y) THEN Sub2(Fix(0), y) ELSE y)
                       THEN {Error("Abort")} ELSE {})

=============================================================================
