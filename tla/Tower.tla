------------------------------- MODULE Tower -------------------------------
(***************************************************************************)
(* The numeric tower of src/src/number.c as pure operators: the tagged    *)
(* values (fixnum, bignum, rational, real, complex), the constructors      *)
(* that keep them canonical, the coercion of convert() and the arithmetic *)
(* built on it.  NumericCalls drives these operators from Scheme calls.   *)
(*                                                                         *)
(* Integers keep their width: a fixnum holds FixBits bits, a C long       *)
(* FixBits+2 (MAKE_INT shifts a long left by the two tag bits, so a long  *)
(* that does not fit a fixnum loses its top bits).  Bignums are unbounded.*)
(* A real is a double abstracted to an exact rational (rounding is not    *)
(* modelled) plus the IEEE specials +inf.0, -inf.0 and +nan.0.            *)
(***************************************************************************)
EXTENDS Integers

CONSTANTS
    FixBits,   \* width of a fixnum; INT_MIN_VAL = -2^(FixBits-1)
    BigLib     \* "gmp" (system GMP) or "mini" (the bundled mini-gmp)

ASSUME FixBits \in 2..8 /\ BigLib \in {"gmp", "mini"}

IntMin == -(2^(FixBits - 1))
IntMax == 2^(FixBits - 1) - 1

AbsI(n) == IF n < 0 THEN -n ELSE n

\* Two's complement wrap of n into b bits.
Wrap(n, b) == LET m == 2^b
                  r == n % m
              IN  IF r >= m \div 2 THEN r - m ELSE r

\* C long arithmetic wraps at FixBits+2 bits; C "/" and "%" truncate.
CLong(n) == Wrap(n, FixBits + 2)
CDiv(a, b) == IF (a < 0) = (b < 0) THEN AbsI(a) \div AbsI(b)
                                   ELSE -(AbsI(a) \div AbsI(b))
CRem(a, b) == a - b * CDiv(a, b)

\* Euclid on naturals (the loop of gcd2_fixnum, and mpz_gcd).
RECURSIVE GcdN(_, _)
GcdN(a, b) == IF b = 0 THEN a ELSE GcdN(b, a % b)

----------------------------------------------------------------------------
(* Values.  TYPEOF(n) is the field t.                                     *)

Fix(n) == [t |-> "integer", v |-> n]
Big(n) == [t |-> "bignum", v |-> n]
Flo(k, n, d) == [t |-> "real", k |-> k, n |-> n, d |-> d]
Cmake_rational(n, d) == [t |-> "rational", num |-> n, den |-> d]
Cmake_complex(r, i) == [t |-> "complex", re |-> r, im |-> i]
Error(kind) == [t |-> "error", kind |-> kind]
IsErr(x) == x.t = "error"

Fits(n) == IntMin <= n /\ n <= IntMax

\* MAKE_INT: the tag shift keeps the low FixBits bits of a C long.
MakeInt(n) == Fix(Wrap(n, FixBits))

\* Variant: the LONG_FITS_INTEGER test forgotten, MAKE_INT truncates.
Long2IntegerUnchecked(n) == MakeInt(n)

Long2Integer(n) == IF Fits(n) THEN Fix(n) ELSE Big(n)

\* Variant: a bignum result never demoted to a fixnum.
Bignum2NumberNoDemote(n) == Big(n)

Bignum2Number(n) == IF Fits(n) THEN Fix(n) ELSE Big(n)

\* A finite double n/d (d # 0), kept in lowest terms; PInf, MInf, NaN.
FinReal(n, d) == LET s == IF d < 0 THEN -1 ELSE 1
                     g == GcdN(AbsI(n), AbsI(d))
                 IN  Flo("fin", (s * n) \div g, (s * d) \div g)
PInf == Flo("pinf", 0, 1)
MInf == Flo("minf", 0, 1)
NaN  == Flo("nan", 0, 1)

IsIntClass(x) == x.t \in {"integer", "bignum"}

\* exact->inexact of a non-complex exact value (double2real((double) ..),
\* scheme_bignum2real, rational2real).
ToReal(x) == CASE x.t = "real"     -> x
               [] x.t = "rational" -> FinReal(x.num.v, x.den.v)
               [] OTHER            -> FinReal(x.v, 1)

----------------------------------------------------------------------------
(* IEEE double arithmetic on the abstraction (signed zero not modelled).  *)

RSign(x) == CASE x.k = "pinf" -> 1
              [] x.k = "minf" -> -1
              [] x.k = "fin"  -> IF x.n > 0 THEN 1 ELSE IF x.n < 0 THEN -1 ELSE 0
              [] OTHER        -> 0
Inf(s) == IF s > 0 THEN PInf ELSE MInf
FNeg(x) == CASE x.k = "fin"  -> Flo("fin", -x.n, x.d)
             [] x.k = "pinf" -> MInf
             [] x.k = "minf" -> PInf
             [] OTHER        -> x
FAdd(x, y) == CASE "nan" \in {x.k, y.k}           -> NaN
                [] {x.k, y.k} = {"pinf", "minf"}   -> NaN
                [] x.k # "fin"                     -> x
                [] y.k # "fin"                     -> y
                [] OTHER -> FinReal(x.n * y.d + y.n * x.d, x.d * y.d)
FMul(x, y) == CASE "nan" \in {x.k, y.k}           -> NaN
                [] x.k = "fin" /\ y.k = "fin"      -> FinReal(x.n * y.n, x.d * y.d)
                [] RSign(x) * RSign(y) = 0         -> NaN
                [] OTHER                           -> Inf(RSign(x) * RSign(y))
FDiv(x, y) == CASE "nan" \in {x.k, y.k}           -> NaN
                [] x.k # "fin" /\ y.k # "fin"      -> NaN
                [] x.k # "fin" -> Inf(RSign(x) * (IF RSign(y) < 0 THEN -1 ELSE 1))
                [] y.k # "fin"                     -> FinReal(0, 1)
                [] y.n = 0 -> IF x.n = 0 THEN NaN ELSE Inf(RSign(x))
                [] OTHER -> FinReal(x.n * y.d, x.d * y.n)
\* C "==" and "<" on doubles: false whenever a NaN is involved.
FEq(x, y) == x.k # "nan" /\ x = y
FLess(x, y) == LET ord(z) == CASE z.k = "minf" -> 0 [] z.k = "fin" -> 1 [] OTHER -> 2
               IN  /\ "nan" \notin {x.k, y.k}
                   /\ \/ ord(x) < ord(y)
                      \/ x.k = "fin" /\ y.k = "fin" /\ x.n * y.d < y.n * x.d

----------------------------------------------------------------------------
(* Predicates.                                                            *)

\* zerop: a complex is zero when both its parts are.
RECURSIVE Zerop(_)
Zerop(n) == CASE IsIntClass(n)    -> n.v = 0
              [] n.t = "real"     -> n.k = "fin" /\ n.n = 0
              [] n.t = "rational" -> n.num.v = 0
              [] n.t = "complex"  -> Zerop(n.re) /\ Zerop(n.im)

Negativep(n) == CASE IsIntClass(n)    -> n.v < 0
                  [] n.t = "real"     -> RSign(n) < 0
                  [] n.t = "rational" -> n.num.v < 0

RECURSIVE Isexactp(_)
Isexactp(z) == IF z.t = "complex" THEN Isexactp(z.re) /\ Isexactp(z.im)
                                  ELSE z.t # "real"

\* Variant: integer? without the infinity test, floor(val) == val alone.
IntegerpNoInfTest(x) == \/ IsIntClass(x)
                        \/ x.t = "real" /\ x.k # "nan" /\ x.d = 1

\* STk_integerp: an inexact integer is finite and has no fraction.
Integerp(x) == \/ IsIntClass(x)
               \/ x.t = "real" /\ x.k = "fin" /\ x.d = 1

\* SCM "==": only fixnums are immediate, two heap cells are never "==".
SameObject(a, b) == a.t = "integer" /\ a = b

----------------------------------------------------------------------------
(* Coercion and constructors.                                             *)

Rank == [integer |-> 0, bignum |-> 1, rational |-> 2, real |-> 3, complex |-> 4]

\* The promotion table of convert(): x is raised to type t.
Promote(x, t) == CASE t = x.t        -> x
                   [] t = "complex"  -> Cmake_complex(x, Fix(0))
                   [] t = "real"     -> ToReal(x)
                   [] t = "rational" -> Cmake_rational(x, Fix(1))
                   [] t = "bignum"   -> Big(x.v)

\* convert(&x, &y): the lower-ranked operand takes the other's type.
Convert(x, y) == IF Rank[x.t] >= Rank[y.t] THEN <<x, Promote(y, x.t)>>
                                           ELSE <<Promote(x, y.t), y>>

make_complex(r, i) == CASE IsErr(r)  -> r
                        [] IsErr(i)  -> i
                        [] Zerop(i)  -> r
                        [] OTHER     -> Cmake_complex(r, i)

\* int_quotient: fixnums divide as C longs, then MAKE_INT.
IntQuotient(x, y) == IF x.t = "integer" /\ y.t = "integer"
                     THEN MakeInt(CDiv(x.v, y.v))
                     ELSE Bignum2Number(CDiv(x.v, y.v))

\* inexact->exact of a real (inex2ex, double2rational): its exact value;
\* an infinity or a NaN cannot be made exact.
Inexact2Exact(x) ==
    CASE x.k # "fin" -> Error("CannotMakeExact")
      [] x.d = 1     -> Bignum2Number(x.n)
      [] OTHER       -> Cmake_rational(Bignum2Number(x.n), Bignum2Number(x.d))

Gcd2Fixnum(a, b) == MakeInt(GcdN(AbsI(a.v), AbsI(b.v)))

\* gcd2(n1, n2): the integer? test is applied to n1 twice, so a non-integer
\* n2 reaches the GMP branch, which leaves r at 0.
\* a and b are n1 and n2 made exact (inexact->exact of a real).
Gcd2Exact(n1, n2, a, b) ==
    LET exactp == n1.t # "real" /\ n2.t # "real"
        r == CASE a.t = "integer" /\ b.t = "integer" -> Gcd2Fixnum(a, b)
               [] IsIntClass(a) /\ IsIntClass(b) ->
                      Bignum2Number(GcdN(AbsI(a.v), AbsI(b.v)))
               [] OTHER -> Fix(0)
    IN  CASE ~Integerp(n1) -> Error("NotAnInteger")
          [] IsErr(b)      -> b
          [] exactp        -> r
          [] OTHER         -> ToReal(r)

MakeExact(x) == IF x.t = "real" THEN Inexact2Exact(x) ELSE x

Gcd2(n1, n2) == Gcd2Exact(n1, n2, MakeExact(n1), MakeExact(n2))

----------------------------------------------------------------------------
(* Arithmetic: add2, sub2, mul2, div2 and make_rational call each other.  *)

\* They call each other through Arith: Arith("+", x, y) is add2(x, y), Arith("-", ..) sub2, Arith("*", ..)
\* mul2, Arith("/", ..) div2 and Arith("q", n, d) make_rational(n, d).
\* add2, sub2, mul2 and div2 receive their operands after
\* convert(&o1, &o2).
RECURSIVE Arith(_, _, _)

\* The reduction of make_rational: divide n and d by g = gcd2(n, d) unless
\* g is 1; "d == gcd" and "d == MAKE_INT(1)" are pointer comparisons.
MakeRationalReduced(n, d, g) ==
    LET n2 == IF g # Fix(1) THEN IntQuotient(n, g) ELSE n
        d2 == IF g # Fix(1) THEN IntQuotient(d, g) ELSE d
    IN  CASE g # Fix(1) /\ SameObject(d, g) -> IntQuotient(n, g)
          [] d2 = Fix(1)                      -> n2
          [] OTHER                            -> Cmake_rational(n2, d2)

\* (n, d and their gcd are bound once, as in Arith.)
MakeRationalPositive(n, d) ==
    CHOOSE v \in {MakeRationalReduced(p[1], p[2], p[3]) : p \in {<<n, d, Gcd2(n, d)>>}} : TRUE

\* make_rational(n, d): DivisionByZero, then the sign into the numerator.
make_rational(n0, d0) ==
    CASE Zerop(d0)     -> Error("DivisionByZero")
      [] Negativep(d0) -> MakeRationalPositive(Arith("*", n0, Fix(-1)), Arith("*", d0, Fix(-1)))
      [] OTHER         -> MakeRationalPositive(n0, d0)

add2(a, b) ==
    CASE a.t = "bignum"   -> Bignum2Number(a.v + b.v)
      [] a.t = "integer"  -> Long2Integer(a.v + b.v)
      [] a.t = "real"     -> FAdd(a, b)
      [] a.t = "complex"  -> make_complex(Arith("+", a.re, b.re), Arith("+", a.im, b.im))
      [] a.t = "rational" ->
            Arith("q", Arith("+", Arith("*", a.num, b.den), Arith("*", b.num, a.den)),
                    Arith("*", a.den, b.den))

sub2(a, b) ==
    CASE a.t = "bignum"   -> Bignum2Number(a.v - b.v)
      [] a.t = "integer"  -> Long2Integer(a.v - b.v)
      [] a.t = "real"     -> FAdd(a, FNeg(b))
      [] a.t = "complex"  -> make_complex(Arith("-", a.re, b.re), Arith("-", a.im, b.im))
      [] a.t = "rational" ->
            Arith("q", Arith("-", Arith("*", a.num, b.den), Arith("*", b.num, a.den)),
                    Arith("*", a.den, b.den))

\* mul2 on fixnums: MAKE_INT(i1*i2), overflow detected by dividing back.
MulFixnum(a, b, p) == IF a.v # 0 /\ CDiv(p.v, a.v) # b.v
                      THEN Bignum2Number(a.v * b.v) ELSE p

mul2(a, b) ==
    CASE a.t = "bignum"   -> Bignum2Number(a.v * b.v)
      [] a.t = "integer"  -> MulFixnum(a, b, MakeInt(CLong(a.v * b.v)))
      [] a.t = "real"     -> FMul(a, b)
      [] a.t = "complex"  ->
            make_complex(Arith("-", Arith("*", a.re, b.re), Arith("*", a.im, b.im)),
                         Arith("+", Arith("*", a.re, b.im), Arith("*", b.re, a.im)))
      [] a.t = "rational" -> Arith("q", Arith("*", a.num, b.num), Arith("*", a.den, b.den))

\* div2 on complexes, tmp = re(b)^2 + im(b)^2: a zero dividend is
\* returned as converted.
DivComplex(a, b, tmp) ==
    IF Zerop(a) THEN a
    ELSE make_complex(
           Arith("/", Arith("+", Arith("*", a.re, b.re), Arith("*", a.im, b.im)), tmp),
           Arith("/", Arith("-", Arith("*", a.im, b.re), Arith("*", a.re, b.im)), tmp))

div2(a, b) ==
    CASE IsIntClass(a)    -> Arith("q", a, b)
      [] a.t = "real"     -> IF b = FinReal(1, 1) THEN a ELSE FDiv(a, b)
      [] a.t = "rational" -> Arith("q", Arith("*", a.num, b.den), Arith("*", a.den, b.num))
      [] a.t = "complex"  ->
            DivComplex(a, b, Arith("+", Arith("*", b.re, b.re), Arith("*", b.im, b.im)))

\* The arithmetic on converted operands.
ArithConverted(op, a, b) ==
    CASE op = "+" -> add2(a, b)
      [] op = "-" -> sub2(a, b)
      [] op = "*" -> mul2(a, b)
      [] op = "/" -> div2(a, b)

ArithOnPair(op, c) == ArithConverted(op, c[1], c[2])

ArithOf(op, x, y) == IF op = "q" THEN make_rational(x, y)
                     ELSE ArithOnPair(op, Convert(x, y))

\* Arith(op, x, y) is ArithOf(op, x, y).  The operands are bound as one
\* pair, so that TLC evaluates each once: when it evaluates ENABLED (the
\* fairness of Variadic) it does not cache an operator's arguments, and
\* the nested calls of add2 .. div2 would be evaluated again at every use.
Arith(op, x, y) == CHOOSE v \in {ArithOf(op, p[1], p[2]) : p \in {<<x, y>>}} : TRUE

Add2(x, y) == Arith("+", x, y)
Sub2(x, y) == Arith("-", x, y)
Mul2(x, y) == Arith("*", x, y)
Div2(x, y) == Arith("/", x, y)
MakeRational(n, d) == Arith("q", n, d)

----------------------------------------------------------------------------
(* Integer division, absolute value, lcm and comparison.                  *)

\* double2integer: in fixnum range by a cast, otherwise mpz_init_set_d,
\* which on an infinity raises SIGFPE in GMP (the process aborts) and
\* yields 0 in mini-gmp.
Double2Integer(x) ==
    CASE x.k = "fin" /\ Fits(x.n) -> Fix(x.n)
      [] x.k = "fin"               -> Big(x.n)
      [] BigLib = "gmp"            -> Error("Abort")
      [] OTHER                     -> Fix(0)

\* real2integer: "floor(v) != v" rejects fractions and NaN, not infinities.
Real2Integer(x) == IF x.k = "nan" \/ (x.k = "fin" /\ x.d # 1)
                   THEN Error("NotAnInteger")
                   ELSE Double2Integer(x)

\* integer_division(x, y): the quotient and remainder, or an error.
QR(q, r) == [t |-> "qr", q |-> q, r |-> r]

\* x and y are x0 and y0 with reals converted by real2integer.
IntegerDivisionOf(x0, y0, x, y) ==
    LET exact == x0.t # "real" /\ y0.t # "real"
        q == CDiv(x.v, y.v)
        r == CRem(x.v, y.v)
    IN  CASE x0.t \notin {"integer", "bignum", "real"} -> Error("BadNumber")
          [] y0.t \notin {"integer", "bignum", "real"} -> Error("BadNumber")
          [] Zerop(y0)                                 -> Error("DivisionByZero")
          [] IsErr(x) -> x
          [] IsErr(y) -> y
          \* an infinite divisor made 0 by real2integer: the C "/" by zero
          \* traps (fixnums), mpz_tdiv_qr aborts (bignums)
          [] y.v = 0  -> Error("Abort")
          [] x.t = "integer" /\ y.t = "integer" /\ exact -> QR(MakeInt(q), MakeInt(r))
          [] exact    -> QR(Bignum2Number(q), Bignum2Number(r))
          [] OTHER    -> QR(FinReal(q, 1), FinReal(r, 1))

ToInteger(x) == IF x.t = "real" THEN Real2Integer(x) ELSE x

IntegerDivision(x, y) == IntegerDivisionOf(x, y, ToInteger(x), ToInteger(y))

QuotientOf(qr) == IF IsErr(qr) THEN qr ELSE qr.q
RemainderOf(qr) == IF IsErr(qr) THEN qr ELSE qr.r

Quotient(x, y) == QuotientOf(IntegerDivision(x, y))
Remainder(x, y) == RemainderOf(IntegerDivision(x, y))

\* Variant: the remainder corrected even when it is zero.
ModuloNoZeroTest(n1, n2, qr) ==
    CASE IsErr(qr) -> qr
      [] Negativep(n1) # Negativep(n2) -> Add2(qr.r, n2)
      [] OTHER -> qr.r

\* modulo: add n2 once when the signs differ and the remainder is not zero.
\* qr is integer_division(n1, n2).
ModuloOf(n1, n2, qr) ==
    CASE IsErr(qr) -> qr
      [] Negativep(n1) # Negativep(n2) /\ ~Zerop(qr.r) -> Add2(qr.r, n2)
      [] OTHER -> qr.r

Modulo(n1, n2) == ModuloOf(n1, n2, IntegerDivision(n1, n2))

\* absolute (abs) of an integer: INT_MIN_VAL has no fixnum opposite; the
\* opposite of a negative bignum is copied to a bignum, not demoted.
AbsInteger(x) == CASE x.t = "integer" /\ x.v = IntMin -> Big(-x.v)
                   [] OTHER -> [x EXCEPT !.v = AbsI(x.v)]

\* absolute (abs): a rational is rebuilt by make_rational.
Absolute(x) == CASE IsIntClass(x)                   -> AbsInteger(x)
                 [] x.t = "real" /\ RSign(x) < 0    -> FNeg(x)
                 [] x.t = "real"                    -> x
                 [] x.t = "rational" -> MakeRational(AbsInteger(x.num), x.den)
                 [] OTHER -> Error("NotARealNumber")

\* One step of the lcm loop: res * (arg / gcd2(res, arg)).
LcmMul(res, d) == IF IsErr(d) THEN d ELSE Mul2(res, d)
LcmDiv(res, arg, g) == IF IsErr(g) THEN g ELSE LcmMul(res, Div2(arg, g))
Lcm2(res, arg) == LcmDiv(res, arg, Gcd2(res, arg))

\* Variant: the two outcomes of double_diff's order test swapped.
DoubleDiffSwapped(d1, d2) == CASE d1.k = "nan" /\ d2.k = "nan" -> 0
                                [] FEq(d1, d2)                  -> 0
                                [] FLess(d1, d2)                -> 1
                                [] OTHER                        -> -1

\* double_diff: two NaNs are "equal", otherwise C's == and <.
DoubleDiff(d1, d2) == CASE d1.k = "nan" /\ d2.k = "nan" -> 0
                         [] FEq(d1, d2)                  -> 0
                         [] FLess(d1, d2)                -> -1
                         [] OTHER                        -> 1

\* general_diff: the sign of sub2(x, y); a complex difference is 1.
DiffSign(d) == CASE Zerop(d)           -> 0
                  [] d.t = "complex"    -> 1
                  [] Negativep(d)       -> -1
                  [] OTHER              -> 1

GeneralDiff(x, y) == DiffSign(Sub2(x, y))

\* do_compare(x, y): reals against reals and fixnums go through doubles,
\* two fixnums subtract, every other pair through general_diff.
DoCompare(x, y) ==
    CASE \/ x.t = "real" /\ y.t \in {"real", "integer"}
         \/ x.t = "integer" /\ y.t = "real"   -> DoubleDiff(ToReal(x), ToReal(y))
      [] x.t = "integer" /\ y.t = "integer"   -> x.v - y.v
      [] OTHER                                -> GeneralDiff(x, y)

\* exact->inexact (ex2inex): a complex with two real parts is returned as
\* is, otherwise its parts are converted and put together by Cmake_complex.
RECURSIVE Exact2Inexact(_)
Exact2Inexact(z) ==
    CASE z.t = "complex" /\ z.re.t = "real" /\ z.im.t = "real" -> z
      [] z.t = "complex" -> Cmake_complex(Exact2Inexact(z.re), Exact2Inexact(z.im))
      [] OTHER           -> ToReal(z)

\* inexact->exact (inex2ex): a complex with a real part is converted part
\* by part and put together by Cmake_complex.
RECURSIVE InexToEx(_)
InexToEx(z) ==
    LET re == InexToEx(z.re)
        im == InexToEx(z.im)
    IN  CASE z.t = "complex" /\ (z.re.t = "real" \/ z.im.t = "real") ->
                 IF IsErr(re) THEN re
                 ELSE IF IsErr(im) THEN im
                 ELSE Cmake_complex(re, im)
          [] z.t = "real" -> Inexact2Exact(z)
          [] OTHER        -> z

\* STk_realp: a complex is real? when its imaginary part is zero.
Realp(x) == x.t # "complex" \/ Zerop(x.im)

\* make-rectangular: both arguments must be real?, then make_complex.
MakeRectangular(r, i) == IF Realp(r) /\ Realp(i) THEN make_complex(r, i)
                         ELSE Error("NotARealNumber")

RealPart(z) == IF z.t = "complex" THEN z.re ELSE z
ImagPart(z) == IF z.t = "complex" THEN z.im ELSE Fix(0)

----------------------------------------------------------------------------
(* max and min, the predicates, numerator and denominator, rounding.      *)

\* Variant: the result of max and min never made inexact.
MaxMinNoContagion(y, exactp, res) ==
    IF ~Realp(y) THEN Error("NotARealNumber") ELSE res

\* max and min with two arguments, after the loop has run once: only the
\* second argument is tested real?; exactp is false when either argument
\* is inexact; an exact res then goes through exact2inexact.
MaxMinOf(y, exactp, res) ==
    CASE ~Realp(y)                -> Error("NotARealNumber")
      [] ~exactp /\ Isexactp(res) -> Exact2Inexact(res)
      [] OTHER                    -> res

\* res is the first argument unless do_compare(res, y) < 0 (max), > 0 (min).
Max2(x, y) == MaxMinOf(y, Isexactp(x) /\ Isexactp(y), IF DoCompare(x, y) < 0 THEN y ELSE x)
Min2(x, y) == MaxMinOf(y, Isexactp(x) /\ Isexactp(y), IF DoCompare(x, y) > 0 THEN y ELSE x)

\* STk_real_isoddp: the remainder of integer_division by 2 is not zero.
RealIsOddp(n) == ~Zerop(Remainder(n, Fix(2)))

\* number_parity: -1 odd, +1 even, 0 not an integer; "x != round(x)"
\* holds of a NaN.
NumberParity(n) ==
    CASE IsIntClass(n)                        -> IF n.v % 2 = 1 THEN -1 ELSE 1
      [] n.t = "real" /\ (n.k # "fin" \/ n.d # 1) -> 0
      [] n.t = "real"                         -> IF RealIsOddp(n) THEN -1 ELSE 1
      [] OTHER                                -> 0

Positivep(n) == CASE IsIntClass(n)    -> n.v > 0
                  [] n.t = "real"     -> RSign(n) > 0
                  [] n.t = "rational" -> n.num.v > 0

RECURSIVE Finitep(_)
Finitep(n) == CASE n.t = "real"    -> n.k = "fin"
                [] n.t = "complex" -> Finitep(n.re) /\ Finitep(n.im)
                [] OTHER           -> TRUE

RECURSIVE Infinitep(_)
Infinitep(n) == CASE n.t = "real"    -> n.k \in {"pinf", "minf"}
                  [] n.t = "complex" -> Infinitep(n.re) \/ Infinitep(n.im)
                  [] OTHER           -> FALSE

RECURSIVE Nanp(_)
Nanp(z) == CASE z.t = "real"    -> z.k = "nan"
             [] z.t = "complex" -> Nanp(z.re) \/ Nanp(z.im)
             [] OTHER           -> FALSE

\* STk_numerator and STk_denominator of an exact value (or of the error
\* inexact2exact signalled); a complex is a BadNumber.
NumeratorOf(q) == CASE IsErr(q)        -> q
                    [] q.t = "rational" -> q.num
                    [] IsIntClass(q)    -> q
                    [] OTHER            -> Error("BadNumber")
DenominatorOf(q) == CASE IsErr(q)        -> q
                      [] q.t = "rational" -> q.den
                      [] IsIntClass(q)    -> Fix(1)
                      [] OTHER            -> Error("BadNumber")

InexactResult(v) == IF IsErr(v) THEN v ELSE Exact2Inexact(v)

\* numerator and denominator of a real: exact2inexact of the part of
\* inexact2exact(q).
Numerator(q) == IF q.t = "real" THEN InexactResult(NumeratorOf(Inexact2Exact(q)))
                ELSE NumeratorOf(q)
Denominator(q) == IF q.t = "real" THEN InexactResult(DenominatorOf(Inexact2Exact(q)))
                  ELSE DenominatorOf(q)

\* C floor() and ceil() on the abstraction: an infinity or NaN is kept.
FFloor(x) == IF x.k = "fin" THEN FinReal(x.n \div x.d, 1) ELSE x
FCeil(x) == IF x.k = "fin" THEN FinReal(-((-x.n) \div x.d), 1) ELSE x

\* Variant: floor of a negative rational without the correction by den-1.
FloorRationalTruncating(num, den) == Quotient(num, den)

\* floor of a rational: a negative numerator is lowered by den-1 first.
FloorRational(num, den) ==
    Quotient(IF Negativep(num) THEN Sub2(num, Sub2(den, Fix(1))) ELSE num, den)

CeilingRational(num, den) ==
    Quotient(IF Negativep(num) THEN num ELSE Add2(num, Sub2(den, Fix(1))), den)

Floor(x) == CASE x.t = "real"     -> FFloor(x)
              [] x.t = "rational" -> FloorRational(x.num, x.den)
              [] IsIntClass(x)    -> x
              [] OTHER            -> Error("NotARealNumber")

Ceiling(x) == CASE x.t = "real"     -> FCeil(x)
                [] x.t = "rational" -> CeilingRational(x.num, x.den)
                [] IsIntClass(x)    -> x
                [] OTHER            -> Error("NotARealNumber")

Truncate(x) == CASE x.t = "real"     -> IF RSign(x) < 0 THEN FCeil(x) ELSE FFloor(x)
                 [] x.t = "rational" -> Quotient(x.num, x.den)
                 [] IsIntClass(x)    -> x
                 [] OTHER            -> Error("NotARealNumber")

\* round of a double: d = x + 0.5, res = floor(d), lowered by one when d is
\* an odd integer (a tie).
RoundRealOf(d, res) ==
    IF FEq(d, res) /\ ~FEq(FDiv(d, FinReal(2, 1)), FFloor(FDiv(d, FinReal(2, 1))))
    THEN FAdd(res, FinReal(-1, 1)) ELSE res
RoundReal(x) == RoundRealOf(FAdd(x, FinReal(1, 2)), FFloor(FAdd(x, FinReal(1, 2))))

\* round of a rational: "RATIONAL_DEN(x) == MAKE_INT(2)" is a pointer test;
\* a half goes to the even neighbour by quotient(num +- 1, 4) * 2, anything
\* else is floor((2*num + den) / (2*den)).  The constant 4 is the value 4,
\* a bignum at this fixnum width.
RoundRational(num, den) ==
    IF SameObject(den, Fix(2))
    THEN Mul2(Quotient(IF Negativep(num) THEN Sub2(num, Fix(1)) ELSE Add2(num, Fix(1)),
                       Long2Integer(4)), Fix(2))
    ELSE Floor(MakeRational(Add2(Mul2(num, Fix(2)), den), Mul2(den, Fix(2))))

Round(x) == CASE x.t = "real"     -> RoundReal(x)
              [] x.t = "rational" -> RoundRational(x.num, x.den)
              [] IsIntClass(x)    -> x
              [] OTHER            -> Error("NotARealNumber")

====
