---------------------------- MODULE NumericCalls ----------------------------
(***************************************************************************)
(* A Scheme program as a sequence of calls to the numeric primitives of   *)
(* src/src/number.c.  The program keeps one computed value, acc (the      *)
(* value of the last expression that did not signal), and each step calls *)
(* one primitive on two operands taken from acc and the literals the      *)
(* program contains.  A call that signals a Scheme error leaves acc as it *)
(* was; a call that aborts the process (SIGFPE, abort()) ends the run.    *)
(* last records the call: its primitive, operands and what it returned.   *)
(***************************************************************************)
EXTENDS Logical, Transcendental

LOCAL INSTANCE Bitwise

CONSTANTS
    Literals,   \* the numeric literals of the program
    MaxCalls,   \* length of the program
    Shifts,     \* the shift counts of bit-shift
    Exponents   \* the exponents of expt

VARIABLES acc, last, calls

vars == <<acc, last, calls>>

Operands == Literals \cup {acc}

\* Argument pairs of a call that uses the computed value (a call on two
\* literals is the first call of the program that starts from one of them).
\* A one-argument call takes acc for the same reason: its call on a
\* literal is the first call of the program that starts from it.
ArgPairs == ({acc} \X Operands) \cup (Operands \X {acc})

\* #t and #f, as values of the same record shape as numbers.
Bool(b) == [t |-> "boolean", b |-> b]

IsNumber(v) == v.t \in {"integer", "bignum", "rational", "real", "complex"}

\* The process is gone once a call has aborted it (SIGFPE or abort()).
Halted == last.res = Error("Abort")

Init == /\ acc \in Literals
        /\ last = [op |-> "none", x |-> acc, y |-> acc, res |-> acc]
        /\ calls = 0

\* The program has a call left to make and the process is alive.
Ready == calls < MaxCalls /\ ~Halted

\* A call of primitive op on x and y that returned r.  Unary primitives
\* record their operand as both x and y.
Return(op, x, y, r) ==
    /\ last' = [op |-> op, x |-> x, y |-> y, res |-> r]
    /\ acc' = IF IsNumber(r) THEN r ELSE acc
    /\ calls' = calls + 1

\* "+", "-", "*", "/" with two arguments: add2, sub2, mul2, div2.
Plus   == Ready /\ \E <<x, y>> \in ArgPairs : Return("+", x, y, Add2(x, y))
Minus  == Ready /\ \E <<x, y>> \in ArgPairs : Return("-", x, y, Sub2(x, y))
Times  == Ready /\ \E <<x, y>> \in ArgPairs : Return("*", x, y, Mul2(x, y))
Divide == Ready /\ \E <<x, y>> \in ArgPairs : Return("/", x, y, Div2(x, y))

QuotientCall  == Ready /\ \E <<x, y>> \in ArgPairs : Return("quotient", x, y, Quotient(x, y))
RemainderCall == Ready /\ \E <<x, y>> \in ArgPairs : Return("remainder", x, y, Remainder(x, y))
ModuloCall    == Ready /\ \E <<x, y>> \in ArgPairs : Return("modulo", x, y, Modulo(x, y))

\* gcd and lcm with two arguments: the loop runs once, then absolute
\* unless the loop signalled.
AbsResult(v) == IF IsErr(v) THEN v ELSE Absolute(v)

GcdCall == Ready /\ \E <<x, y>> \in ArgPairs : Return("gcd", x, y, AbsResult(Gcd2(x, y)))
LcmCall == Ready /\ \E <<x, y>> \in ArgPairs : Return("lcm", x, y, AbsResult(Lcm2(x, y)))

\* COMPARE_NUM with two arguments: "=" accepts any number (complex?), "<"
\* and ">" only real? ones, the first failing with NotARealNumber and the
\* second with BadNumber; then do_compare.
RealCompare(x, y, r) == CASE ~Realp(x) -> Error("NotARealNumber")
                          [] ~Realp(y) -> Error("BadNumber")
                          [] OTHER     -> Bool(r)

NumEq == Ready /\ \E <<x, y>> \in ArgPairs : Return("=", x, y, Bool(DoCompare(x, y) = 0))
NumLt == Ready /\ \E <<x, y>> \in ArgPairs : Return("<", x, y, RealCompare(x, y, DoCompare(x, y) < 0))
NumGt == Ready /\ \E <<x, y>> \in ArgPairs : Return(">", x, y, RealCompare(x, y, DoCompare(x, y) > 0))
NumLe == Ready /\ \E <<x, y>> \in ArgPairs : Return("<=", x, y, RealCompare(x, y, ~(DoCompare(x, y) > 0)))
NumGe == Ready /\ \E <<x, y>> \in ArgPairs : Return(">=", x, y, RealCompare(x, y, ~(DoCompare(x, y) < 0)))

MaxCall == Ready /\ \E <<x, y>> \in ArgPairs : Return("max", x, y, Max2(x, y))
MinCall == Ready /\ \E <<x, y>> \in ArgPairs : Return("min", x, y, Min2(x, y))

AbsCall == Ready /\ Return("abs", acc, acc, Absolute(acc))
ExToInex == Ready /\ Return("exact->inexact", acc, acc, Exact2Inexact(acc))
InexToExCall == Ready /\ Return("inexact->exact", acc, acc, InexToEx(acc))

MakeRectangularCall == Ready /\ \E <<x, y>> \in ArgPairs :
                          Return("make-rectangular", x, y, MakeRectangular(x, y))
RealPartCall == Ready /\ Return("real-part", acc, acc, RealPart(acc))
ImagPartCall == Ready /\ Return("imag-part", acc, acc, ImagPart(acc))

\* The predicates return a boolean; positive? and negative? signal
\* NotARealNumber on a complex.
SignPredicate(x, b) == IF x.t = "complex" THEN Error("NotARealNumber") ELSE Bool(b)

ZeroCall == Ready /\ Return("zero?", acc, acc, Bool(Zerop(acc)))
PositiveCall == Ready /\ Return("positive?", acc, acc, SignPredicate(acc, Positivep(acc)))
NegativeCall == Ready /\ Return("negative?", acc, acc, SignPredicate(acc, Negativep(acc)))
OddCall == Ready /\ Return("odd?", acc, acc, Bool(NumberParity(acc) < 0))
EvenCall == Ready /\ Return("even?", acc, acc, Bool(NumberParity(acc) > 0))
FiniteCall == Ready /\ Return("finite?", acc, acc, Bool(Finitep(acc)))
InfiniteCall == Ready /\ Return("infinite?", acc, acc, Bool(Infinitep(acc)))
NanCall == Ready /\ Return("nan?", acc, acc, Bool(Nanp(acc)))

NumeratorCall == Ready /\ Return("numerator", acc, acc, Numerator(acc))
DenominatorCall == Ready /\ Return("denominator", acc, acc, Denominator(acc))

FloorCall == Ready /\ Return("floor", acc, acc, Floor(acc))
CeilingCall == Ready /\ Return("ceiling", acc, acc, Ceiling(acc))
TruncateCall == Ready /\ Return("truncate", acc, acc, Truncate(acc))
RoundCall == Ready /\ Return("round", acc, acc, Round(acc))

\* The procedures of lib/logical.stk, with two arguments for the variadic
\* ones; a shift count is a literal of the program.
BitAndCall == Ready /\ \E <<x, y>> \in ArgPairs : Return("bit-and", x, y, BitAnd(x, y))
BitOrCall  == Ready /\ \E <<x, y>> \in ArgPairs : Return("bit-or", x, y, BitOr(x, y))
BitXorCall == Ready /\ \E <<x, y>> \in ArgPairs : Return("bit-xor", x, y, BitXor(x, y))
BitNotCall == Ready /\ Return("bit-not", acc, acc, BitNot(acc))
BitShiftCall == Ready /\ \E m \in Shifts : Return("bit-shift", acc, m, BitShift(acc, m))

\* "expt" with an exact integer exponent, on a literal base; "sqrt" on a
\* non-complex argument (the complex case goes through make_polar).
ExptCall == Ready /\ \E x \in Literals, y \in Exponents :
                \E r \in ExptOutcomes(x, y) : Return("expt", x, y, r)
SqrtCall == Ready /\ acc.t # "complex" /\ Return("sqrt", acc, acc, Sqrt(acc))

\* The type predicates on a number.  complex? returns number?; rational?
\* holds of a finite real (FINITE_REALP) and of the exact representations.
Rationalp(x) == CASE x.t = "real"    -> x.k = "fin"
                  [] x.t = "complex" -> FALSE
                  [] OTHER           -> TRUE
Bignump(x) == x.t = "bignum"
TypePredicates == {"number?", "complex?", "real?", "rational?", "integer?",
                   "bignum?", "exact?", "inexact?"}
TypeTest(p, x) == CASE p \in {"number?", "complex?"} -> IsNumber(x)
                    [] p = "real?"     -> Realp(x)
                    [] p = "rational?" -> Rationalp(x)
                    [] p = "integer?"  -> Integerp(x)
                    [] p = "bignum?"   -> Bignump(x)
                    [] p = "exact?"    -> Isexactp(x)
                    [] p = "inexact?"  -> ~Isexactp(x)
TypePredicateCall == Ready /\ \E p \in TypePredicates : Return(p, acc, acc, Bool(TypeTest(p, acc)))

\* The number of bits of a natural number.
RECURSIVE BitLength(_)
BitLength(n) == IF n = 0 THEN 0 ELSE 1 + BitLength(n \div 2)

\* (float) n: the float nearest the natural n, ties to even.  A float's
\* significand holds 24 of the 64 bits of a C long; the model keeps that
\* ratio to its long of FixBits + 2 bits.
FloatMant == (3 * (FixBits + 2)) \div 8
ToFloat(n) == LET s == BitLength(n) - FloatMant
                  q == n \div (2 ^ s)
                  r == n % (2 ^ s)
              IN  IF s <= 0 THEN n
                  ELSE (IF 2 * r > 2 ^ s \/ (2 * r = 2 ^ s /\ q % 2 = 1) THEN q + 1 ELSE q) * 2 ^ s

\* integer-length: a fixnum through "(long) log2((float) n) + 1", which is
\* the bit length of the float, with labs(n+1) for n < -1; a bignum
\* through mpz_sizeinbase(z, 2), the bit length of its absolute value.
IntegerLength(z) ==
    CASE z.t = "integer" /\ z.v \in {-1, 0} -> Fix(0)
      [] z.t = "integer" -> MakeInt(BitLength(ToFloat(IF z.v > 0 THEN z.v ELSE -(z.v + 1))))
      [] z.t = "bignum"  -> MakeInt(BitLength(AbsI(z.v)))
      [] OTHER           -> Error("BadInteger")
IntegerLengthCall == Ready /\ Return("integer-length", acc, acc, IntegerLength(acc))

MagnitudeCall == Ready /\ Return("magnitude", acc, acc, Magnitude(acc))
AngleCall == Ready /\ Return("angle", acc, acc, Angle(acc))

\* make-polar: both arguments real?, then make_polar.
MakePolarCall == Ready /\ \E <<a, m>> \in ArgPairs :
    Return("make-polar", a, m, IF Realp(a) /\ Realp(m) THEN MakePolar(a, m)
                               ELSE Error("NotARealNumber"))

\* The one-argument transcendental primitives (transcendental(name) and
\* the one-argument log and atan).
Transcendentals == {"exp", "log", "sin", "cos", "tan", "asin", "acos", "atan",
                    "sinh", "cosh", "tanh", "asinh", "acosh", "atanh"}
MyTranscendental(f, z) ==
    CASE f = "exp"   -> MyExp(z)
      [] f = "log"   -> MyLog(z)
      [] f = "sin"   -> MySin(z)
      [] f = "cos"   -> MyCos(z)
      [] f = "tan"   -> MyTan(z)
      [] f = "asin"  -> MyAsin(z)
      [] f = "acos"  -> MyAcos(z)
      [] f = "atan"  -> MyAtan(z)
      [] f = "sinh"  -> MySinh(z)
      [] f = "cosh"  -> MyCosh(z)
      [] f = "tanh"  -> MyTanh(z)
      [] f = "asinh" -> MyAsinh(z)
      [] f = "acosh" -> MyAcosh(z)
      [] f = "atanh" -> MyAtanh(z)

\* Of a complex argument only exp and log are called: the complex
\* identities of the others combine several libm results, which the
\* abstraction of Libm makes equal where the true values differ.
TranscendentalCall == Ready /\ \E f \in Transcendentals :
    /\ acc.t = "complex" => f \in {"exp", "log"}
    /\ Return(f, acc, acc, MyTranscendental(f, acc))

\* (log x b): div2(my_log(x), my_log(b)); the first error signalled ends
\* the call.
LogBase(x, b) == LET lx == MyLog(x) IN
                 IF IsErr(lx) THEN lx
                 ELSE LET lb == MyLog(b) IN IF IsErr(lb) THEN lb ELSE Div2(lx, lb)
LogBaseCall == Ready /\ \E <<x, b>> \in ArgPairs : Return("log/2", x, b, LogBase(x, b))

\* sqrt of a complex (the other arguments are SqrtCall's).
SqrtComplexCall == Ready /\ acc.t = "complex" /\ Return("sqrt", acc, acc, SqrtComplex(acc))

\* (atan y x): my_atan2.
Atan2Call == Ready /\ \E <<y, x>> \in ArgPairs : Return("atan/2", y, x, MyAtan2(y, x))

\* (expt acc y) with an exponent of any type from Exponents: the primitive
\* on my_expt, with an abort where the uninitialized mpz_t is reached.
ExptGeneralCall == Ready /\ \E y \in Exponents :
                       \E r \in ExptPrimOutcomes(acc, y) : Return("expt", acc, y, r)

\* The primitives that build their result by arithmetic, comparison or
\* coercion.
ArithNext == \/ Plus \/ Minus \/ Times \/ Divide
             \/ QuotientCall \/ RemainderCall \/ ModuloCall
             \/ GcdCall \/ LcmCall
             \/ NumEq \/ NumLt \/ NumGt \/ NumLe \/ NumGe \/ MaxCall \/ MinCall
             \/ AbsCall \/ ExToInex \/ InexToExCall
             \/ MakeRectangularCall \/ RealPartCall \/ ImagPartCall
             \/ MagnitudeCall \/ AngleCall

\* The predicates, the accessors of a rational and the rounding
\* primitives.
RoundingNext == \/ ZeroCall \/ PositiveCall \/ NegativeCall \/ OddCall \/ EvenCall
                \/ FiniteCall \/ InfiniteCall \/ NanCall
                \/ TypePredicateCall \/ IntegerLengthCall
                \/ NumeratorCall \/ DenominatorCall
                \/ FloorCall \/ CeilingCall \/ TruncateCall \/ RoundCall

\* The bit operations of logical.stk and the exact powers.
LogicalNext == \/ BitAndCall \/ BitOrCall \/ BitXorCall \/ BitNotCall \/ BitShiftCall
               \/ ExptCall \/ SqrtCall

\* The transcendental library.
TranscendentalNext == \/ TranscendentalCall \/ LogBaseCall \/ Atan2Call \/ MakePolarCall
                      \/ SqrtCall \/ SqrtComplexCall

Next == ArithNext \/ RoundingNext \/ LogicalNext \/ TranscendentalNext \/ ExptGeneralCall

Spec == Init /\ [][Next]_vars
\* Programs without the transcendental library, and programs of
\* transcendental calls.
ArithSpec == Init /\ [][ArithNext \/ RoundingNext \/ LogicalNext]_vars
TranscendentalSpec == Init /\ [][TranscendentalNext]_vars
ExptSpec == Init /\ [][ExptGeneralCall]_vars
CoreSpec == Init /\ [][ArithNext \/ RoundingNext]_vars
LogicalSpec == Init /\ [][LogicalNext]_vars

----------------------------------------------------------------------------
(* Reference arithmetic: an exact number as a Gaussian rational, a pair  *)
(* of normalised fractions <<n, d>>.                                       *)

Q(n, d) == LET g == GcdN(AbsI(n), AbsI(d))
               s == IF d < 0 THEN -1 ELSE 1
           IN  <<(s * n) \div g, (s * d) \div g>>
QOf(x) == IF x.t = "rational" THEN Q(x.num.v, x.den.v) ELSE <<x.v, 1>>
QAdd(a, b) == Q(a[1] * b[2] + b[1] * a[2], a[2] * b[2])
QNeg(a) == <<-a[1], a[2]>>
QMul(a, b) == Q(a[1] * b[1], a[2] * b[2])
QZero == <<0, 1>>

GAdd(a, b) == <<QAdd(a[1], b[1]), QAdd(a[2], b[2])>>
GNeg(a) == <<QNeg(a[1]), QNeg(a[2])>>
GMul(a, b) == <<QAdd(QMul(a[1], b[1]), QNeg(QMul(a[2], b[2]))),
                QAdd(QMul(a[1], b[2]), QMul(a[2], b[1]))>>
\* The value of re + i*im, whatever the parts are.
RECURSIVE GOf(_)
GOf(x) == IF x.t = "complex"
          THEN GAdd(GOf(x.re), GMul(<<QZero, <<1, 1>>>>, GOf(x.im)))
          ELSE <<QOf(x), QZero>>
\* (a + bi)/(c + di) = ((ac + bd) + (bc - ad)i) / (c^2 + d^2)
GDiv(a, b) == LET m == QAdd(QMul(b[1], b[1]), QMul(b[2], b[2]))
                  inv == Q(m[2], m[1])
                  p == GMul(a, <<b[1], QNeg(b[2])>>)
              IN  <<QMul(p[1], inv), QMul(p[2], inv)>>
GZero == <<QZero, QZero>>

GRef(op, a, b) == CASE op = "+" -> GAdd(a, b)
                    [] op = "-" -> GAdd(a, GNeg(b))
                    [] op = "*" -> GMul(a, b)

\* The mathematical order of two non-complex, non-NaN numbers.
OrdClass(x) == CASE x.t = "real" /\ x.k = "minf" -> 0
                 [] x.t = "real" /\ x.k = "pinf" -> 2
                 [] OTHER                        -> 1
ExactOf(x) == IF x.t = "real" THEN <<x.n, x.d>> ELSE QOf(x)
RefCmp(x, y) ==
    LET d == QAdd(ExactOf(x), QNeg(ExactOf(y)))
    IN  CASE OrdClass(x) < OrdClass(y) -> -1
          [] OrdClass(x) > OrdClass(y) -> 1
          [] OrdClass(x) # 1           -> 0
          [] d[1] < 0 -> -1
          [] d[1] > 0 -> 1
          [] OTHER    -> 0

IsNaN(x) == x.t = "real" /\ x.k = "nan"
\* The integer an integer? value stands for.
IntOf(x) == IF x.t = "real" THEN x.n ELSE x.v

----------------------------------------------------------------------------
(* Properties.                                                            *)

CanonInt(i) == \/ i.t = "integer" /\ Fits(i.v)
               \/ i.t = "bignum" /\ ~Fits(i.v)
\* Spec 8's conditions on a scalar: an integer in its canonical
\* representation, a rational with a positive denominator coprime to its
\* numerator and other than the fixnum 1.
ReducedScalar(s) ==
    CASE IsIntClass(s)    -> CanonInt(s)
      [] s.t = "rational" -> /\ IsIntClass(s.num) /\ IsIntClass(s.den)
                             /\ s.den.v > 0 /\ s.den # Fix(1)
                             /\ GcdN(AbsI(s.num.v), s.den.v) = 1
      [] s.t = "real"     -> TRUE
      [] OTHER            -> FALSE
\* The scalars a value is built from.
RECURSIVE Parts(_)
Parts(v) == IF v.t = "complex" THEN Parts(v.re) \cup Parts(v.im) ELSE {v}

\* acc is a number of one of the five representations, a complex having
\* two non-complex parts, and calls is within the program's length.
TypeOK == /\ IsNumber(acc)
          /\ acc.t = "complex" => \A p \in {acc.re, acc.im} : IsNumber(p) /\ p.t # "complex"
          /\ calls \in 0..MaxCalls

\* Every value a primitive computes is in the form make_rational's comment
\* (line 351) and bignum2number promise, as far as their pointer tests
\* reach: an integer, alone or as a part of a complex, is a fixnum exactly
\* when it fits (bignum2number, LONG_FITS_INTEGER), and a rational has a
\* positive denominator coprime to its numerator that is not the fixnum 1
\* (make_rational's sign move, gcd2 reduction and d == MAKE_INT(1)
\* collapse).  Not stated: the parts of a rational that are bignums
\* fitting a fixnum, or a bignum denominator 1, which those pointer tests
\* miss (the round run), and a complex with an exact zero imaginary part
\* (the divzero run).  numerator and denominator return a part as stored.
Accessors == {"numerator", "denominator"}
CanonicalValues == last.op \notin Accessors => \A p \in Parts(acc) : ReducedScalar(p)

\* "+", "-" and "*" on exact arguments return an exact result equal to the
\* mathematical one, whatever fixnum overflow happened on the way (mul2's
\* divide-back test, the long sums of add2 and sub2, make_rational's
\* renormalisation of the cross products, make_complex).
ExactArithmetic ==
    (last.op \in {"+", "-", "*"} /\ Isexactp(last.x) /\ Isexactp(last.y)) =>
        /\ IsNumber(last.res)
        /\ Isexactp(last.res)
        /\ GOf(last.res) = GRef(last.op, GOf(last.x), GOf(last.y))

\* Spec 4.2: "/" on exact arguments signals DivisionByZero exactly when the
\* divisor is an exact zero, and otherwise returns the exact quotient (div2,
\* make_rational).
ExactDivision ==
    (last.op = "/" /\ Isexactp(last.x) /\ Isexactp(last.y)) =>
        IF GOf(last.y) = GZero
        THEN last.res = Error("DivisionByZero")
        ELSE /\ IsNumber(last.res)
             /\ Isexactp(last.res)
             /\ GOf(last.res) = GDiv(GOf(last.x), GOf(last.y))

\* remainder and modulo of two integer? arguments with a non-zero divisor
\* return a - b*truncate(a/b) and a - b*floor(a/b), exact exactly when both
\* arguments are (integer_division, and modulo's sign correction).
RemainderModuloLaw ==
    (/\ last.op \in {"remainder", "modulo"}
     /\ Integerp(last.x) /\ Integerp(last.y) /\ ~Zerop(last.y)) =>
        LET a == IntOf(last.x)
            b == IntOf(last.y)
            r == a - b * CDiv(a, b)
            m == IF r # 0 /\ (r < 0) # (b < 0) THEN r + b ELSE r
        IN  /\ IsNumber(last.res) /\ Integerp(last.res)
            /\ IntOf(last.res) = (IF last.op = "remainder" THEN r ELSE m)
            /\ Isexactp(last.res) = (Isexactp(last.x) /\ Isexactp(last.y))

\* "=", "<", ">", "<=" and ">=" on non-complex numbers other than NaN agree
\* with the mathematical order, across every pair of representations
\* do_compare dispatches on (double_diff, the fixnum difference,
\* general_diff).
CompareAgreesWithOrder ==
    (/\ last.op \in {"=", "<", ">", "<=", ">="}
     /\ last.x.t # "complex" /\ last.y.t # "complex"
     /\ ~IsNaN(last.x) /\ ~IsNaN(last.y)) =>
        last.res = Bool(CASE last.op = "=" -> RefCmp(last.x, last.y) = 0
                          [] last.op = "<" -> RefCmp(last.x, last.y) < 0
                          [] last.op = ">" -> RefCmp(last.x, last.y) > 0
                          [] last.op = "<=" -> RefCmp(last.x, last.y) <= 0
                          [] last.op = ">=" -> RefCmp(last.x, last.y) >= 0)

\* Spec 7: every error is surfaced to the caller as a Scheme error; no call
\* aborts the process (real2integer, double2integer, mpz_init_set_d).
NoAbort == ~Halted

\* max and min of two non-complex numbers other than NaN return the larger
\* (smaller) of the two, inexact when either argument is (the do_compare
\* test of the loop and the exact2inexact of an exact result).
MaxMinLaw ==
    (/\ last.op \in {"max", "min"}
     /\ last.x.t # "complex" /\ last.y.t # "complex"
     /\ ~IsNaN(last.x) /\ ~IsNaN(last.y)) =>
        LET c == RefCmp(last.x, last.y)
            want == IF (last.op = "max") = (c < 0) THEN last.y ELSE last.x
        IN  /\ IsNumber(last.res) /\ last.res.t # "complex"
            /\ RefCmp(last.res, want) = 0
            /\ Isexactp(last.res) = (Isexactp(last.x) /\ Isexactp(last.y))

\* The integer a finite non-complex number is rounded to by floor, ceiling,
\* truncate and round (to even on a tie); <<a, b>> is its exact value, b > 0.
RoundRef(op, a, b) ==
    LET fl == a \div b
        twice == 2 * (a - fl * b)
    IN  CASE op = "floor"    -> fl
          [] op = "ceiling"  -> -((-a) \div b)
          [] op = "truncate" -> CDiv(a, b)
          [] twice < b       -> fl
          [] twice > b       -> fl + 1
          [] OTHER           -> IF fl % 2 = 0 THEN fl ELSE fl + 1

\* A call of op on a finite non-complex argument returned the integer
\* RoundRef gives, exact exactly when the argument is.
RoundedAsRef(op) ==
    (last.op = op /\ last.x.t # "complex" /\ Finitep(last.x)) =>
        /\ IsNumber(last.res) /\ Integerp(last.res)
        /\ IntOf(last.res) = RoundRef(op, ExactOf(last.x)[1], ExactOf(last.x)[2])
        /\ Isexactp(last.res) = Isexactp(last.x)

\* floor, ceiling and truncate of a finite real number return the integer
\* below, above, or towards zero, keeping exactness (the rational cases
\* lower or raise the numerator by den-1, then STk_quotient).
RoundingLaw == \A op \in {"floor", "ceiling", "truncate"} : RoundedAsRef(op)

\* The documentation of round: it returns the closest integer, rounding to
\* even when the argument is halfway between two integers (round's
\* "RATIONAL_DEN(x) == MAKE_INT(2)" case, and floor(x + 0.5) on doubles).
RoundHalfEven == RoundedAsRef("round")

----------------------------------------------------------------------------
(* Bit operations and exact powers.                                      *)

\* The value of any finite number as a Gaussian rational.
RECURSIVE GValue(_)
GValue(x) == IF x.t = "complex" THEN GAdd(GValue(x.re), GMul(<<QZero, <<1, 1>>>>, GValue(x.im)))
             ELSE <<ExactOf(x), QZero>>
GOne == <<<<1, 1>>, QZero>>
RECURSIVE GPowN(_, _)
GPowN(g, n) == IF n = 0 THEN GOne ELSE GMul(g, GPowN(g, n - 1))
GPow(g, n) == IF n >= 0 THEN GPowN(g, n) ELSE GDiv(GOne, GPowN(g, -n))

\* Two's complement on BitWidth bits, wide enough for every value a
\* program of the model computes: the and, or and xor of the bits, the
\* complement, and the shift as a floor division.
BitWidth == 28
Unsigned(n) == n % (2 ^ BitWidth)
Signed(u) == Wrap(u, BitWidth)
RefBit(op, a, b) ==
    CASE op = "bit-and"   -> Signed(Unsigned(a) & Unsigned(b))
      [] op = "bit-or"    -> Signed(Unsigned(a) | Unsigned(b))
      [] op = "bit-xor"   -> Signed(Unsigned(a) ^^ Unsigned(b))
      [] op = "bit-not"   -> Signed(2 ^ BitWidth - 1 - Unsigned(a))
      [] op = "bit-shift" -> IF b >= 0 THEN a * 2 ^ b ELSE a \div 2 ^ (-b)

\* The documentation of logical.stk: on exact integers, bit-and, bit-or,
\* bit-xor, bit-not and bit-shift are the operations on the infinite two's
\* complement bit strings, whatever the signs and whether the operands
\* are fixnums or bignums (the digit tables, logical:ash-4's rounding of
\* negative numbers, the stop tests of lgand/lgior/lgxor, bit-shift's
\* floor division), and the result is a canonical integer.
BitwiseLaw ==
    (/\ last.op \in {"bit-and", "bit-or", "bit-xor", "bit-not", "bit-shift"}
     /\ IsIntClass(last.x) /\ IsIntClass(last.y)) =>
        last.res = Bignum2Number(RefBit(last.op, last.x.v, last.y.v))

\* Spec 5: expt with an exact integer exponent uses exact repeated
\* squaring: on an exact base the result is the exact power (the inverse
\* for a negative exponent, DivisionByZero for zero to a negative power),
\* on a finite real base it has the value of the power (mpz_pow_ui,
\* make_rational on the parts of a rational, the square-and-multiply
\* loop of reals and complexes, expt's div2 for a negative exponent).
\* A call the uninitialized mpz_t aborted returns nothing.
ExptLaw ==
    (/\ last.op = "expt" /\ last.res # Error("Abort")
     /\ (Isexactp(last.x) \/ Finitep(last.x))) =>
        IF GValue(last.x) = GZero /\ last.y.v < 0
        THEN Isexactp(last.x) => last.res = Error("DivisionByZero")
        ELSE /\ IsNumber(last.res)
             /\ GValue(last.res) = GPow(GValue(last.x), last.y.v)
             /\ Isexactp(last.x) => Isexactp(last.res)

\* An exact result of sqrt on a non-complex exact argument is its
\* principal square root: it squares to the argument, and its real part
\* is positive, or zero with a non-negative imaginary part (my_sqrt_exact's
\* perfect-square tests, its i*sqrt(-x) for a negative x, the div2 of
\* the roots of a rational's parts).
SqrtRoot ==
    (last.op = "sqrt" /\ Isexactp(last.x) /\ IsNumber(last.res) /\ Isexactp(last.res)) =>
        LET g == GValue(last.res)
        IN  /\ GMul(g, g) = GValue(last.x)
            /\ \/ g[1][1] > 0
               \/ g[1][1] = 0 /\ g[2][1] >= 0

\* Spec 5: sqrt of an exact integer that is a perfect square returns an
\* exact integer (my_sqrt_exact's "(int) d * (int) d == i" for fixnums,
\* mpz_sqrt for bignums).
SqrtExactSquares ==
    (last.op = "sqrt" /\ IsIntClass(last.x) /\ last.x.v >= 0
     /\ ISqrt(last.x.v) ^ 2 = last.x.v) =>
        last.res = Bignum2Number(ISqrt(last.x.v))

----------------------------------------------------------------------------
(* Type predicates, magnitude and integer-length.                        *)

\* What the documentation says each type predicate holds of, from the
\* value alone: real? of a zero imaginary part, rational? of a real that
\* is finite, integer? of a rational that is a whole number, bignum? of an
\* integer too large for a fixnum, exact? of a number with no inexact part.
RefRealp(x) == x.t # "complex" \/ (Finitep(x.im) /\ ExactOf(x.im)[1] = 0)
RefType(p, x) ==
    CASE p \in {"number?", "complex?"} -> TRUE
      [] p = "real?"     -> RefRealp(x)
      [] p = "rational?" -> RefRealp(x) /\ Finitep(x)
      [] p = "integer?"  -> RefRealp(x) /\ Finitep(x) /\ ExactOf(RealPart(x))[2] = 1
      [] p = "bignum?"   -> IsIntClass(x) /\ ~Fits(x.v)
      [] p = "exact?"    -> \A q \in Parts(x) : q.t # "real"
      [] p = "inexact?"  -> \E q \in Parts(x) : q.t = "real"

\* The documentation of number? ... integer? and exact?/inexact?, of every
\* value a program of two calls computes: exactly one of exact? and inexact?
\* holds, a complex is real? exactly when its imaginary part is zero, an
\* inexact real is integer? exactly when it is finite and whole, and
\* rational? and integer? are true only of what every higher predicate
\* holds of (STk_integerp's infinity test before floor(val) == val,
\* FINITE_REALP in rational?, zerop of the imaginary part in real?,
\* isexactp).  Of a complex, the documentation asks no more of rational?
\* and integer? than the hierarchy.  integer? answers #f for every
\* tc_rational (line 1394), which is right of a rational in lowest terms
\* but not of a whole-valued one with a bignum denominator 1 (line 352's
\* pointer test), such as (/ b 1) on a bignum b; building it takes three
\* calls, one more than the program makes.
TypePredicatesLaw ==
    last.op \in TypePredicates =>
        IF last.x.t = "complex" /\ last.op \in {"rational?", "integer?"}
        THEN last.res.b => RefType(last.op, last.x)
        ELSE last.res = Bool(RefType(last.op, last.x))

\* magnitude of a finite number is a finite non-negative real, inexact
\* when the argument is: the absolute value of a real argument (the
\* documentation's "magnitude is the same as abs for a real"), and, when
\* it is exact, the root of re^2 + im^2 of a complex one (add2 of the
\* mul2 squares, then STk_sqrt and my_sqrt_exact's perfect-square tests).
MagnitudeLaw ==
    (last.op = "magnitude" /\ Finitep(last.x)) =>
        LET g == GValue(last.x)
            r == ExactOf(last.res)
        IN  /\ IsNumber(last.res) /\ last.res.t # "complex" /\ Finitep(last.res)
            /\ r[1] >= 0
            /\ Isexactp(last.res) => Isexactp(last.x)
            /\ (Isexactp(last.res) \/ last.x.t # "complex") =>
                   QMul(r, r) = QAdd(QMul(g[1], g[1]), QMul(g[2], g[2]))

\* The documentation of integer-length: the number of bits of n in two's
\* complement, a leading 1 assumed when n is negative, for fixnums and
\* bignums alike ("(long) log2((float) n) + 1", mpz_sizeinbase).
IntegerLengthLaw ==
    (last.op = "integer-length" /\ IsIntClass(last.x)) =>
        last.res = Fix(BitLength(IF last.x.v >= 0 THEN last.x.v ELSE -last.x.v - 1))

----------------------------------------------------------------------------
(* The transcendental library.                                            *)

ExactZero(x) == Isexactp(x) /\ Zerop(x)
IsOne(x) == x.t \in {"integer", "real"} /\ ExactOf(x) = <<1, 1>>

\* The exact results the library promises: spec 4.6's exp(0) = 1,
\* log(1) = 0 and exact zero or one of a trigonometric function at an
\* exact zero, and the documentation's list of hyperbolic functions that
\* "always return an exact result" at 0, 0.0, 1 and 1.0.
ExactShortcut(f, x) ==
    CASE f \in {"exp", "cos"} /\ ExactZero(x)                 -> {Fix(1)}
      [] f \in {"sin", "tan", "asin", "atan"} /\ ExactZero(x) -> {Fix(0)}
      [] f = "log" /\ x = Fix(1)                              -> {Fix(0)}
      [] f \in {"sinh", "tanh", "asinh", "atanh"} /\ Zerop(x) -> {Fix(0)}
      [] f = "cosh" /\ Zerop(x)                               -> {Fix(1)}
      [] f = "acosh" /\ IsOne(x)                              -> {Fix(0)}
      [] OTHER                                                -> {}

\* A transcendental call returns the exact shortcut where there is one and
\* an inexact number everywhere else (the floating fallback of spec 4.6,
\* double2real of every libm result), and signals exactly at log's exact
\* 0 and atanh's poles +-1 (the exact tests of my_log, my_cosh, my_sinh,
\* my_tanh, my_asinh, my_acosh and my_atanh before libm).  (log x b), div2
\* of two logs, is inexact unless x is 1, and signals only at an exact 0
\* or a divisor log(1) = 0.
TranscendentalExactness ==
    /\ last.op \in Transcendentals =>
          /\ ExactShortcut(last.op, last.x) # {} =>
                 last.res \in ExactShortcut(last.op, last.x)
          /\ (ExactShortcut(last.op, last.x) = {} /\ IsNumber(last.res)) =>
                 ~Isexactp(last.res)
          /\ IsErr(last.res) <=>
                 \/ last.op = "log" /\ ExactZero(last.x)
                 \/ last.op = "atanh" /\ IsOne(Absolute(last.x))
    /\ last.op = "log/2" =>
          /\ (IsNumber(last.res) /\ last.x # Fix(1)) => ~Isexactp(last.res)
          /\ IsErr(last.res) => \/ ExactZero(last.x) \/ ExactZero(last.y)
                                 \/ last.y = Fix(1)

\* Where the function is real on the real line (log from 0, asin and acos
\* on [-1, 1], acosh from 1, atanh inside (-1, 1), the others everywhere,
\* sqrt from 0), the real argument of a non-NaN gives a result that is not
\* complex: the documentation's "when it is possible these procedures
\* produce a real result from a real argument" (the sign tests of my_log,
\* asin_real, acos_real, acosh_aux and atanh_aux that pick libm).
RealDomain(f, x) ==
    CASE f \in {"log", "sqrt"}   -> RSign(ToReal(x)) >= 0
      [] f \in {"asin", "acos"}  -> ExactOf(Absolute(x))[1] <= ExactOf(Absolute(x))[2]
                                    /\ Finitep(x)
      [] f = "acosh"             -> RSign(ToReal(Sub2(x, Fix(1)))) >= 0
      [] f = "atanh"             -> ExactOf(Absolute(x))[1] < ExactOf(Absolute(x))[2]
                                    /\ Finitep(x)
      [] OTHER                   -> TRUE
RealResults ==
    (last.op \in Transcendentals \cup {"sqrt"} /\ last.x.t # "complex" /\ ~Nanp(last.x)
     /\ RealDomain(last.op, last.x)) => last.res.t # "complex"

\* Spec 4.6's domain extension: log and sqrt of a negative real (-inf.0
\* included) are complex, asin and acos outside [-1, 1], acosh below 1
\* and atanh outside [-1, 1] extend to complex values too (the branches of
\* my_log, STk_sqrt, asin_real, acos_real, acosh_aux and atanh_aux that
\* leave libm for the logarithmic identities).
BranchCuts ==
    (last.op \in {"log", "sqrt", "asin", "acos", "acosh", "atanh"}
     /\ last.x.t # "complex" /\ ~Nanp(last.x) /\ ~RealDomain(last.op, last.x)
     /\ (last.op \in {"log", "sqrt"} \/ Finitep(last.x))
     /\ ~(last.op = "atanh" /\ IsOne(Absolute(last.x)))) =>
        last.res.t = "complex"

\* Spec 4.6: expt with an exponent that is not an exact integer computes
\* exp(y log x) or pow in doubles, so its result is inexact; the only
\* exact results are the base itself at the fixnum 0 (my_expt's zerop(x)
\* test, for a non-zero exponent) and exp(0) = 1 at the exact base 1 with
\* an exact exponent.  An integral double exponent of an exact base goes
\* through exact_exponent_expt and must be made inexact afterwards.
ExptExactness ==
    (last.op = "expt" /\ ~IsIntClass(last.y) /\ IsNumber(last.res)) =>
        (Isexactp(last.res) <=> \/ SameObject(last.x, Fix(0)) /\ ~Zerop(last.y)
                                \/ last.x = Fix(1) /\ last.y.t # "real" /\ Isexactp(last.y))

\* A real result where the mathematics gives one: expt of a non-NaN real
\* base that is non-negative, or of any real base to an integer power
\* (exact, or a double that represents an integer), is not complex; the
\* documentation's "when it is possible these procedures produce a real
\* result from a real argument", through pow, the exact power of an
\* integral double and exp(log(x) * y) of a positive base.
ExptRealResults ==
    (/\ last.op = "expt" /\ last.x.t # "complex" /\ last.y.t # "complex"
     /\ ~Nanp(last.x) /\ ~Nanp(last.y)
     /\ (RSign(ToReal(last.x)) >= 0 \/ Integerp(last.y))) => last.res.t # "complex"

====
