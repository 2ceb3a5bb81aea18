----------------------------- MODULE FloatBits -----------------------------
(***************************************************************************)
(* The bits of a double in src/src/number.c: make_nan and the SRFI 208    *)
(* NaN primitives, decode-float and encode-float with the float-max-*     *)
(* and float-min-exponent limits, and the conversion of an exact number   *)
(* to a double (exact->inexact: (double) of a long, bignum2double,        *)
(* rational2double and bigrational2double).  A double is its bit pattern, *)
(* an integer of 1 + ExpBits + FracBits bits laid out as binary64 is      *)
(* (sign, biased exponent, fraction); binary64 itself is ExpBits = 11,    *)
(* FracBits = 52, which the checks narrow.  Exact numbers are those of    *)
(* Tower.                                                                  *)
(***************************************************************************)
EXTENDS Powers

LOCAL INSTANCE Bitwise

CONSTANTS
    ExpBits,     \* the exponent field (11 in binary64)
    FracBits,    \* the fraction field (52 in binary64)
    LimbBits     \* GMP_LIMB_BITS, the width of a limb of mpz_t

ASSUME ExpBits >= 2 /\ FracBits >= 3 /\ LimbBits >= 1

\* CHAR_BIT * sizeof(double), and the <float.h> constants of the format.
Width == 1 + ExpBits + FracBits
Bias == 2^(ExpBits - 1) - 1
DBL_MANT_DIG == FracBits + 1
DBL_MIN_EXP == 2 - Bias
DBL_MAX_EXP == Bias + 1

\* sign_mask, quiet_mask and payload_mask: bits 63, 51 and 49..0 of binary64.
sign_mask == 2^(Width - 1)
quiet_mask == 2^(FracBits - 1)
payload_mask == 2^(FracBits - 2) - 1

\* 0x7ff0000000000000 (+inf.0), 0x7ff8000000000000 (the quiet NaN) and
\* 0x7ff4000000000000 (bit 51 clear and bit 50 set: a signaling NaN).
ExpOnes == (2^ExpBits - 1) * 2^FracBits
QuietNaN == ExpOnes + quiet_mask
SignalingNaNInf == ExpOnes
SignalingNaN == ExpOnes + 2^(FracBits - 2)

Signbit(u) == u >= sign_mask
ExpField(u) == (u % sign_mask) \div 2^FracBits
FracField(u) == u % 2^FracBits
Isnan(u) == ExpField(u) = 2^ExpBits - 1 /\ FracField(u) # 0
Isinf(u) == ExpField(u) = 2^ExpBits - 1 /\ FracField(u) = 0
Isnormal(u) == ExpField(u) \notin {0, 2^ExpBits - 1}

\* The sign bit set or clear: -d and signbit(d).
Signed(neg, u) == IF neg THEN sign_mask + u ELSE u

\* The value of a finite non-negative pattern u is m * 2^k: the fraction
\* with its hidden bit when normal, and the exponent of a subnormal being
\* that of the smallest normal binade.
MK(u) == <<IF ExpField(u) = 0 THEN FracField(u) ELSE 2^FracBits + FracField(u),
           (IF ExpField(u) = 0 THEN 1 ELSE ExpField(u)) - Bias - FracBits>>

\* The same value as a fraction <<n, d>>.
Magnitude(u) == IF MK(u)[2] >= 0 THEN <<MK(u)[1] * 2^MK(u)[2], 1>> ELSE <<MK(u)[1], 2^(-MK(u)[2])>>

----------------------------------------------------------------------------
(* Rounding a non-negative n/d (d > 0) to a pattern: the binade          *)
(* [2^k, 2^(k+1)) of n/d, the quantum 2^q of the doubles in it (the same  *)
(* for every subnormal), n/d / 2^q rounded to an integer M; M * 2^q is    *)
(* then the pattern (q + Bias + FracBits - 1) * 2^FracBits + M, whose     *)
(* carry into the next binade needs no case.  Past the largest finite     *)
(* double it is +inf.                                                      *)

MinBinade == DBL_MIN_EXP - DBL_MANT_DIG

\* 2^k <= n/d, in quotients that stay small.
TwoPowerLe(n, d, k) == IF k >= 0 THEN d <= n \div 2^k ELSE (d + 2^(-k) - 1) \div 2^(-k) <= n

\* floor(log2(n/d)), clamped to MinBinade..DBL_MAX_EXP.
Binade(n, d) == CHOOSE k \in MinBinade..DBL_MAX_EXP :
                    /\ k = MinBinade \/ TwoPowerLe(n, d, k)
                    /\ k = DBL_MAX_EXP \/ ~TwoPowerLe(n, d, k + 1)

Quantum(n, d) == IF Binade(n, d) < DBL_MIN_EXP - 1 THEN DBL_MIN_EXP - 1 - FracBits
                 ELSE Binade(n, d) - FracBits

\* n/d / 2^q as a fraction.
Scaled(n, d, q) == IF q >= 0 THEN <<n, d * 2^q>> ELSE <<n * 2^(-q), d>>

Pattern(m, q) == LET u == (q + Bias + FracBits - 1) * 2^FracBits + m
                 IN  IF u > ExpOnes THEN ExpOnes ELSE u

\* a / b to the nearest integer, a tie to the even one (the default
\* rounding mode of the FPU, and the rounding of strtod).
NearestDiv(a, b) == LET q == a \div b
                        r == a % b
                    IN  IF 2 * r > b \/ (2 * r = b /\ q % 2 = 1) THEN q + 1 ELSE q

RoundNearest(n, d) == LET q == Quantum(n, d)
                          s == Scaled(n, d, q)
                      IN  Pattern(NearestDiv(s[1], s[2]), q)

RoundTruncate(n, d) == LET q == Quantum(n, d)
                           s == Scaled(n, d, q)
                       IN  Pattern(s[1] \div s[2], q)

\* (double) of a C long: the nearest double.
LongToDouble(v) == Signed(v < 0, RoundNearest(AbsI(v), 1))

\* mpz_get_d: the integer truncated to a double.
MpzGetD(v) == Signed(v < 0, RoundTruncate(AbsI(v), 1))

\* bignum2double: atof of the decimal text of the bignum, which strtod
\* rounds to the nearest double (+inf past the largest one).
bignum2double(v) == Signed(v < 0, RoundNearest(AbsI(v), 1))

\* The quotient of two finite doubles, b not zero, correctly rounded.
DoubleDiv(a, b) == LET p == Magnitude(a % sign_mask)
                       r == Magnitude(b % sign_mask)
                   IN  Signed(Signbit(a) # Signbit(b), RoundNearest(p[1] * r[2], p[2] * r[1]))

\* A finite double times 2^-k, k > 0 (ret *= B with B = 2^-GMP_LIMB_BITS).
TimesInvPower(u, k) == LET p == Magnitude(u % sign_mask)
                       IN  Signed(Signbit(u), RoundNearest(p[1], p[2] * 2^k))

\* mpz_sizeinbase(n, 2): the number of bits of |n|, 1 for zero.
RECURSIVE SizeInBase2(_)
SizeInBase2(n) == IF AbsI(n) < 2 THEN 1 ELSE 1 + SizeInBase2(AbsI(n) \div 2)

RECURSIVE ScaleDown(_, _)
ScaleDown(u, ee) == IF ee = 0 THEN u ELSE ScaleDown(TimesInvPower(u, LimbBits), ee - 1)

\* bigrational2double (mpq_get_d of mini-gmp): num * 2^(ee * LIMB) / den
\* truncated (mpz_tdiv_q), truncated again to a double (mpz_get_d), then
\* multiplied ee times by 2^-LIMB.
bigrational2double(num, den) ==
    LET ne == SizeInBase2(num)
        de == SizeInBase2(den)
        ee == IF de = 1 \/ ne > de + Width THEN 0 ELSE (Width + de - ne) \div LimbBits + 1
    IN  ScaleDown(MpzGetD(CDiv(num * 2^(ee * LimbBits), den)), ee)

\* rational2double: convert makes both parts fixnums or both bignums; two
\* fixnums are each cast to a double, then divided.
rational2double(r) ==
    IF r.num.t = "integer" /\ r.den.t = "integer"
    THEN DoubleDiv(LongToDouble(r.num.v), LongToDouble(r.den.v))
    ELSE bigrational2double(r.num.v, r.den.v)

\* exact->inexact of a non-complex exact number, as a pattern.
Exact2Double(z) == CASE z.t = "integer" -> LongToDouble(z.v)
                     [] z.t = "bignum"  -> bignum2double(z.v)
                     [] OTHER           -> rational2double(z)

----------------------------------------------------------------------------
(* The results of the primitives.  A double is [t |-> "real", bits]; a   *)
(* Scheme boolean and the three values of decode are records of their    *)
(* own.                                                                    *)

Double(u) == [t |-> "real", bits |-> u]
SchemeBool(b) == [t |-> "boolean", b |-> b]
Values(s, e, g) == [t |-> "values", v |-> <<s, e, g>>]

\* make_nan(neg, quiet, pay): the quiet or the signaling pattern, the
\* sign bit and the unsigned long payload or-ed in.
make_nan(neg, quiet, pay) == (IF quiet THEN QuietNaN ELSE SignalingNaN)
                             | (IF neg THEN sign_mask ELSE 0) | (pay % 2^Width)

\* %make-nan: a payload that is not a fixnum, or above payload_mask as a
\* uint64_t (a negative one among them), is an error.
MakeNanPrimitive(neg, quiet, payload) ==
    IF payload.t # "integer" \/ payload.v < 0 \/ payload.v > payload_mask
    THEN Error("BadPayload")
    ELSE Double(make_nan(neg, quiet, payload.v))

verify_NaN(n) == n.t = "real" /\ Isnan(n.bits)

nan_negativep(n) == IF verify_NaN(n) THEN SchemeBool(Signbit(n.bits)) ELSE Error("BadNaN")
nan_quietp(n) == IF verify_NaN(n) THEN SchemeBool((n.bits \div quiet_mask) % 2 = 1) ELSE Error("BadNaN")
nan_payload(n) == IF verify_NaN(n) THEN MakeInt(n.bits % (payload_mask + 1)) ELSE Error("BadNaN")
nan_equalp(n1, n2) == IF verify_NaN(n1) /\ verify_NaN(n2) THEN SchemeBool(n1.bits = n2.bits)
                      ELSE Error("BadNaN")

----------------------------------------------------------------------------
(* decode and encode.                                                      *)

\* frexp(d, &e) of a positive finite d: d = DD * 2^e with 1/2 <= DD < 1.
Frexp(a) == Binade(Magnitude(a)[1], Magnitude(a)[2]) + 1

\* Variant: frexp for a subnormal too.
DecodeExponentFrexp(a) == Frexp(a) - DBL_MANT_DIG

\* The exponent of decode: frexp's for a normal number, DBL_MIN_EXP for a
\* subnormal one, less DBL_MANT_DIG.
DecodeExponent(a) == (IF Isnormal(a) THEN Frexp(a) ELSE DBL_MIN_EXP) - DBL_MANT_DIG

\* ldexp(d, -e) of a finite pattern, as the exact value double2integer reads.
Ldexp(a, k) == IF k >= 0 THEN FinReal(Magnitude(a)[1] * 2^k, Magnitude(a)[2])
               ELSE FinReal(Magnitude(a)[1], Magnitude(a)[2] * 2^(-k))

\* decode: (#f 0 0) for a NaN, (#t 0 0) for an infinity, (0 0 sign) for a
\* zero, and otherwise significand, exponent and sign.
decode(u) ==
    LET sign == MakeInt(IF Signbit(u) THEN -1 ELSE 1)
        a    == u % sign_mask
    IN  CASE Isnan(u) -> Values(SchemeBool(FALSE), Fix(0), Fix(0))
          [] Isinf(u) -> Values(SchemeBool(TRUE), Fix(0), Fix(0))
          [] a = 0    -> Values(Fix(0), Fix(0), sign)
          [] OTHER    -> Values(Double2Integer(Ldexp(a, -DecodeExponent(a))),
                                MakeInt(DecodeExponent(a)), sign)

\* decode-float: a non-number or a complex is an error, an exact number
\* is first made inexact.
decode_float(n) ==
    CASE n.t \in {"boolean", "values", "complex", "error"} -> Error("NotARealNumber")
      [] n.t = "real" -> decode(n.bits)
      [] OTHER        -> decode(Exact2Double(n))

\* float-max-significand, float-min-exponent and float-max-exponent.
float_max_signif == Bignum2Number(2^DBL_MANT_DIG - 1)
float_min_exp == MakeInt(DBL_MIN_EXP - DBL_MANT_DIG)
float_max_exp == MakeInt(DBL_MAX_EXP - DBL_MANT_DIG)

\* Variant: the bound the error message of encode-float prints.
EncodeMinExponentShown == DBL_MIN_EXP

\* The smallest exponent encode-float accepts.
EncodeMinExponent == DBL_MIN_EXP - DBL_MANT_DIG

\* encode-float, for exact arguments: the integer checks on exponent and
\* sign, #f the NaN make_nan(0,0,0), #t an infinity of the sign of g, and
\* otherwise the range checks and the exact sign * significand * 2^exponent.
encode_float(significand, exponent, sign) ==
    CASE ~Integerp(exponent) \/ ~Integerp(sign)   -> Error("NotAnInteger")
      [] significand = SchemeBool(FALSE)          -> Double(make_nan(FALSE, FALSE, 0))
      [] significand = SchemeBool(TRUE)           -> Double(Signed(sign.v < 0, ExpOnes))
      [] ~Integerp(significand)                   -> Error("NotAnInteger")
      [] Negativep(significand)                   -> Error("NegativeSignificand")
      [] DoCompare(significand, float_max_signif) > 0 -> Error("SignificandAboveMaximum")
      [] exponent.v < EncodeMinExponent            -> Error("ExponentBelowMinimum")
      [] exponent.v > DBL_MAX_EXP - DBL_MANT_DIG   -> Error("ExponentAboveMaximum")
      [] OTHER -> Mul2(Mul2(sign, significand), Expt(Fix(2), exponent))

----------------------------------------------------------------------------
(* The calls: the primitives applied to the literals and to the value     *)
(* the call before returned, at most MaxCalls of them.  last and prev are *)
(* the last two calls, with their arguments and result.                   *)

CONSTANTS
    Doubles,     \* bit patterns handed to the primitives as doubles
    Exacts,      \* non-complex exact numbers of Tower
    Payloads,    \* the payloads handed to %make-nan (exact integers)
    Triples,     \* <<significand, exponent, sign>> handed to encode-float
    MaxCalls

VARIABLES last, prev, calls

vars == <<last, prev, calls>>

NoCall == [op |-> "none", args |-> <<>>, res |-> Fix(0)]

Init == last = NoCall /\ prev = NoCall /\ calls = 0

Ready == calls < MaxCalls

Call(op, args, res) == /\ last' = [op |-> op, args |-> args, res |-> res]
                       /\ prev' = last
                       /\ calls' = calls + 1

\* A number the last call returned is an argument of the next one.
Operands == {Double(u) : u \in Doubles} \cup Exacts
            \cup (IF last.op # "none" /\ last.res.t \in {"real", "integer", "bignum", "rational"}
                  THEN {last.res} ELSE {})

\* The triple decode-float returned, handed back to encode-float.
DecodedTriples == IF last.res.t = "values" THEN {last.res.v} ELSE {}

MakeNanCall == Ready /\ \E neg, quiet \in BOOLEAN, p \in Payloads :
                   Call("%make-nan", <<neg, quiet, p>>, MakeNanPrimitive(neg, quiet, p))

NanNegativeCall == Ready /\ \E x \in Operands : Call("nan-negative?", <<x>>, nan_negativep(x))
NanQuietCall == Ready /\ \E x \in Operands : Call("nan-quiet?", <<x>>, nan_quietp(x))
NanPayloadCall == Ready /\ \E x \in Operands : Call("nan-payload", <<x>>, nan_payload(x))
NanEqualCall == Ready /\ \E x \in Operands, u \in Doubles : Call("nan=?", <<x, Double(u)>>, nan_equalp(x, Double(u)))

DecodeFloatCall == Ready /\ \E x \in Operands : Call("decode-float", <<x>>, decode_float(x))

EncodeFloatCall == Ready /\ \E t \in Triples \cup DecodedTriples :
                       Call("encode-float", t, encode_float(t[1], t[2], t[3]))

FloatMaxSignifCall == Ready /\ Call("float-max-significand", <<>>, float_max_signif)
FloatMinExpCall == Ready /\ Call("float-min-exponent", <<>>, float_min_exp)
FloatMaxExpCall == Ready /\ Call("float-max-exponent", <<>>, float_max_exp)

\* exact->inexact: a double is returned as it is.
ExToInexCall == Ready /\ \E x \in Operands :
                    Call("exact->inexact", <<x>>, IF x.t = "real" THEN x ELSE Double(Exact2Double(x)))

Next == \/ MakeNanCall \/ NanNegativeCall \/ NanQuietCall \/ NanPayloadCall \/ NanEqualCall
        \/ DecodeFloatCall \/ EncodeFloatCall
        \/ FloatMaxSignifCall \/ FloatMinExpCall \/ FloatMaxExpCall
        \/ ExToInexCall

Spec == Init /\ [][Next]_vars

----------------------------------------------------------------------------
(* Properties.                                                            *)

\* The SRFI 208 accessors read back what %make-nan was given: for a NaN
\* the call before made with sign neg, quiet flag q and payload p,
\* nan-negative? is neg, nan-quiet? is q and nan-payload is p, and nan=?
\* against a NaN that %make-nan can build holds exactly when it has the
\* same three.  This is about the patterns make_nan builds (the quiet bit,
\* the signaling bit 50, the sign) and the masks the accessors apply.
\* nan=? compares all the bits (line 3811), so against a NaN with both the
\* quiet bit and bit 50 set (a signaling NaN that the hardware quieted),
\* which %make-nan never builds, it answers #f where its documentation
\* (same sign, quiet bit and payload) says #t; that NaN is outside this
\* statement.
MadeNaN(u) == \E neg \in BOOLEAN, q \in BOOLEAN, p \in 0..payload_mask : make_nan(neg, q, p) = u
NanFields ==
    /\ prev.op = "%make-nan" /\ ~IsErr(prev.res)
    /\ last.op \in {"nan-negative?", "nan-quiet?", "nan-payload", "nan=?"} /\ last.args[1] = prev.res
    =>
        LET neg == prev.args[1]
            q   == prev.args[2]
        IN  CASE last.op = "nan-negative?" -> last.res = SchemeBool(neg)
              [] last.op = "nan-quiet?"    -> last.res = SchemeBool(q)
              [] last.op = "nan-payload"   -> last.res = prev.args[3]
              [] OTHER                     -> MadeNaN(last.args[2].bits) =>
                    last.res = SchemeBool(/\ nan_negativep(last.args[2]) = SchemeBool(neg)
                                          /\ nan_quietp(last.args[2]) = SchemeBool(q)
                                          /\ nan_payload(last.args[2]) = prev.args[3])

\* The double an argument of decode-float was, or became by exact->inexact.
DecodedArg(c) == IF c.args[1].t = "real" THEN c.args[1].bits ELSE Exact2Double(c.args[1])

\* decode-float of a finite double x returns three fixnums (s e g) with
\* x = g * s * 2^e, g = -1 exactly when the sign bit of x is set, and s
\* and e within float-max-significand, float-min-exponent and
\* float-max-exponent, the ranges encode-float accepts.  This is about
\* decode's two exponent cases (frexp for a normal number, DBL_MIN_EXP for
\* a subnormal one) and the conversion of an exact argument.
DecodeLaw ==
    LET x == DecodedArg(last)
        p == Magnitude(x % sign_mask)
        s == last.res.v[1]
        e == last.res.v[2]
        g == last.res.v[3]
    IN  last.op = "decode-float" /\ ~IsErr(last.res) /\ ~Isnan(x) /\ ~Isinf(x) =>
            /\ {s.t, e.t, g.t} = {"integer"}
            /\ g.v = IF Signbit(x) THEN -1 ELSE 1
            /\ 0 <= s.v /\ s.v <= float_max_signif.v
            /\ float_min_exp.v <= e.v /\ e.v <= float_max_exp.v
            /\ IF e.v >= 0 THEN p[1] = s.v * 2^e.v * p[2] ELSE p[1] * 2^(-e.v) = s.v * p[2]

\* The value of an exact non-complex number as <<n, d>>, d > 0.
ExactPair(v) == IF IsIntClass(v) THEN <<v.v, 1>> ELSE <<v.num.v, v.den.v>>

\* encode-float of the triple decode-float returned for a finite double x
\* succeeds, and returns the exact number whose value is x: what the
\* range checks of encode-float and the product sign * significand *
\* 2^exponent must agree on with decode.
EncodeDecodeValue ==
    LET x == DecodedArg(prev)
        p == Magnitude(x % sign_mask)
        v == ExactPair(last.res)
    IN  /\ last.op = "encode-float" /\ prev.op = "decode-float"
        /\ prev.res.t = "values" /\ last.args = prev.res.v /\ prev.res.v[1].t # "boolean"
        => /\ last.res.t \in {"integer", "bignum", "rational"}
           /\ v[1] * p[2] = (IF Signbit(x) THEN -p[1] ELSE p[1]) * v[2]

SignOf(x) == IF x < 0 THEN -1 ELSE IF x = 0 THEN 0 ELSE 1

\* Whether n/d is below (-1), at (0) or above (1) the midpoint between the
\* value m * 2^k of pattern u and that of u + 1, (2m + 1) * 2^(k - 1);
\* below 1 the integral parts are compared first, then the remainders.
MidCompare(n, d, u) ==
    LET c == 2 * MK(u)[1] + 1
        j == 1 - MK(u)[2]
    IN  IF j <= 0 THEN SignOf(n - c * 2^(-j) * d)
        ELSE IF n \div d # c \div 2^j THEN SignOf(n \div d - c \div 2^j)
        ELSE SignOf((n % d) * 2^j - (c % 2^j) * d)

\* The double nearest to n/d >= 0: the pattern whose midpoints with its
\* two neighbours bracket n/d, a midpoint going to the even pattern; past
\* the last midpoint, +inf.
NearestDouble(n, d) ==
    CHOOSE u \in 0..ExpOnes :
        /\ u = 0 \/ MidCompare(n, d, u - 1) > 0 \/ (MidCompare(n, d, u - 1) = 0 /\ u % 2 = 0)
        /\ u = ExpOnes \/ MidCompare(n, d, u) < 0 \/ (MidCompare(n, d, u) = 0 /\ u % 2 = 0)

\* exact->inexact of the exact number z gave its nearest double.
ConvertedNearest(z, r) == r.bits = Signed(ExactPair(z)[1] < 0,
                                          NearestDouble(AbsI(ExactPair(z)[1]), ExactPair(z)[2]))

\* spec.md 4.1: exact-to-inexact conversion rounds to the nearest double,
\* rationals backed by big integers included.  rational2double
\* divides two doubles each already rounded, and bigrational2double
\* truncates twice (mpz_tdiv_q, mpz_get_d).
InexactNearest ==
    last.op = "exact->inexact" /\ last.args[1].t # "real" => ConvertedNearest(last.args[1], last.res)

====
