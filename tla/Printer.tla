------------------------------ MODULE Printer ------------------------------
(***************************************************************************)
(* The number printer of src/src/number.c: number2Cstr and the primitive  *)
(* number->string, STk_double2Cstr ("%.*g" at real_precision) and the     *)
(* real-precision parameter, and the writers print_bignum, print_rational *)
(* and print_complex.  The text produced is a sequence of characters, as  *)
(* in Parser, so that printing composes with string->number: both work    *)
(* on the one Scheme string chars.                                        *)
(***************************************************************************)
EXTENDS Parser

CONSTANTS
    Numbers,          \* the numbers handed to number->string and write
    Precisions,       \* the values handed to the real-precision parameter
    RealFormatSize,   \* REAL_FORMAT_SIZE, the initial real_precision
    MaxExponent       \* the decimal exponents of the printed reals lie in -MaxExponent..MaxExponent

ASSUME RealFormatSize \in 1..50 /\ MaxExponent \in Nat

\* The character of a digit, 'a'..'f' above 9: u + ((u < 10) ? '0' : 'a'-10).
DigitChar(u) == HexChars[u + 1]

\* The digits of a natural, most significant first: the do-while loop of
\* the tc_integer case, and mpz_get_str for a bignum.
RECURSIVE NatText(_, _)
NatText(n, base) == IF n < base THEN <<DigitChar(n)>>
                    ELSE NatText(n \div base, base) \o <<DigitChar(n % base)>>

\* A '-' for a negative value (val = -val), then its digits.
IntegerText(v, base) == (IF v < 0 THEN <<"-">> ELSE <<>>) \o NatText(AbsI(v), base)

----------------------------------------------------------------------------
(* snprintf(buffer, bufflen, "%.*g", real_precision, n).                  *)

\* 10^e <= n/d, for an exponent of either sign.
TenPowerLe(n, d, e) == IF e >= 0 THEN 10^e * d <= n ELSE d <= n * 10^(-e)

\* floor(log10(n/d)) of a positive rational.
Log10Floor(n, d) == CHOOSE e \in -MaxExponent..MaxExponent :
                        TenPowerLe(n, d, e) /\ ~TenPowerLe(n, d, e + 1)

\* Variant: the digits cut instead of rounded.
RoundDivTruncating(a, b) == a \div b

\* a / b rounded to the nearest integer, a tie to the even one (the
\* rounding of printf under the default rounding mode).
RoundDiv(a, b) == LET q == a \div b
                      r == a % b
                  IN  IF 2 * r > b \/ (2 * r = b /\ q % 2 = 1) THEN q + 1 ELSE q

\* n/d * 10^k, rounded to an integer.
ScaledRound(n, d, k) == IF k >= 0 THEN RoundDiv(n * 10^k, d) ELSE RoundDiv(n, d * 10^(-k))

\* The prec significant digits of a positive n/d and the decimal exponent
\* of the first one, after the rounding carried into a new digit.
Significand(n, d, prec) ==
    LET e == Log10Floor(n, d)
        m == ScaledRound(n, d, prec - 1 - e)
    IN  IF m = 10^prec THEN [m |-> 10^(prec - 1), e |-> e + 1] ELSE [m |-> m, e |-> e]

\* %g removes the trailing zeros of the fraction, and the '.' with them.
RECURSIVE StripZeros(_)
StripZeros(s) == IF s # <<>> /\ Last(s) = "0" THEN StripZeros(Front(s)) ELSE s
Fraction2Text(f) == IF StripZeros(f) = <<>> THEN <<>> ELSE <<".">> \o StripZeros(f)

\* The style e: d.ddd then the exponent, signed and of two digits at least.
ExponentText(e) == <<"e", IF e < 0 THEN "-" ELSE "+">>
                   \o (IF AbsI(e) < 10 THEN <<"0">> ELSE <<>>) \o NatText(AbsI(e), 10)

\* The style f: with e >= 0 the first e + 1 digits are the integral part,
\* otherwise "0." and -e - 1 zeros come first.
FixedText(ds, e) ==
    IF e >= 0 THEN SubSeq(ds, 1, e + 1) \o Fraction2Text(SubSeq(ds, e + 2, Len(ds)))
    ELSE <<"0">> \o Fraction2Text([k \in 1..(-e - 1) |-> "0"] \o ds)

\* %g chooses the style f when -4 <= X < P, X being the exponent.
GText(n, d, prec) ==
    LET s  == Significand(n, d, prec)
        ds == NatText(s.m, 10)
    IN  IF -4 <= s.e /\ s.e < prec THEN FixedText(ds, s.e)
        ELSE <<Head(ds)>> \o Fraction2Text(Tail(ds)) \o ExponentText(s.e)

\* The sign bit of a NaN is whatever the operation that made it left
\* there (0.0/0.0 sets it on x86-64): glibc prints "nan" or "-nan".
NanTexts == {<<"n", "a", "n">>, <<"-", "n", "a", "n">>}

\* The texts snprintf can produce for a double.
GTexts(x, prec) ==
    CASE x.k = "pinf" -> {<<"i", "n", "f">>}
      [] x.k = "minf" -> {<<"-", "i", "n", "f">>}
      [] x.k = "nan"  -> NanTexts
      [] x.n = 0      -> {<<"0">>}
      [] x.n < 0      -> {<<"-">> \o GText(-x.n, x.d, prec)}
      [] OTHER        -> {GText(x.n, x.d, prec)}

\* STk_double2Cstr: ".0" appended when the text has neither '.' nor 'e';
\* "inf.0" and "nan.0" given a '+'.
MarkInexact(t) == IF {".", "e"} \cap ToSet(t) = {} THEN t \o <<".", "0">> ELSE t
SignSpecial(t) == IF t[1] \in Letters THEN <<"+">> \o t ELSE t

STk_double2Cstr(x, prec) == {SignSpecial(MarkInexact(t)) : t \in GTexts(x, prec)}

----------------------------------------------------------------------------
(* number2Cstr(n, base): the set of texts it can return (one, but for a  *)
(* NaN).  A complex prints "s1", '+' unless s2 starts with '-', "s2", 'i'. *)
(* A real, or a complex with a real part, in a base other than 10 is the *)
(* error "base must be 10 for this number".                              *)

Plus(s2) == IF s2[1] = "-" THEN <<>> ELSE <<"+">>

ScalarTexts(n, base, prec) ==
    CASE IsIntClass(n)    -> {IntegerText(n.v, base)}
      [] n.t = "rational" -> {IntegerText(n.num.v, base) \o <<"/">> \o IntegerText(n.den.v, base)}
      [] OTHER            -> STk_double2Cstr(n, prec)

BadBase(n, base) == base # 10 /\ "real" \in IF n.t = "complex" THEN {n.re.t, n.im.t} ELSE {n.t}

number2Cstr(n, base, prec) ==
    IF n.t # "complex" THEN ScalarTexts(n, base, prec)
    ELSE {s1 \o Plus(s2) \o s2 \o <<"i">> : s1 \in ScalarTexts(n.re, base, prec),
                                            s2 \in ScalarTexts(n.im, base, prec)}

\* print_bignum, print_rational and print_complex, which write and
\* display use: base 10, a '+' before the imaginary part when positivep
\* holds of it.  A real part is printed by STk_double2Cstr.
WriteTexts(n, prec) ==
    IF n.t # "complex" THEN ScalarTexts(n, 10, prec)
    ELSE {s1 \o (IF Positivep(n.im) THEN <<"+">> ELSE <<>>) \o s2 \o <<"i">> :
              s1 \in ScalarTexts(n.re, 10, prec), s2 \in ScalarTexts(n.im, 10, prec)}

----------------------------------------------------------------------------
(* The state of Parser, the real_precision cell and the last number      *)
(* printed: the primitive, the number, the radix, the precision and the  *)
(* text (or the error).  number->string and write each make a new Scheme string, which *)
(* becomes the string chars that string->number reads.                    *)

VARIABLES real_precision, printed

printVars == <<chars, use_srfi_169, calls, last, prev, real_precision, printed>>

NoPrint == [op |-> "none", n |-> Fix(0), radix |-> 0, prec |-> 0, err |-> FALSE, text |-> <<>>]

PrintInit == Init /\ real_precision = RealFormatSize /\ printed = NoPrint

\* A printed text becomes the string (STk_makestring); an error leaves
\* the string alone.
Printed(op, n, radix, err, t) ==
    /\ printed' = [op |-> op, n |-> n, radix |-> radix, prec |-> real_precision, err |-> err, text |-> t]
    /\ chars' = IF err THEN chars ELSE t
    /\ calls' = calls + 1
    /\ UNCHANGED <<use_srfi_169, last, prev, real_precision>>

\* number->string, the radix one of 2, 8, 10, 16.
number2string == calls < MaxCalls /\
    \E n \in Numbers, radix \in Radixes :
        IF BadBase(n, radix) THEN Printed("number->string", n, radix, TRUE, <<>>)
        ELSE \E t \in number2Cstr(n, radix, real_precision) : Printed("number->string", n, radix, FALSE, t)

\* write of a number into a string port.
write_number == calls < MaxCalls /\
    \E n \in Numbers : \E t \in WriteTexts(n, real_precision) : Printed("write", n, 10, FALSE, t)

\* real_precision_conv, the setter behind real-precision: a value out of
\* ]0 50] is an error and leaves the cell alone.
real_precision_conv == \E value \in Precisions :
    /\ real_precision' = IF value > 0 /\ value <= 50 THEN value ELSE real_precision
    /\ UNCHANGED <<chars, use_srfi_169, calls, last, prev, printed>>

ReadSteps == \/ string2number /\ UNCHANGED <<real_precision, printed>>
             \/ srfi_169_conv /\ UNCHANGED <<real_precision, printed>>

PrintNext == ReadSteps \/ number2string \/ write_number \/ real_precision_conv

PrintSpec == PrintInit /\ [][PrintNext]_printVars

----------------------------------------------------------------------------
(* Properties.                                                            *)

\* |y - x| is at most half a unit of the prec-th significant digit of x,
\* for two finite reals: 2 * |y - x| <= 10^(e - prec + 1) with 10^e <= |x|
\* < 10^(e+1).
WithinDigits(y, x, prec) ==
    IF x.n = 0 \/ y = x THEN y = x
    ELSE \E e \in -MaxExponent..MaxExponent :
            /\ TenPowerLe(AbsI(x.n), x.d, e) /\ ~TenPowerLe(AbsI(x.n), x.d, e + 1)
            /\ LET gap == AbsI(y.n * x.d - x.n * y.d) * 2
                   k   == prec - 1 - e
               IN  IF k >= 0 THEN gap * 10^k <= y.d * x.d ELSE gap <= y.d * x.d * 10^(-k)

\* y read back is equivalent to the printed scalar x: the same exact
\* number, or a real of the same kind, within the digit budget if finite.
ScalarEquivalent(y, x, prec) ==
    IF Isexactp(x) THEN y.t \in RealKinds /\ Isexactp(y) /\ ValueOf(y) = ValueOf(x)
    ELSE /\ y.t = "real" /\ y.k = x.k
         /\ x.k = "fin" => WithinDigits(y, x, prec)

Equivalent(y, x, prec) ==
    IF x.t # "complex" THEN ScalarEquivalent(y, x, prec)
    ELSE /\ y.t = "complex"
         /\ ScalarEquivalent(y.re, x.re, prec) /\ ScalarEquivalent(y.im, x.im, prec)

\* The round-trip law of number->string (its documentation, spec 4.5):
\* printing fails exactly for an inexact number in a radix other than
\* 10, and string->number of the text printed, in the same radix, is the
\* number printed: the same number if it is exact, and otherwise a number
\* with the same infinities and NaNs whose finite parts are off by at
\* most half a unit in the last of the real-precision digits printed.
\* This covers number2Cstr's digit loops, the %g formatting of
\* STk_double2Cstr, the '+' number2Cstr and print_complex put before an
\* imaginary part that does not start with '-', and the reader.  A complex
\* with an infinite or NaN imaginary part is left out of the read-back:
\* STk_double2Cstr signs +inf.0 and +nan.0 itself, so number2Cstr prints
\* "1++inf.0i" (line 657), which does not read back.
FinitePrintedImag(n) == n.t = "complex" => Finitep(n.im)
RoundTrip ==
    printed.radix # 0 =>
        /\ printed.err <=> (~Isexactp(printed.n) /\ printed.radix # 10)
        /\ Called(last) /\ ~printed.err /\ last.text = printed.text
           /\ FinitePrintedImag(printed.n)
           /\ last.radix = printed.radix
           => Equivalent(last.res, printed.n, printed.prec)

====
