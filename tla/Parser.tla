------------------------------- MODULE Parser -------------------------------
(***************************************************************************)
(* The number reader of src/src/number.c: STk_Cstr2number and the        *)
(* functions it calls (read_integer_or_real, remove_underscores,          *)
(* compute_exact_real, read_rational), and string->number, which hands    *)
(* it the characters of a Scheme string.                                  *)
(*                                                                         *)
(* The reader works in place on a C buffer: it patches a '\0' after the   *)
(* number it reads and restores the character it saved, shifts the       *)
(* buffer left over every underscore, rewrites '#' and the exponent       *)
(* markers, and compute_exact_real cuts the buffer at the decimal point.  *)
(* A buffer is therefore a sequence of characters with NUL at its end,   *)
(* and every function returns the buffer it leaves behind.  A position   *)
(* is an index into the buffer; 0 stands for the C NULL pointer.          *)
(***************************************************************************)
EXTENDS Tower, SequencesExt

CONSTANTS
    Strings,    \* the contents the Scheme string may start with
    Radixes,    \* the radix arguments of string->number
    MaxCalls    \* the number of string->number calls explored

ASSUME Radixes \subseteq {2, 8, 10, 16} /\ MaxCalls \in Nat

\* The '\0' character.
NUL == ""

\* The result STk_false: the text is not a number.
NotANumber == [t |-> "false"]

HexChars == <<"0", "1", "2", "3", "4", "5", "6", "7", "8", "9",
              "a", "b", "c", "d", "e", "f">>
UpperHexChars == <<"A", "B", "C", "D", "E", "F">>

\* digitp: the value of a digit (a '#' reads as 0), 100 for any other
\* character, compared with the base.
CharVal(c) == CASE \E k \in DOMAIN HexChars : HexChars[k] = c ->
                     (CHOOSE k \in DOMAIN HexChars : HexChars[k] = c) - 1
                [] \E k \in DOMAIN UpperHexChars : UpperHexChars[k] = c ->
                     (CHOOSE k \in DOMAIN UpperHexChars : UpperHexChars[k] = c) + 9
                [] c = "#" -> 0
                [] OTHER -> 100
digitp(c, base) == CharVal(c) < base

\* strlen and the C string that starts at position i.
FirstNul(b, i) == CHOOSE k \in i..Len(b) : b[k] = NUL /\ \A j \in i..k-1 : b[j] # NUL
CStr(b, i) == SubSeq(b, i, FirstNul(b, i) - 1)

\* The value of a sequence of digits in a base.
RECURSIVE DigitsValue(_, _)
DigitsValue(ds, base) == IF ds = <<>> THEN 0
                         ELSE DigitsValue(Front(ds), base) * base + CharVal(Last(ds))

\* The longest run of digits at the start of s.
RECURSIVE DigitRun(_, _)
DigitRun(s, base) == IF s # <<>> /\ Head(s) # "#" /\ digitp(Head(s), base)
                     THEN <<Head(s)>> \o DigitRun(Tail(s), base) ELSE <<>>

SignOf(s) == IF s # <<>> /\ Head(s) = "-" THEN -1 ELSE 1
Unsigned(s) == IF s # <<>> /\ Head(s) \in {"+", "-"} THEN Tail(s) ELSE s

\* atol and atoi: an optional sign, then the decimal digits up to the
\* first other character.
Atol(s) == SignOf(s) * DigitsValue(DigitRun(Unsigned(s), 10), 10)

\* mpz_init_set_str: an optional '-' and at least one digit of the base,
\* nothing else ("+" is refused); ok is FALSE when it returns -1.
MpzSetStr(s, base) ==
    LET u == IF s # <<>> /\ Head(s) = "-" THEN Tail(s) ELSE s
    IN  [ok |-> u # <<>> /\ DigitRun(u, base) = u,
         v  |-> SignOf(s) * DigitsValue(DigitRun(u, base), base)]

\* strtod on a decimal whose every character it consumes: the exact value
\* of mantissa * 10^exponent (doubles are exact rationals in Tower).
ExpAt(s) == IF \E k \in DOMAIN s : s[k] \in {"e", "E"} THEN CHOOSE k \in DOMAIN s : s[k] \in {"e", "E"}
            ELSE Len(s) + 1
MantissaValue(m) ==
    LET u == Unsigned(m)
        dot == IF \E k \in DOMAIN u : u[k] = "." THEN CHOOSE k \in DOMAIN u : u[k] = "."
               ELSE Len(u) + 1
        frac == SubSeq(u, dot + 1, Len(u))
    IN  <<SignOf(m) * DigitsValue(SubSeq(u, 1, dot - 1) \o frac, 10), 10^Len(frac)>>
ScaledValue(md, e) == IF e >= 0 THEN FinReal(md[1] * 10^e, md[2])
                      ELSE FinReal(md[1], md[2] * 10^(-e))
Strtod(s) == ScaledValue(MantissaValue(SubSeq(s, 1, ExpAt(s) - 1)),
                         Atol(SubSeq(s, ExpAt(s) + 1, Len(s))))

----------------------------------------------------------------------------
(* remove_underscores(str, end, base): shifts the buffer left over every *)
(* '_' between str and end; end is not moved, so each shift copies one    *)
(* more '\0' in front of it.                                              *)

\* for (q = p; q < end; q++) *q = *(q+1);
ShiftLeft(b, p, end) == [k \in DOMAIN b |-> IF p <= k /\ k < end THEN b[k + 1] ELSE b[k]]

\* Variant: no test of the character before an underscore.
RECURSIVE RemoveUnderscoresNoPrev(_, _, _, _, _, _)
RemoveUnderscoresNoPrev(b, str, end, base, p, just) ==
    CASE p >= end - 1 -> [ok |-> b[end - 1] # "_", b |-> b]
      [] b[p] # "_"   -> RemoveUnderscoresNoPrev(b, str, end, base, p + 1, FALSE)
      [] just \/ ~digitp(b[p + 1], base) -> [ok |-> FALSE, b |-> b]
      [] OTHER -> RemoveUnderscoresNoPrev(ShiftLeft(b, p, end), str, end, base, p, TRUE)

\* The loop from position p; just is just_saw_one.
RECURSIVE RemoveUnderscoresFrom(_, _, _, _, _, _)
RemoveUnderscoresFrom(b, str, end, base, p, just) ==
    CASE p >= end - 1 -> [ok |-> b[end - 1] # "_", b |-> b]
      [] b[p] # "_"   -> RemoveUnderscoresFrom(b, str, end, base, p + 1, FALSE)
      [] just \/ (p > str /\ ~digitp(b[p - 1], base)) \/ ~digitp(b[p + 1], base) ->
             [ok |-> FALSE, b |-> b]
      [] OTHER -> RemoveUnderscoresFrom(ShiftLeft(b, p, end), str, end, base, p, TRUE)

remove_underscores(b, str, end, base) == RemoveUnderscoresFrom(b, str, end, base, str, FALSE)

----------------------------------------------------------------------------
(* read_integer_or_real(str, base, exact_flag, &end): the result res, the *)
(* buffer b it leaves and the position p it stores in *end (unchanged,   *)
(* 0, when it returns before the end).                                    *)

\* log10_maxint: the number of decimal digits of INT_MAX_VAL, minus one.
RECURSIVE DecimalDigits(_)
DecimalDigits(n) == IF n < 10 THEN 1 ELSE 1 + DecimalDigits(n \div 10)
Log10MaxInt == DecimalDigits(IntMax) - 1

\* while (digitp(*p, base) || *p == '_') p += 1;
RECURSIVE ScanDigits(_, _, _)
ScanDigits(b, p, base) == IF digitp(b[p], base) \/ b[p] = "_"
                          THEN ScanDigits(b, p + 1, base) ELSE p

ExponentMarkers == {"e", "E", "s", "S", "f", "F", "d", "D", "l", "L"}

Failed(b) == [res |-> NotANumber, b |-> b, p |-> 0]

\* The buffer with c written at position p.
Poke(b, p, c) == [b EXCEPT ![p] = c]

\* Variant: the exact_flag forgotten, #i yields an exact integer.
IntegerWithFlagIgnored(exact, v, int) == int

\* The exact_flag applied to an integer: double2real((double) n) for #i.
IntegerWithFlag(exact, v, int) == IF exact = "i" THEN FinReal(v, 1) ELSE int

\* The isint branch on the C string txt (after a leading '+').
ReadInteger(txt, base, exact) ==
    IF Len(txt) <= Log10MaxInt /\ base = 10
    THEN IntegerWithFlag(exact, Atol(txt), MakeInt(Atol(txt)))
    ELSE IF ~MpzSetStr(txt, base).ok THEN NotANumber
    ELSE IntegerWithFlag(exact, MpzSetStr(txt, base).v, Bignum2Number(MpzSetStr(txt, base).v))

\* Replace sharp signs by 0 and the exponent markers by 'e', from i on.
ReplaceMarkers(b, i) ==
    [k \in DOMAIN b |-> IF k < i \/ k >= FirstNul(b, i) THEN b[k]
                        ELSE IF b[k] = "#" THEN "0"
                        ELSE IF b[k] \in ExponentMarkers \ {"e", "E"} THEN "e" ELSE b[k]]

\* compute_exact_real(s, p1, p2, p3, p4) with NUL patched at p1 and p3;
\* the patches are never undone.
PatchNul(b, p) == IF p # 0 THEN Poke(b, p, NUL) ELSE b

ExactIntPart(b, s, p1) ==
    IF p1 = 0 THEN Fix(0)
    ELSE IF MpzSetStr(CStr(b, s), 10).ok THEN Bignum2Number(MpzSetStr(CStr(b, s), 10).v)
    ELSE NotANumber

ExactFractPart(b, p2, p3) ==
    IF ~(p3 > p2) THEN Fix(0)
    ELSE IF MpzSetStr(CStr(b, p2), 10).ok
         THEN MakeRational(Bignum2Number(MpzSetStr(CStr(b, p2), 10).v),
                           Bignum2Number(10^Len(CStr(b, p2))))
         ELSE NotANumber

ExactExpPart(expo) == IF expo > 0 THEN Bignum2Number(10^expo)
                      ELSE Div2(Fix(1), Bignum2Number(10^(-expo)))

ExactRealOf(ip, fp, ep) == IF NotANumber \in {ip, fp} THEN NotANumber
                           ELSE Mul2(Add2(ip, fp), ep)

ComputeExactRealPatched(b, s, p1, p2, p3, p4) ==
    [res |-> ExactRealOf(ExactIntPart(b, s, p1), ExactFractPart(b, p2, p3),
                         IF p4 # 0 THEN ExactExpPart(Atol(CStr(b, p4))) ELSE Fix(1)),
     b   |-> b]

compute_exact_real(b, s, p1, p2, p3, p4) ==
    ComputeExactRealPatched(PatchNul(PatchNul(b, p1), p3), s, p1, p2, p3, p4)

\* The end of read_integer_or_real: the saved character written back at
\* the final p, which *end receives.
Finish(b, res, p, saved) ==
    [res |-> res, b |-> IF saved # NUL THEN Poke(b, p, saved) ELSE b, p |-> p]

\* The number once its underscores are gone: isint, or a float (base 10
\* only) read by compute_exact_real for #e and by strtod otherwise, with p
\* reset to the first '\0' by the marker loop.
FloatValue(b, str, ptr, q, saved, exact) ==
    IF exact = "e"
    THEN LET r == compute_exact_real(b, str, ptr.p1, ptr.p2, ptr.p3, ptr.p4)
         IN  Finish(r.b, r.res, q, saved)
    ELSE Finish(b, Strtod(CStr(b, str)), q, saved)

ReadValue(b, str, ptr, pe, saved, base, exact) ==
    CASE ptr.isint ->
             Finish(b, ReadInteger(CStr(b, IF b[str] = "+" THEN str + 1 ELSE str), base, exact),
                    pe, saved)
      [] base # 10 -> Finish(b, NotANumber, pe, saved)
      [] OTHER -> FloatValue(ReplaceMarkers(b, str), str, ptr, FirstNul(b, str), saved, exact)

\* An underscore anywhere in the number needs the SRFI-169 toggle and a
\* valid placement; the two returns that refuse it leave the '\0' patch
\* (and a partial shift) in the buffer.
UnderscoreCheck(b, str, pe, base, srfi) ==
    CASE \A k \in str..pe - 1 : b[k] # "_" -> [ok |-> TRUE, b |-> b]
      [] ~srfi -> [ok |-> FALSE, b |-> b]
      [] OTHER -> remove_underscores(b, str, pe, base)

ReadWithoutUnderscores(ru, str, ptr, pe, saved, base, exact) ==
    IF ru.ok THEN ReadValue(ru.b, str, ptr, pe, saved, base, exact) ELSE Failed(ru.b)

\* The '\0' patched at the end pe of the number, saving the character.
PatchEnd(b, str, ptr, pe, base, exact, srfi) ==
    ReadWithoutUnderscores(UnderscoreCheck(Poke(b, pe, NUL), str, pe, base, srfi),
                           str, ptr, pe, b[pe], base, exact)

\* After the mantissa, at pm: an optional exponent, whose marker must be
\* followed by a sign and a digit or by a digit.
ExponentSign(b, p4) == IF b[p4] \in {"-", "+"} THEN p4 + 1 ELSE p4
HasExponent(b, pm) == b[pm] \in ExponentMarkers
ExponentDigit(b, pm, base) ==
    digitp(b[ExponentSign(b, pm + 1)], base) \/ b[ExponentSign(b, pm + 1)] = "_"
NumberEnd(b, pm, base) ==
    IF HasExponent(b, pm) THEN ScanDigits(b, ExponentSign(b, pm + 1) + 1, base) ELSE pm
ExponentPointers(b, ptr, pm) ==
    IF HasExponent(b, pm) THEN [ptr EXCEPT !.p4 = pm + 1, !.isint = FALSE] ELSE ptr

ReadExponent(b, str, ptr, pm, adigit, base, exact, srfi) ==
    IF ~adigit \/ (HasExponent(b, pm) /\ ~ExponentDigit(b, pm, base)) THEN Failed(b)
    ELSE PatchEnd(b, str, ExponentPointers(b, ptr, pm), NumberEnd(b, pm, base), base, exact, srfi)

\* The integral part ends at q1; isint is cleared by a '#' in it, or by
\* a '.', after which the fraction ends at p3.
MantissaPointers(b, p0, q1, base) ==
    IF b[q1] = "."
    THEN [p1 |-> IF q1 > p0 THEN q1 ELSE 0, p2 |-> q1 + 1,
          p3 |-> ScanDigits(b, q1 + 1, base), p4 |-> 0, isint |-> FALSE]
    ELSE [p1 |-> IF q1 > p0 THEN q1 ELSE 0, p2 |-> 0, p3 |-> 0, p4 |-> 0,
          isint |-> \A k \in p0..q1 - 1 : b[k] # "#"]

ReadMantissaAt(b, str, p0, q1, ptr, base, exact, srfi) ==
    ReadExponent(b, str, ptr, IF ptr.p3 # 0 THEN ptr.p3 ELSE q1,
                 q1 > p0 \/ ptr.p3 > ptr.p2, base, exact, srfi)

ReadMantissa(b, str, p0, q1, base, exact, srfi) ==
    ReadMantissaAt(b, str, p0, q1, MantissaPointers(b, p0, q1, base), base, exact, srfi)

ReadUnsigned(b, str, p0, base, exact, srfi) ==
    IF b[p0] \in {"#", "_"} THEN Failed(b)
    ELSE ReadMantissa(b, str, p0, ScanDigits(b, p0, base), base, exact, srfi)

read_integer_or_real(b, str, base, exact, srfi) ==
    ReadUnsigned(b, str, IF b[str] \in {"-", "+"} THEN str + 1 ELSE str, base, exact, srfi)

----------------------------------------------------------------------------
(* read_rational and STk_Cstr2number.  A result is [res, b]: the value    *)
(* (a number, NotANumber, or the error the reader signals) and the buffer.*)

\* *end is left alone by an early return of read_integer_or_real.
EndOr(r, p) == IF r.p = 0 THEN p ELSE r.p

\* read_rational(num, str, ...): the denominator, then make_rational on two
\* integers, div2 under #i, and an error otherwise.
RationalOf(num, d, exact) ==
    [d EXCEPT !.res = CASE d.res = NotANumber -> NotANumber
                        [] IsIntClass(num) /\ IsIntClass(d.res) -> MakeRational(num, d.res)
                        [] exact = "i" -> Div2(num, d.res)
                        [] OTHER -> Error("CannotMakeRational")]

read_rational(num, b, str, base, exact, srfi) ==
    RationalOf(num, read_integer_or_real(b, str, base, exact, srfi), exact)

\* make_complex: zerop of something that is not a number signals BadNumber.
MakeComplexOf(r, i) == IF i = NotANumber THEN Error("BadNumber") ELSE make_complex(r, i)

\* return (*p) ? STk_false : num1; a signalled error leaves at once.
Trailing(b, p, v) == [res |-> IF IsErr(v) \/ b[p] = NUL THEN v ELSE NotANumber, b |-> b]

Done(r) == [res |-> r.res, b |-> r.b]

\* The imaginary part num2 must be followed by 'i'.
ImagUnit(b, p, num1, num2) ==
    IF b[p] = "i" THEN Trailing(b, p + 1, MakeComplexOf(num1, num2))
    ELSE [res |-> NotANumber, b |-> b]

SecondRational(q, p, num1) ==
    IF IsErr(q.res) \/ q.res = NotANumber THEN Done(q)
    ELSE ImagUnit(q.b, EndOr(q, p), num1, q.res)

SecondComponent(r, num1, base, exact, srfi) ==
    IF r.res = NotANumber THEN Done(r)
    ELSE SecondRational(IF r.b[r.p] = "/"
                        THEN read_rational(r.res, r.b, r.p + 1, base, exact, srfi) ELSE r,
                        r.p, num1)

\* After the first number: "+i", "-i", a second number (the '@' of the
\* polar form is not in the modelled alphabet), or a signed "...i".
ComplexPart(b, p, num1, base, exact, signed, srfi) ==
    CASE b[p] = "+" /\ b[p + 1] = "i" -> Trailing(b, p + 2, MakeComplexOf(num1, Fix(1)))
      [] b[p] = "-" /\ b[p + 1] = "i" -> Trailing(b, p + 2, MakeComplexOf(num1, Fix(-1)))
      [] b[p] \in {"+", "-"} ->
            SecondComponent(read_integer_or_real(b, p, base, exact, srfi), num1, base, exact, srfi)
      [] b[p] = "i" /\ signed -> Trailing(b, p + 1, MakeComplexOf(Fix(0), num1))
      [] OTHER -> Trailing(b, p, num1)

\* num1 = read_rational(...) is not tested against STk_false.
FirstRational(q, p, base, exact, signed, srfi) ==
    IF IsErr(q.res) THEN Done(q)
    ELSE ComplexPart(q.b, EndOr(q, p), q.res, base, exact, signed, srfi)

FirstComponent(r, base, exact, signed, srfi) ==
    IF r.res = NotANumber THEN Done(r)
    ELSE FirstRational(IF r.b[r.p] = "/"
                       THEN read_rational(r.res, r.b, r.p + 1, base, exact, srfi) ELSE r,
                       r.p, base, exact, signed, srfi)

\* The prefixes: at most two, one exactness and one radix.
RadixOf == [b |-> 2, o |-> 8, d |-> 10, x |-> 16]

RECURSIVE ReadPrefixes(_, _, _, _, _, _, _, _)
ReadPrefixes(b, p, i, exact, radix, base, signed, srfi) ==
    CASE i = 2 \/ b[p] # "#" ->
            FirstComponent(read_integer_or_real(b, p, base, exact, srfi), base, exact, signed, srfi)
      [] b[p + 1] \in {"e", "i"} /\ exact = " " ->
            ReadPrefixes(b, p + 2, i + 1, b[p + 1], radix, base, signed, srfi)
      [] b[p + 1] \in DOMAIN RadixOf /\ ~radix ->
            ReadPrefixes(b, p + 2, i + 1, exact, TRUE, RadixOf[b[p + 1]], signed, srfi)
      [] OTHER -> [res |-> NotANumber, b |-> b]

Letters == {"a", "b", "c", "d", "e", "f", "g", "h", "i", "j", "k", "l", "m",
            "n", "o", "p", "q", "r", "s", "t", "u", "v", "w", "x", "y", "z",
            "A", "B", "C", "D", "E", "F", "G", "H", "I", "J", "K", "L", "M",
            "N", "O", "P", "Q", "R", "S", "T", "U", "V", "W", "X", "Y", "Z"}

\* The strings compared by strcmp when str is a sign and a letter.
Specials == {<<"-", "i", "n", "f", ".", "0">>, <<"+", "i", "n", "f", ".", "0">>,
             <<"-", "n", "a", "n", ".", "0">>, <<"+", "n", "a", "n", ".", "0">>,
             <<"+", "i">>, <<"-", "i">>}
SpecialValue(s) ==
    CASE s = <<"-", "i", "n", "f", ".", "0">> -> MInf
      [] s = <<"+", "i", "n", "f", ".", "0">> -> PInf
      [] s[2] = "n"                           -> NaN
      [] s = <<"+", "i">>                     -> Cmake_complex(Fix(0), Fix(1))
      [] s = <<"-", "i">>                     -> Cmake_complex(Fix(0), Fix(-1))

Cstr2number(b, base, srfi) ==
    IF b[1] \in {"-", "+"} /\ b[2] \in Letters /\ CStr(b, 1) \in Specials
    THEN [res |-> SpecialValue(CStr(b, 1)), b |-> b]
    ELSE ReadPrefixes(b, 1, 0, " ", FALSE, base, b[1] \in {"-", "+"}, srfi)

----------------------------------------------------------------------------
(* The state: the characters of one Scheme string (STRING_CHARS, which    *)
(* string->number hands to the reader in place), the use_srfi_169 cell,   *)
(* and the last two calls: the C string read, the radix, the toggle and  *)
(* the result.                                                            *)

VARIABLES chars, use_srfi_169, calls, last, prev

vars == <<chars, use_srfi_169, calls, last, prev>>

NoCall == [text |-> <<>>, radix |-> 0, srfi |-> FALSE, res |-> NotANumber]

Init == /\ chars \in Strings
        /\ use_srfi_169 = TRUE
        /\ calls = 0
        /\ last = NoCall
        /\ prev = NoCall

\* string->number: STk_Cstr2number on the string's own buffer; the
\* string keeps its length and whatever the reader wrote into it.
RecordCall(r, radix) ==
    /\ chars' = SubSeq(r.b, 1, Len(chars))
    /\ last' = [text |-> CStr(chars \o <<NUL>>, 1), radix |-> radix,
                srfi |-> use_srfi_169, res |-> r.res]
    /\ prev' = last
    /\ calls' = calls + 1
    /\ UNCHANGED use_srfi_169

string2number == calls < MaxCalls /\
    \E radix \in Radixes : RecordCall(Cstr2number(chars \o <<NUL>>, radix, use_srfi_169), radix)

\* srfi_169_conv, the setter behind accept-srfi-169-numbers.
srfi_169_conv == \E value \in BOOLEAN :
    /\ use_srfi_169' = value
    /\ UNCHANGED <<chars, calls, last, prev>>

Next == string2number \/ srfi_169_conv

Spec == Init /\ [][Next]_vars

----------------------------------------------------------------------------
(* Properties.                                                            *)

Called(c) == c.radix # 0

\* A reference reading of the real literals of the grammar of spec 4.4 in
\* base 10: [#e|#i] [sign] digits ['#'...] ['.' digits] [e [sign] digits]
\* and [#e|#i] [sign] digits '/' digits, as a fraction n/d and exactness.
Digits(s) == s # <<>> /\ \A k \in DOMAIN s : CharVal(s[k]) < 10 /\ s[k] # "#"
Placeholders(s) == \E m \in 1..Len(s) : Digits(SubSeq(s, 1, m))
                                         /\ \A k \in m + 1..Len(s) : s[k] = "#"
FirstAt(s, c) == IF \E k \in DOMAIN s : s[k] = c THEN CHOOSE k \in DOMAIN s : s[k] = c
                 ELSE Len(s) + 1
ExactnessPrefix(t) == IF Len(t) >= 2 /\ t[1] = "#" /\ t[2] \in {"e", "i"} THEN t[2] ELSE " "
LiteralBody(t) == IF ExactnessPrefix(t) = " " THEN t ELSE SubSeq(t, 3, Len(t))

\* u unsigned; the mantissa m = i['.' f] and the exponent x.
DecimalOf(m, x, hasExp) ==
    LET i == SubSeq(m, 1, FirstAt(m, ".") - 1)
        f == SubSeq(m, FirstAt(m, ".") + 1, Len(m))
    IN  [ok |-> Placeholders(i) /\ (FirstAt(m, ".") > Len(m) \/ Digits(f))
                /\ (~hasExp \/ Digits(Unsigned(x))),
         n |-> DigitsValue(i \o f, 10) * (IF hasExp /\ Atol(x) > 0 THEN 10^Atol(x) ELSE 1),
         d |-> 10^Len(f) * (IF hasExp /\ Atol(x) < 0 THEN 10^(-Atol(x)) ELSE 1),
         inexact |-> FirstAt(m, ".") <= Len(m) \/ hasExp \/ "#" \in ToSet(i)]
RationalOf2(u) ==
    LET i == SubSeq(u, 1, FirstAt(u, "/") - 1)
        j == SubSeq(u, FirstAt(u, "/") + 1, Len(u))
    IN  [ok |-> Digits(i) /\ Digits(j), n |-> DigitsValue(i, 10), d |-> DigitsValue(j, 10),
         inexact |-> FALSE]
UnsignedLiteral(u) ==
    IF FirstAt(u, "/") <= Len(u) THEN RationalOf2(u)
    ELSE DecimalOf(SubSeq(u, 1, FirstAt(u, "e") - 1), SubSeq(u, FirstAt(u, "e") + 1, Len(u)),
                   FirstAt(u, "e") <= Len(u))
RefLiteral(t) == UnsignedLiteral(Unsigned(LiteralBody(t)))

\* The value of a non-complex number as a fraction in lowest terms.
Fraction(n, d) == <<FinReal(n, d).n, FinReal(n, d).d>>
ValueOf(v) == CASE IsIntClass(v)    -> <<v.v, 1>>
                [] v.t = "rational" -> Fraction(v.num.v, v.den.v)
                [] v.t = "real"     -> Fraction(v.n, v.d)

\* string->number of a real literal of the grammar in base 10 is the
\* number it denotes: exact under #e, inexact under #i, and otherwise
\* inexact exactly when it has a '.', a '#' or an exponent (read through
\* the atol, mpz, strtod and compute_exact_real paths and read_rational).
LiteralValue ==
    Called(last) /\ last.radix = 10 /\ RefLiteral(last.text).ok =>
        /\ last.res.t \in {"integer", "bignum", "rational", "real"}
        /\ last.res.t = "real" => last.res.k = "fin"
        /\ ValueOf(last.res) = Fraction(SignOf(LiteralBody(last.text)) * RefLiteral(last.text).n,
                                        RefLiteral(last.text).d)
        /\ Isexactp(last.res) = CASE ExactnessPrefix(last.text) = "e" -> TRUE
                                  [] ExactnessPrefix(last.text) = "i" -> FALSE
                                  [] OTHER -> ~RefLiteral(last.text).inexact

\* Position j lies in the leading prefixes ("#e", "#x", ...) of t.
InPrefix(t, j) == t[1] = "#" /\ (j <= 2 \/ (j <= 4 /\ Len(t) >= 3 /\ t[3] = "#"))

\* The character at j is a digit of the base outside the prefixes.
SeparatorDigit(t, j, base) == digitp(t[j], base) /\ ~InPrefix(t, j)

\* Every '_' stands between two digits.
WellPlaced(t, base) ==
    \A k \in DOMAIN t : t[k] = "_" =>
        1 < k /\ k < Len(t) /\ SeparatorDigit(t, k - 1, base) /\ SeparatorDigit(t, k + 1, base)

\* SRFI-169 digit separators are cosmetic (spec 4.4, glossary): with the
\* toggle on, a string whose underscores all stand between digits reads as
\* the same string without them, and any other underscore, or any
\* underscore with the toggle off, makes it not a number: the strchr and
\* use_srfi_169 tests of read_integer_or_real, and remove_underscores'
\* test of the characters before and after each '_'.  The restore of the
\* saved character after the shift, one place early per underscore (line
\* 1156), shows only with text after a float (".1_1+i", six characters),
\* beyond the strings this is checked on.
UnderscoreTransparent ==
    Called(last) /\ "_" \in ToSet(last.text) =>
        last.res = IF last.srfi /\ WellPlaced(last.text, last.radix)
                   THEN Cstr2number(Remove(last.text, "_") \o <<NUL>>, last.radix, TRUE).res
                   ELSE NotANumber

\* string->number is a pure function of its text, radix and the toggle
\* (spec 5): two calls on the same string with the same radix and toggle
\* return the same result, although the reader writes into the buffer.
ParseRepeatable ==
    Called(prev) /\ last.radix = prev.radix /\ last.srfi = prev.srfi => last.res = prev.res

\* The kinds of a non-complex number.
RealKinds == {"integer", "bignum", "rational", "real"}

====
