------------------------------- MODULE Logical ------------------------------
(***************************************************************************)
(* src/lib/logical.stk: bit-and, bit-or, bit-xor, bit-not and bit-shift.  *)
(* The procedures are Scheme code over the primitives of number.c, so     *)
(* every +, *, quotient, modulo, = and zero? below is the Tower operator  *)
(* of that primitive, at the fixnum width of the model.  A Scheme error   *)
(* ends the procedure: an Error value is returned as soon as one appears. *)
(***************************************************************************)
EXTENDS Powers

\* The literal 16 of the source, read as a fixnum when it fits.
Sixteen == Bignum2Number(16)

\* logical:boole-xor and logical:boole-and, row i+1 and column j+1 for
\* the 4-bit digits i and j.
BooleXor ==
    <<<<0, 1, 2, 3, 4, 5, 6, 7, 8, 9, 10, 11, 12, 13, 14, 15>>,
      <<1, 0, 3, 2, 5, 4, 7, 6, 9, 8, 11, 10, 13, 12, 15, 14>>,
      <<2, 3, 0, 1, 6, 7, 4, 5, 10, 11, 8, 9, 14, 15, 12, 13>>,
      <<3, 2, 1, 0, 7, 6, 5, 4, 11, 10, 9, 8, 15, 14, 13, 12>>,
      <<4, 5, 6, 7, 0, 1, 2, 3, 12, 13, 14, 15, 8, 9, 10, 11>>,
      <<5, 4, 7, 6, 1, 0, 3, 2, 13, 12, 15, 14, 9, 8, 11, 10>>,
      <<6, 7, 4, 5, 2, 3, 0, 1, 14, 15, 12, 13, 10, 11, 8, 9>>,
      <<7, 6, 5, 4, 3, 2, 1, 0, 15, 14, 13, 12, 11, 10, 9, 8>>,
      <<8, 9, 10, 11, 12, 13, 14, 15, 0, 1, 2, 3, 4, 5, 6, 7>>,
      <<9, 8, 11, 10, 13, 12, 15, 14, 1, 0, 3, 2, 5, 4, 7, 6>>,
      <<10, 11, 8, 9, 14, 15, 12, 13, 2, 3, 0, 1, 6, 7, 4, 5>>,
      <<11, 10, 9, 8, 15, 14, 13, 12, 3, 2, 1, 0, 7, 6, 5, 4>>,
      <<12, 13, 14, 15, 8, 9, 10, 11, 4, 5, 6, 7, 0, 1, 2, 3>>,
      <<13, 12, 15, 14, 9, 8, 11, 10, 5, 4, 7, 6, 1, 0, 3, 2>>,
      <<14, 15, 12, 13, 10, 11, 8, 9, 6, 7, 4, 5, 2, 3, 0, 1>>,
      <<15, 14, 13, 12, 11, 10, 9, 8, 7, 6, 5, 4, 3, 2, 1, 0>>>>

BooleAnd ==
    <<<<0, 0, 0, 0, 0, 0, 0, 0, 0, 0, 0, 0, 0, 0, 0, 0>>,
      <<0, 1, 0, 1, 0, 1, 0, 1, 0, 1, 0, 1, 0, 1, 0, 1>>,
      <<0, 0, 2, 2, 0, 0, 2, 2, 0, 0, 2, 2, 0, 0, 2, 2>>,
      <<0, 1, 2, 3, 0, 1, 2, 3, 0, 1, 2, 3, 0, 1, 2, 3>>,
      <<0, 0, 0, 0, 4, 4, 4, 4, 0, 0, 0, 0, 4, 4, 4, 4>>,
      <<0, 1, 0, 1, 4, 5, 4, 5, 0, 1, 0, 1, 4, 5, 4, 5>>,
      <<0, 0, 2, 2, 4, 4, 6, 6, 0, 0, 2, 2, 4, 4, 6, 6>>,
      <<0, 1, 2, 3, 4, 5, 6, 7, 0, 1, 2, 3, 4, 5, 6, 7>>,
      <<0, 0, 0, 0, 0, 0, 0, 0, 8, 8, 8, 8, 8, 8, 8, 8>>,
      <<0, 1, 0, 1, 0, 1, 0, 1, 8, 9, 8, 9, 8, 9, 8, 9>>,
      <<0, 0, 2, 2, 0, 0, 2, 2, 8, 8, 10, 10, 8, 8, 10, 10>>,
      <<0, 1, 2, 3, 0, 1, 2, 3, 8, 9, 10, 11, 8, 9, 10, 11>>,
      <<0, 0, 0, 0, 4, 4, 4, 4, 8, 8, 8, 8, 12, 12, 12, 12>>,
      <<0, 1, 0, 1, 4, 5, 4, 5, 8, 9, 8, 9, 12, 13, 12, 13>>,
      <<0, 0, 2, 2, 4, 4, 6, 6, 8, 8, 10, 10, 12, 12, 14, 14>>,
      <<0, 1, 2, 3, 4, 5, 6, 7, 8, 9, 10, 11, 12, 13, 14, 15>>>>

\* (vector-ref (vector-ref table i) j): the indices must be fixnums in
\* 0..15 (a bignum or a real index is an error).
VectorRef2(tbl, i, j) ==
    CASE IsErr(i) -> i
      [] IsErr(j) -> j
      [] i.t = "integer" /\ j.t = "integer" /\ i.v \in 0..15 /\ j.v \in 0..15
                  -> Fix(tbl[i.v + 1][j.v + 1])
      [] OTHER    -> Error("BadIndex")

\* The digit of the result from the digits m1 of n1 and m2 of n2: and and
\* xor read their table, or reads boole-and at 15 - m1, 15 - m2 and takes
\* 15 minus that.
Fifteen(m) == IF m.t = "integer" THEN Fix(15 - m.v) ELSE m
BooleDigit(op, m1, m2) ==
    CASE op = "and" -> VectorRef2(BooleAnd, m1, m2)
      [] op = "xor" -> VectorRef2(BooleXor, m1, m2)
      [] OTHER      -> LET d == VectorRef2(BooleAnd, Fifteen(m1), Fifteen(m2))
                       IN  IF IsErr(d) THEN d ELSE Fix(15 - d.v)

\* Variant: an arithmetic shift that forgets the negative case.
Ash4Truncating(x) == IF x.t = "complex" THEN Error("NotARealNumber")
                     ELSE Quotient(x, Sixteen)

\* logical:ash-4, the arithmetic shift right by four bits: quotient
\* truncates, so a negative x is shifted as -1 + (1 + x) quotient 16.
Ash4OfNegative(q) == IF IsErr(q) THEN q ELSE Add2(Fix(-1), q)
Ash4(x) == CASE x.t = "complex" -> Error("NotARealNumber")
             [] Negativep(x)    -> Ash4OfNegative(Quotient(Add2(Fix(1), x), Sixteen))
             [] OTHER           -> Quotient(x, Sixteen)

\* acc + digit * scl, unless the digit is an error.
AddDigit(d, scl, acc) == IF IsErr(d) THEN d ELSE Add2(Mul2(d, scl), acc)

\* The four arguments of the recursive call, the first error among them
\* ending the procedure.
FirstErr(a) == CHOOSE k \in 1..4 : IsErr(a[k]) /\ \A j \in 1..(k - 1) : ~IsErr(a[j])

\* The letrec procedures lgand, lgior and lgxor (op "and", "or", "xor"):
\* they stop when n1 = n2 or one of them is zero, and otherwise combine
\* the low digits, shift both right by four bits and scale by 16.
RECURSIVE Lg(_, _, _, _, _)
LgRecur(op, a) == IF \E k \in 1..4 : IsErr(a[k]) THEN a[FirstErr(a)]
                  ELSE Lg(op, a[1], a[2], a[3], a[4])
Lg(op, n2, n1, scl, acc) ==
    CASE DoCompare(n1, n2) = 0 -> IF op = "xor" THEN acc ELSE Add2(acc, Mul2(scl, n1))
      [] Zerop(n2)             -> IF op = "and" THEN acc ELSE Add2(acc, Mul2(scl, n1))
      [] Zerop(n1)             -> IF op = "and" THEN acc ELSE Add2(acc, Mul2(scl, n2))
      [] OTHER ->
            LgRecur(op, <<Ash4(n2), Ash4(n1), Mul2(Sixteen, scl),
                          AddDigit(BooleDigit(op, Modulo(n1, Sixteen), Modulo(n2, Sixteen)),
                                   scl, acc)>>)

\* logical:reduce with two arguments: res starts at ident (-1 for and, 0
\* for or and xor) and becomes (op4 res arg 1 0) for each argument.
Ident(op) == IF op = "and" THEN Fix(-1) ELSE Fix(0)
LgThen(op, res, y) == IF IsErr(res) THEN res ELSE Lg(op, res, y, Fix(1), Fix(0))
Reduce(op, x, y) == LgThen(op, Lg(op, Ident(op), x, Fix(1), Fix(0)), y)

BitAnd(x, y) == Reduce("and", x, y)
BitOr(x, y)  == Reduce("or", x, y)
BitXor(x, y) == Reduce("xor", x, y)

\* bit-not: (- -1 n).
BitNot(n) == Sub2(Fix(-1), n)

\* bit-shift: a left shift multiplies by (expt 2 m); a right shift divides
\* by k = (expt 2 (- m)), as -1 + (1 + n) quotient k when n is negative.
ShiftRight(n, k) == CASE n.t = "complex" -> Error("NotARealNumber")
                      [] Negativep(n)    -> Ash4OfNegative(Quotient(Add2(Fix(1), n), k))
                      [] OTHER           -> Quotient(n, k)
BitShift(n, m) == IF Negativep(m) THEN ShiftRight(n, Expt(Fix(2), Sub2(Fix(0), m)))
                  ELSE Mul2(Expt(Fix(2), m), n)

=============================================================================
