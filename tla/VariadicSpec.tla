---------------------------- MODULE VariadicSpec ----------------------------
(***************************************************************************)
(* What a call of a variadic numeric primitive promises, as one atomic    *)
(* step: a call of + * - / max min gcd lcm = < > <= >= on a list of      *)
(* arguments returns the value R7RS 6.2.6 gives it.                        *)
(*                                                                         *)
(*  - + and * fold their two-argument operation from 0 and 1; - and /     *)
(*    with one argument are 0 - x and 1 / x, with more a left fold;       *)
(*  - max and min return a largest (smallest) argument, inexact when any  *)
(*    argument is;                                                         *)
(*  - the comparisons hold of every adjacent pair;                        *)
(*  - gcd is the greatest common divisor, non-negative, inexact when any  *)
(*    argument is; lcm is the left fold of the two-argument lcm from 1,   *)
(*    made non-negative;                                                   *)
(*  - an error of the two-argument step ends the call with that error, and*)
(*    - / max min and the comparisons with no argument signal an error.   *)
(*                                                                         *)
(* The two-argument steps are the operators of Tower; an argument outside *)
(* a primitive's domain (a non-real number for the orderings, NaN, a      *)
(* non-integer for gcd and lcm) "is an error" in R7RS, and this module    *)
(* leaves the result of such a call open.                                  *)
(***************************************************************************)
EXTENDS Tower, SequencesExt

CONSTANTS
    Literals,   \* the numbers a call can be given
    MaxArgs     \* the longest argument list of a call

VARIABLES
    call,       \* the call: [op, args]
    result      \* what it returned, None while it runs

avars == <<call, result>>

None == [t |-> "none"]
Bool(b) == [t |-> "boolean", b |-> b]

ArithOps == {"+", "*", "-", "/"}
CompareOps == {"=", "<", ">", "<=", ">="}
Ops == ArithOps \cup CompareOps \cup {"max", "min", "gcd", "lcm"}

\* The primitives that need at least one argument.
NeedOne == {"-", "/", "max", "min"} \cup CompareOps

IsNaN(x) == x.t = "real" /\ x.k = "nan"

\* The integer an integer-class value or an integral double stands for.
IntVal(x) == IF x.t = "real" THEN x.n ELSE x.v

\* The two-argument operation a primitive is the fold of.
Operation(o, x, y) == CASE o = "+"   -> Add2(x, y)
                        [] o = "*"   -> Mul2(x, y)
                        [] o = "-"   -> Sub2(x, y)
                        [] o = "/"   -> Div2(x, y)
                        [] o = "lcm" -> Lcm2(x, y)

\* The left fold of o's operation from base over a, stopped by the first
\* error.
Fold(o, base, a) ==
    FoldLeft(LAMBDA acc, x : IF IsErr(acc) THEN acc ELSE Operation(o, acc, x), base, a)

NonNegative(v) == IF IsErr(v) THEN v ELSE Absolute(v)

AllExact(a) == \A i \in DOMAIN a : Isexactp(a[i])

Contagion(a, m) == IF AllExact(a) THEN m ELSE Exact2Inexact(m)

\* The arguments no other argument is above (below), in do_compare's order.
Extremes(a, sgn) == {a[j] : j \in {j \in DOMAIN a :
                       \A i \in DOMAIN a : sgn * DoCompare(a[i], a[j]) <= 0}}

Holds(o, d) == CASE o = "="  -> d = 0
                 [] o = "<"  -> d < 0
                 [] o = ">"  -> d > 0
                 [] o = "<=" -> d <= 0
                 [] o = ">=" -> d >= 0

GcdOf(a) ==
    LET g == FoldLeft(LAMBDA acc, x : GcdN(acc, AbsI(IntVal(x))), 0, a)
    IN  IF AllExact(a) THEN Bignum2Number(g) ELSE FinReal(g, 1)

InDomain(o, a) ==
    CASE o \in CompareOps \ {"="} \/ o \in {"max", "min"} ->
             \A i \in DOMAIN a : Realp(a[i]) /\ ~IsNaN(a[i])
      [] o = "="                -> \A i \in DOMAIN a : ~IsNaN(a[i])
      [] o \in {"gcd", "lcm"}   -> \A i \in DOMAIN a : Integerp(a[i])
      [] OTHER                  -> TRUE

\* The results R7RS allows a call of o on a within the domain.
Meaning(o, a) ==
    CASE o = "+"   -> {Fold("+", Fix(0), a)}
      [] o = "*"   -> {Fold("*", Fix(1), a)}
      [] o = "-"   -> {IF Len(a) = 1 THEN Sub2(Fix(0), a[1]) ELSE Fold("-", a[1], Tail(a))}
      [] o = "/"   -> {IF Len(a) = 1 THEN Div2(Fix(1), a[1]) ELSE Fold("/", a[1], Tail(a))}
      [] o = "max" -> {Contagion(a, m) : m \in Extremes(a, 1)}
      [] o = "min" -> {Contagion(a, m) : m \in Extremes(a, -1)}
      [] o = "gcd" -> {GcdOf(a)}
      [] o = "lcm" -> {NonNegative(Fold("lcm", Fix(1), a))}
      [] OTHER     -> {Bool(\A i \in 1..Len(a) - 1 : Holds(o, DoCompare(a[i], a[i + 1])))}

Promise(o, a, r) ==
    CASE o \in NeedOne /\ a = <<>> -> IsErr(r)
      [] InDomain(o, a)            -> r \in Meaning(o, a)
      [] OTHER                     -> TRUE

\* A caller has called a primitive on at most MaxArgs arguments.
Init == /\ call \in [op : Ops, args : Seq(Literals)]
        /\ Len(call.args) <= MaxArgs
        /\ result = None

\* The call returns, in one step, a result it promises.
Return == /\ result = None
          /\ result' # None
          /\ Promise(call.op, call.args, result')
          /\ UNCHANGED call

Next == Return

\* Return leaves the result of a call outside the domain open, so the
\* module is a property a detailed specification is checked against, not
\* one TLC runs by itself.
Spec == Init /\ [][Next]_avars
=============================================================================
