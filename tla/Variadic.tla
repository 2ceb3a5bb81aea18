------------------------------ MODULE Variadic ------------------------------
(***************************************************************************)
(* The variadic primitives of src/src/number.c, step by step: a caller    *)
(* calls + * - / max min gcd lcm or one of the COMPARE_NUM comparisons    *)
(* = < > <= >= on an argument vector, the primitive runs the code before  *)
(* its loop (Entry), the iterations of                                     *)
(*     for (res = *argv--; --argc; argv--) ...                             *)
(* (one Step each) and the return after it (Exit), and the call ends with *)
(* a value or the error STk_error signals (a longjmp out of the loop).    *)
(*                                                                         *)
(* argv walks the vector in step with argc: the body that runs when       *)
(* --argc has left argc = m reads argument Len(argv) - m + 1, so the      *)
(* pointer is not a variable of its own.  For the comparisons res is the  *)
(* variable previous.  The two-argument steps (add2, gcd2, do_compare..)  *)
(* are the operators of Tower.                                             *)
(***************************************************************************)
EXTENDS Tower, SequencesExt

CONSTANTS
    Literals,   \* the numbers a call can be given
    MaxArgs     \* the longest argument vector of a call

VARIABLES
    pc,         \* "entry", "loop" or "done"
    op,         \* the primitive called
    argv,       \* its arguments, in order
    argc,       \* the count the loop decrements
    res,        \* the accumulator (previous for the comparisons)
    exactp,     \* max and min: no argument read so far was inexact
    out         \* what the call returned

vars == <<pc, op, argv, argc, res, exactp, out>>

None == [t |-> "none"]
Bool(b) == [t |-> "boolean", b |-> b]

ArithOps == {"+", "*", "-", "/"}
CompareOps == {"=", "<", ">", "<=", ">="}
Ops == ArithOps \cup CompareOps \cup {"max", "min", "gcd", "lcm"}

\* error_not_a_real_number: a complex is not a real number, any other
\* object a bad number.
NotAReal(x) == IF x.t = "complex" THEN Error("NotARealNumber") ELSE Error("BadNumber")

\* The _max_type_ of COMPARE_NUM: STk_complexp (every number) for "=",
\* STk_realp for the orderings.
MaxType(o, x) == o = "=" \/ Realp(x)

\* The early return of COMPARE_NUM: do_compare(previous, x) _operator_ 0.
Fails(o, d) == CASE o = "="  -> d # 0
                 [] o = "<"  -> d >= 0
                 [] o = ">"  -> d <= 0
                 [] o = "<=" -> d > 0
                 [] o = ">=" -> d < 0

\* The two-argument step of the loops of + * - / gcd lcm.
Binary(o, x, y) == CASE o = "+"   -> Add2(x, y)
                     [] o = "*"   -> Mul2(x, y)
                     [] o = "-"   -> Sub2(x, y)
                     [] o = "/"   -> Div2(x, y)
                     [] o = "gcd" -> Gcd2(x, y)
                     [] o = "lcm" -> Lcm2(x, y)

\* argc == 0: + * gcd lcm return their identity, the others signal.
NoArgument(o) == CASE o \in {"+", "gcd"} -> Fix(0)
                   [] o \in {"*", "lcm"} -> Fix(1)
                   [] OTHER              -> Error("AtLeastOne")

\* argc == 1 in + * - / gcd max min (lcm and the comparisons run the loop
\* zero times).
OneArgOps == ArithOps \cup {"gcd", "max", "min"}
OneArgument(o, x) ==
    CASE o = "+"   -> Add2(Fix(0), x)
      [] o = "*"   -> Mul2(Fix(1), x)
      [] o = "-"   -> Sub2(Fix(0), x)
      [] o = "/"   -> Div2(Fix(1), x)
      [] o = "gcd" -> LET g == Gcd2(x, Fix(0)) IN IF IsErr(g) THEN g ELSE Absolute(g)
      [] OTHER     -> IF Realp(x) THEN x ELSE NotAReal(x)

\* The return after the loop.
Final(o, r, e) == CASE o \in ArithOps            -> r
                    [] o \in {"gcd", "lcm"}      -> Absolute(r)
                    [] o \in {"max", "min"}      -> IF ~e /\ Isexactp(r) THEN Exact2Inexact(r) ELSE r
                    [] OTHER                     -> Bool(TRUE)

\* The argument the body reads when argc is about to be decremented.
Current == argv[Len(argv) - argc + 2]

Arguments == SeqOf(Literals, MaxArgs)

\* The caller has called primitive op on the arguments argv.  One call is
\* a behaviour: what the caller does with the result is outside the model.
Init == /\ pc = "entry"
        /\ op \in Ops /\ argv \in Arguments /\ argc = Len(argv)
        /\ res = None /\ exactp = TRUE /\ out = None

Return(v) == pc' = "done" /\ out' = v

\* The code before the loop returns: no argument, one argument, or the
\* first argument of a comparison refused by _max_type_.  (lcm's numberp
\* test of its first argument never fails on numbers.)
EntryReturns ==
    /\ pc = "entry"
    /\ \/ argc = 0 /\ Return(NoArgument(op))
       \/ argc = 1 /\ op \in OneArgOps /\ Return(OneArgument(op, argv[1]))
       \/ /\ argc > 0 /\ op \in CompareOps /\ ~MaxType(op, argv[1])
          /\ Return(NotAReal(argv[1]))
    /\ UNCHANGED <<op, argv, argc, res, exactp>>

\* The loop is set up with res = *argv, and exactp = isexactp(*argv) in
\* max and min.
LoopStart ==
    /\ pc = "entry"
    /\ argc > 1 \/ (argc = 1 /\ op \notin OneArgOps)
    /\ ~(op \in CompareOps /\ ~MaxType(op, argv[1]))
    /\ pc' = "loop" /\ res' = argv[1]
    /\ exactp' = (op \in {"max", "min"} => Isexactp(argv[1]))
    /\ UNCHANGED <<op, argv, argc, out>>

Entry == EntryReturns \/ LoopStart

\* One iteration of + * - / gcd lcm: res = add2(res, *argv) and so on;
\* lcm's body is gcd = gcd2(res, *argv); res = mul2(res, div2(*argv, gcd)).
ArithStep == /\ pc = "loop" /\ op \in ArithOps \cup {"gcd", "lcm"} /\ argc > 1
             /\ LET v == Binary(op, res, Current)
                IN  IF IsErr(v) THEN Return(v) /\ res' = res
                                ELSE pc' = "loop" /\ res' = v /\ out' = out
             /\ argc' = argc - 1
             /\ UNCHANGED <<op, argv, exactp>>

\* One iteration of max and min: the argument must be real?, an inexact
\* one clears exactp, and it replaces res when do_compare says so.
MaxMinStep == /\ pc = "loop" /\ op \in {"max", "min"} /\ argc > 1
              /\ IF ~Realp(Current) THEN Return(NotAReal(Current)) /\ UNCHANGED <<res, exactp>>
                 ELSE /\ pc' = "loop" /\ out' = out
                      /\ exactp' = (exactp /\ Isexactp(Current))
                      /\ res' = IF (op = "max" /\ DoCompare(res, Current) < 0)
                                   \/ (op = "min" /\ DoCompare(res, Current) > 0)
                                THEN Current ELSE res
              /\ argc' = argc - 1
              /\ UNCHANGED <<op, argv>>

\* One iteration of COMPARE_NUM: a later argument that fails _max_type_ is
\* a bad number; the call returns #f as soon as a pair fails; otherwise
\* previous becomes the argument, and argc the count left.
CompareLoop(previous, count) ==
    /\ pc = "loop" /\ op \in CompareOps /\ argc > 1
    /\ CASE ~MaxType(op, Current)              -> Return(Error("BadNumber"))
         [] Fails(op, DoCompare(res, Current)) -> Return(Bool(FALSE))
         [] OTHER                              -> pc' = "loop" /\ out' = out
    /\ res' = previous /\ argc' = count
    /\ UNCHANGED <<op, argv, exactp>>

\* Variant: previous = *argv-- forgotten: every argument is compared with
\* the first.
CompareStepStale == CompareLoop(res, argc - 1)

\* Variant: the loop's --argc forgotten: the body reads the same argument
\* again and again.
CompareStepNoDecrement == CompareLoop(Current, argc)

CompareStep == CompareLoop(Current, argc - 1)

\* --argc reaches 0: the return after the loop.
Exit == /\ pc = "loop" /\ argc = 1
        /\ Return(Final(op, res, exactp))
        /\ argc' = 0
        /\ UNCHANGED <<op, argv, res, exactp>>

Step == ArithStep \/ MaxMinStep \/ CompareStep

Next == Entry \/ Step \/ Exit

\* A primitive runs to its return once called: nothing in it blocks or
\* waits on another thread, so its steps are weakly fair.  A behaviour
\* stops once the call has returned.
Fairness == WF_vars(Entry \/ Step \/ Exit)

Spec == Init /\ [][Next]_vars /\ Fairness

----------------------------------------------------------------------------
(* Properties.                                                            *)

\* The refinement mapping: the call is op on argv, and the returned value
\* is visible once pc is "done".
VS == INSTANCE VariadicSpec WITH
        call <- [op |-> op, args |-> argv],
        result <- IF pc = "done" THEN out ELSE None

\* The loops of + * - / max min gcd lcm and COMPARE_NUM, with their
\* argc == 0 and argc == 1 cases, their early returns and their work after
\* the loop, return what VariadicSpec promises: the n-ary call is the fold
\* of its two-argument step, max and min return an extreme argument with
\* inexact contagion, a comparison holds of every adjacent pair, gcd is the
\* greatest common divisor.
VariadicRefinement == VS!Spec

\* Every call of a variadic primitive returns: the loop's --argc brings it
\* to its exit, or a body returns early.
CallsReturn == pc = "entry" ~> pc = "done"
=============================================================================
