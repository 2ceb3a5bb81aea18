# TLA+ models of the STklos numeric tower

This directory holds TLA+ models of `src/src/number.c`, the numeric tower
of STklos. That file covers:

- the tagged numeric values;
- the coercion between them;
- the rational simplifier;
- the arithmetic and comparison primitives;
- the parser, the printer, the transcendental functions, and the bits of
  doubles (decode/encode and NaN payloads).

The models are checked with TLC. Every definition is translated from the C
source; `PROJECT.json` maps each definition to the lines it models.

## The system

In `number.c`, a number is an `SCM` value of one of five types:

- `tc_integer`: a fixnum, an immediate value made by `MAKE_INT`.
- `tc_bignum`: a GMP `mpz_t`.
- `tc_rational`: two integer-class parts.
- `tc_real`: a C double.
- `tc_complex`: two scalar parts.

The parts interact as follows:

| part | code | role |
|------|------|------|
| Representation | `Cmake_complex`, `make_complex`, `Cmake_rational`, `long2integer`, `bignum2number`, `double2integer`, `double2rational`, `real2integer` (lines 298-590) | builds values and keeps them canonical: bignums demoted when they fit, complexes collapsed when the imaginary part is zero |
| Coercion | `convert` (673-733) | raises the lower-ranked operand of a binary operation to the type of the other |
| Rational simplifier | `make_rational` (330-356), `gcd2`, `int_quotient` | moves the sign into the numerator, reduces by the gcd, and collapses `n/1` |
| Arithmetic core | `add2`, `sub2`, `mul2`, `div2` (1830-2095), `do_compare` (864-921), `integer_division` (2199-2248), `gcd2` and `lcm` (2298-2394), `abs` | mutually recursive: `add2` on rationals calls `mul2` and `make_rational`; `make_rational` calls `mul2`, `gcd2` and `int_quotient`; complex `div2` calls all four |
| Primitives | `DEFINE_PRIMITIVE` for `+ - * / = < > <= >= max min quotient remainder modulo gcd lcm abs real-part imag-part make-rectangular exact->inexact inexact->exact` | fold the core over the argument list and check argument types; the variadic ones loop `for (res = *argv--; --argc; argv--)` |
| Predicates and rounding | `zerop`, `positivep`, `negativep`, `number_parity`, `finitep`, `infinitep`, `nan?`, `numerator`, `denominator`, `floor`, `ceiling`, `truncate`, `round` (1558-1724, 2413-2561) | classify a number; take a rational apart; round a rational through `STk_quotient` |
| Parser | `string->number` (3499-3520), `Cstr2number` (1182-1266), `read_rational`, `read_integer_or_real` (1053-1159), `remove_underscores`, `compute_exact_real` (944-1050), `srfi-169` toggle (283-291) | reads a number from the characters of a Scheme string, writing into that string as it goes |
| Printer | `number->string` (3469-3481), `number2Cstr` (605-668), `STk_double2Cstr` (592-602), `print_bignum`/`print_rational`/`print_complex` (364-390), `real-precision` (255-264) | turns a number into text: digit loops, `mpz_get_str`, `%.*g` at the global `real_precision` |
| Powers | `my_sqrt_exact`, `sqrt` (3130-3172), `exact_exponent_expt`, `expt` (3185-3272) | exact roots and powers, with a libm fallback |
| `lib/logical.stk` | `bit-and`, `bit-or`, `bit-xor`, `bit-not`, `bit-shift` | Scheme code over the primitives above, working on base-16 digits |
| Float bits | `make_nan` (181-200), `%make-nan` and the NaN accessors (3732-3812), `decode`, `decode-float`, `encode-float`, the float limits (3540-3701), `exact->inexact` with `bignum2double`, `rational2double`, `bigrational2double` (448-574, 3398-3411) | read and build the bit pattern of a double; convert exact numbers to doubles |
| Transcendental functions | `my_exp`, `my_log`, `my_sin` ... `my_atanh` (2566-3117), `make_polar` (313-316), `magnitude`, `angle`, `make-polar` (3308-3382) | dispatch on the argument's type, take an exact shortcut at 0 or 1, call libm on a double, or go through identities in `exp`, `log` and `sqrt` for complex values |

What is hard about this code:

1. **Fixnum width.** Fixnum arithmetic runs in C `long`s, and `MAKE_INT`
   silently drops the top bits of a long that does not fit. Overflow is
   detected by hand in each operation:
   - `LONG_FITS_INTEGER` in `add2`/`sub2`;
   - dividing back in `mul2`;
   - no check at all in `integer_division` and `gcd2_fixnum`.
2. **Pointer tests.** `make_rational` decides whether to collapse by
   comparing pointers (`d == MAKE_INT(1)`, `d == gcd`). These comparisons
   are only true for fixnums, while `convert` may have promoted the operands
   to bignums.
3. **NaN and infinities.** Comparison goes through C doubles, where NaN is
   unordered.
4. **Errors are `longjmp`s.** An error leaves the computation wherever it
   was. Two paths abort the whole process instead:
   - a SIGFPE from `mpz_init_set_d` on an infinity;
   - a C division by zero.
5. **Non-canonical values spread.** A value that is not canonical (for
   example the complex `0+0i`) is accepted by later calls and travels on,
   so one call's bug shows up in a later call. Testing a single call rarely
   reaches this; sequences of calls do.
6. **The parser writes into its input.** `Cstr2number` is given the
   characters of the Scheme string itself. It puts `'\0'` after each
   component and restores it, rewrites `#` and the exponent markers, shifts
   the text left over each underscore, and `compute_exact_real` cuts the
   string at the decimal point and the exponent and never restores them.
   Pointers computed before a shift are used after it.

## Modules

### `Tower.tla`: values and pure operators

There are no variables. Each C function is one operator, named after the
function: `add2`, `mul2`, `make_rational`, `Convert`, `IntegerDivision`,
`Gcd2`, `DoCompare`, and so on.

Values are records with a field `t`, the `TYPEOF` of the value:

- `Fix(n)` and `Big(n)` are the two integer types.
- `Cmake_rational(n, d)` is a rational.
- `Flo(k, n, d)` is a real: `k` is `"fin"`, `"pinf"`, `"minf"` or `"nan"`,
  and a finite real is the exact fraction `n/d`.
- `Cmake_complex(re, im)` is a complex.
- `Error(kind)` stands for a Scheme error signalled by `STk_error`.

Data abstractions:

- **Widths.** A fixnum is `FixBits` bits wide and a C long is `FixBits+2`
  bits wide. `MakeInt` wraps its argument into the fixnum width, the way
  `MAKE_INT` keeps only the low bits.
- **Bignums** are unbounded integers.
- **Doubles** are exact rationals plus the three IEEE specials. Rounding
  and signed zero are not modelled.
- **Allocation.** `SCM ==` pointer identity is `SameObject`: only two equal
  fixnums are the same object, because every other value is a fresh heap
  cell.
- **GMP.** The constant `BigLib` picks the library: `"gmp"` raises SIGFPE in
  `mpz_init_set_d` on an infinity, while the bundled `"mini"` returns 0.

The mutual recursion of `add2`, `sub2`, `mul2`, `div2` and `make_rational`
is written as follows:

- The RECURSIVE operator `Arith` is declared first, and each body calls
  it to perform the others.
- `Arith` ties the bodies together, calling `Convert` once and
  dispatching on the operation.
- The bodies receive their operands already converted, as the C code does
  after `switch (convert(&o1, &o2))`.
- `Arith(op, x, y)` is `ArithOf(op, x, y)` with the operands bound once as
  a pair (`CHOOSE v \in {ArithOf(op, p[1], p[2]) : p \in {<<x, y>>}} : TRUE`),
  and `MakeRationalPositive` binds `n`, `d` and their gcd the same way.
  The value is the same; the binding matters to TLC, which does not cache
  operator arguments when it evaluates `ENABLED` (for the fairness of
  `Variadic`), and would otherwise evaluate the nested calls of a
  rational or complex operation again at every use.

Values computed once in the C code and used several times are passed as
operator arguments, not LET definitions:

- the converted pair;
- `gcd` in `make_rational`;
- the quotient/remainder pair of `integer_division`;
- the difference in `general_diff`.

### `NumericCalls.tla`: a program as a sequence of calls

The state is:

- `acc`: the value of the last call that did not signal.
- `last`: the last call, with its primitive, operands and result.
- `calls`: how many calls have been made.

There is one action per primitive, in two groups:

- `ArithNext`, the primitives that compute: `Plus`, `Minus`, `Times`,
  `Divide`, `QuotientCall`, `RemainderCall`, `ModuloCall`, `GcdCall`,
  `LcmCall`, `NumEq`, `NumLt`, `NumGt`, `NumLe`, `NumGe`, `MaxCall`,
  `MinCall`, `AbsCall`, `ExToInex`, `InexToExCall`, `MakeRectangularCall`,
  `RealPartCall`, `ImagPartCall`.
- `RoundingNext`, the predicates, the accessors of a rational and the
  rounding primitives: `ZeroCall`, `PositiveCall`, `NegativeCall`,
  `OddCall`, `EvenCall`, `FiniteCall`, `InfiniteCall`, `NanCall`,
  `NumeratorCall`, `DenominatorCall`, `FloorCall`, `CeilingCall`,
  `TruncateCall`, `RoundCall`.
- `TranscendentalNext`, the transcendental library on one argument:
  `TranscendentalCall` (`exp`, `log`, the six trigonometric and six
  hyperbolic functions), `LogBaseCall` (`(log x b)`), `Atan2Call`
  (`(atan y x)`), `MakePolarCall`, `SqrtCall` and `SqrtComplexCall`.
- `ExptGeneralCall`, `(expt acc y)` with an exponent `y` of any type from
  `Exponents`, through the primitive (`ExptPrim`) and `my_expt`. It has a
  specification of its own, `ExptSpec`: checked together with
  `TranscendentalNext`, the coverage report of the two runs' shared
  recursive operators takes TLC several minutes.

`MagnitudeCall`, `AngleCall`, the type predicates and `integer-length`
apply their primitive to `acc` alone.

`numerator` and `denominator` return a rational's parts as stored, so
`CanonicalValues` exempts their results. Those parts may be bignums that
fit a fixnum, left by the same pointer tests of `make_rational` that the
`round` run shows. The bit operations, `expt`
and `sqrt` are a third group, `LogicalNext`, described under `Logical`.

Each action:

- applies the primitive to `acc` and one of the program's `Literals`, in
  either order;
- records the call in `last`;
- keeps the result as `acc` unless it is an error.

This is the left fold of the variadic primitives, `res = add2(res, *argv)`,
extended across primitives. A result of `Error("Abort")` ends the program
(`Halted`), because the process is gone.

### `MCNumericCalls.tla`

This module sets the constants:

- `MCFixBits = 3`, so fixnums are -4..3 and longs are -16..15, and
  `AllLiterals`, fifteen literals:
  - fixnums -4, -1, 0, 2, 3 (the extreme fixnum, zero, and both signs);
  - the bignum 5;
  - the rationals 1/2 and -2/3;
  - the reals 0.5, -2.0, +inf.0, -inf.0 and +nan.0;
  - the complexes 1+i and 1+1.5i.
- `MCFixBitsWide = 6` (fixnums -32..31), where 16 and the base-16 digits
  0..15 are fixnums as in the real build, and `logical.stk`'s digit
  recursion meets both fixnums and bignums. `WideLiterals` are -32, -1,
  0, 31, the bignums -40 and 100, -2/3, 2.5, +inf.0, +nan.0 and 1+i.
- `ShiftCounts` -3, -1, 2, 5, and the exponents -2, -1, 0, 2 (not 3: the
  `calls` run squares results, and 100^3 squared leaves TLC's 32-bit
  integers).

### `Variadic.tla`: the loops of the variadic primitives

`+ * - / max min gcd lcm` and the `COMPARE_NUM` comparisons `= < > <= >=`
(lines 1497-1526, 1749-1800, 1881-2107, 2369-2394) run one call step by
step. The state is the program counter `pc` (`"entry"`, `"loop"`,
`"done"`), the primitive `op`, its arguments `argv`, the loop counter
`argc`, the accumulator `res` (`previous` in `COMPARE_NUM`), `exactp` of
`max`/`min`, and `out`, the value returned. The argument pointer walks
`argv` in step with `argc`, so `Current` is `argv[Len(argv) - argc + 2]`.

- `Init`: the call, any primitive on up to `MaxArgs` of `Literals`.
- `EntryReturns`: the returns before the loop: `argc == 0` (an identity or
  `error_at_least_1`), `argc == 1` (`add2(0, x)`, `absolute(gcd2(x, 0))`,
  `max` returning a real `x` ...), and a first argument of a comparison
  refused by `_max_type_` (`error_not_a_real_number`).
- `LoopStart`: `res = *argv`, and `exactp = isexactp(*argv)` in `max`/`min`.
  `lcm` and the comparisons with one argument run the loop zero times.
- `ArithStep`, `MaxMinStep`, `CompareStep`: one iteration, ending the call
  with the error a step signals (the `longjmp` of `STk_error`) or with #f
  at the first failing pair.
- `Exit`: `--argc` reached 0; the work after the loop (`absolute` for
  `gcd`/`lcm`, `exact2inexact` for `max`/`min`, #t for a comparison).

### `VariadicSpec.tla`: what a variadic call promises

One atomic `Return` step gives the call's result, related to the arguments
by `Promise`: `+` and `*` are left folds of `add2` and `mul2` from 0 and 1;
`-` and `/` are `0 - x` and `1 / x` with one argument and left folds
otherwise; `max` and `min` return an argument no other is above (below)
in `do_compare`'s order, inexact when any argument is; a comparison holds
of every adjacent pair; `gcd` is the gcd of the integers' absolute values,
inexact when any argument is; `lcm` is the fold of the two-argument
`lcm`, made non-negative; `- / max min` and the comparisons signal with
no argument. As R7RS says of arguments outside a primitive's domain ("it
is an error"), the spec leaves the result of such a call open: a non-real
or NaN argument of an ordering, `max` or `min`, a NaN argument of `=`, a
non-integer argument of `gcd` or `lcm`. Its `Spec` is used as a property.

### `MCVariadic.tla`

Fixnums of 3 bits, and `VariadicLiterals`: -4 (the extreme fixnum), 0, 3,
the bignum 5, 1/2, -2.0, +inf.0, +nan.0 and 1+i, with `MaxArgs = 3`.

### `Parser.tla`: `string->number`

The buffer is a sequence of one-character strings ending with `NUL`
(`""`); a pointer is an index, and `0` stands for `NULL`. Every reader
function returns a record `[res, b, p]`: its result, the buffer after
its writes, and where it set `*end` (`0` when it did not). The library
calls are modelled by what they do on the characters: `atol`,
`mpz_set_str` (an optional `-`, then digits), `strtod` (exact value,
no rounding) and `digitp`.

- `remove_underscores` is the recursive `RemoveUnderscoresFrom`; each
  accepted underscore is a `ShiftLeft` of the buffer.
- `read_integer_or_real` is split at the points where the C code
  stops scanning: `ReadUnsigned` (the leading `#`/`_` test),
  `MantissaPointers` (`p1..p4`), `ReadExponent`, `PatchEnd` (the `'\0'`
  patch and the underscore check), `ReadValue` (integer, other base, or
  float after `ReplaceMarkers`) and `Finish` (restore the saved
  character).
- `compute_exact_real` patches `'\0'` at `p1` and `p3` and reads the
  integer, fraction and exponent parts with `mpz`.
- `read_rational`, `Cstr2number` (prefixes, special values, complex
  forms `a+bi`, `+i`, `-i`, `bi`) follow the C code branch by branch.

The state:

| variable | code |
|----------|------|
| `chars` | `STRING_CHARS(str)` of the one string the program parses |
| `use_srfi_169` | the static `use_srfi_169` flag |
| `calls`, `last`, `prev` | the calls so far, and the text, radix, toggle and result of the last two |

Actions: `string2number` (the primitive, with a radix from `Radixes`;
`chars'` is what `Cstr2number` left in the buffer) and
`srfi_169_conv` (the `(%srfi-169-conv b)` setter).

`MCParser.tla` sets `FixBits = 5` and gives the sets of initial strings
of each run, from small alphabets: `1 # e + - . / _ i`, plus the special
values `+inf.0` and `-nan.0`. Strings whose exponent has more than one
digit are left out (`ShortExponents`), so every value fits TLC's integers.

### `Powers.tla`: `sqrt` and `expt`

`my_sqrt_exact` takes the root of a fixnum through a double and tests
`(int) d * (int) d == i` in a C `int`, half as wide as a long (`CInt`);
a bignum goes through `mpz_sqrt` (`ISqrt`). A root that is not rational
is abstracted to a non-integer real: the properties only tell whether it
is an integer. `ExactExponentExpt` is `exact_exponent_expt`: `mpz_pow_ui`
on integers, the parts of a rational through `make_rational`, and the
square-and-multiply loop `ExptLoop` for a real or complex base. Its
`tc_bignum` case uses an `mpz_t` that was never initialized, so
`ExptOutcomes` gives the call both the power and an abort.

### `Transcendental.tla`: the transcendental library

Each of `my_exp`, `my_log`, `my_sin`, `my_cos`, `my_tan`, `my_asin`,
`my_acos`, `my_atan`, `my_atan2`, `my_sinh`, `my_cosh`, `my_tanh`,
`my_asinh`, `my_acosh`, `my_atanh`, `make_polar`, `magnitude` and `angle`
is an operator with the same `switch` on the representation as the C
function: the exact shortcut (`(exp 0)` is the exact 1, `(sin 0)` the
exact 0, the hyperbolic functions test an exact 0 with `fpclassify` or
`MAKE_INT(0)`), the range tests that send `asin`, `acos`, `acosh` and
`atanh` to their complex identities, and the errors (`log` of an exact 0,
`atanh` of 1 or -1). The complex cases keep the code's identities:
`make_polar(exp(re), im)`, `log|z| + i angle(z)`, `(e^iz + e^-iz)/2`,
`-i log(iz + sqrt(1 - z^2))` and the others, so `exp`, `cos`, `sin` and
`make_polar` are one `RECURSIVE` group.

The C library itself is `Libm(f, x)`: NaN in, NaN out; the C99 values at
the infinities; `log` is -inf.0 at 0.0 and NaN below it; `exp`, `cos`
and `cosh` are 1.0 at 0.0. Any other libm result is irrational, and
becomes +-1/3 with the sign of the true result (the argument's for an odd
function, that of x-1 for `log`). `MY_PI` is 22/7. The properties tell
exact from inexact, real from complex and finite from infinite, never the
digits, so the stand-in loses nothing they state.

`MyExpt` is `my_expt` with every branch: the exact power for an exact
integer exponent; for a rational or real one, the inexact 1 at a zero
exponent, the base itself (an exact 0) or 0.0 at a zero base, `pow` when
both are doubles (`Pow`, with C99's values at the infinities, NaN for a
negative base and a non-integral exponent), and for an exact base and an
integral double exponent the exact power made inexact (`InexactPower`);
then, for a complex exponent or by falling through, the zero-base rule
and `exp(log(x) * y)`. `ExptPrim` is the `expt` primitive: a negative
non-complex exponent is negated and the result inverted (`ExptInverse`).
`ExptPrimOutcomes` adds the abort of the uninitialized `mpz_t` where the
exact power of a bignum is reached.

### `Logical.tla`: `lib/logical.stk`

The bit operations are Scheme procedures over the primitives of
`number.c`, so each `+`, `quotient`, `modulo`, `zero?` in them is the
`Tower` operator. `Lg` is the digit recursion shared by `lgand`, `lgior`
and `lgxor`: it splits both arguments into a base-16 digit
(`modulo n 16`) and the rest (`logical:ash-4`), looks the digit pair up
in the tables `logical:boole-and` / `logical:boole-xor`, and stops when
both arguments are 0 or -1. An error value ends the procedure, as the
Scheme error would. `logical.stk` is not under `src/src`, but it is
modelled from its own source.

`NumericCalls` adds `BitAndCall`, `BitOrCall`, `BitXorCall`,
`BitNotCall`, `BitShiftCall` (shift counts from `Shifts`), `ExptCall`
(exponents from `Exponents`) and `SqrtCall` as `LogicalNext`;
`Spec` takes all four groups, `ArithSpec` the first three, `CoreSpec`
the first two, `LogicalSpec` the third and `TranscendentalSpec` the
fourth.

### `Printer.tla`: `number->string`, `write` and `real-precision`

The text is a sequence of characters, as in `Parser`, so printing and
reading work on the one Scheme string `chars`.

- `IntegerText` is the digit loop of the `tc_integer` case (and
  `mpz_get_str`): a `-`, then the digits, `a`..`f` above 9.
- `STk_double2Cstr` is `%.*g` at `real_precision`: `Significand`
  rounds to `prec` digits with ties to even (`RoundDiv`), `GText`
  chooses style f when the exponent X has `-4 <= X < prec` and style e
  otherwise (two exponent digits at least), and trailing zeros and the
  point are dropped. Then `".0"` is appended when there is neither `.`
  nor `e`, and `inf.0`/`nan.0` get a `+`. glibc prints the sign bit of
  a NaN, which depends on the operation that made it, so a NaN prints as
  `+nan.0` or `-nan.0` (`NanTexts`).
- `number2Cstr` prints a complex as `s1`, a `+` unless `s2` starts with
  `-`, `s2`, `i`; a real in a base other than 10 is an error (`BadBase`).
- `WriteTexts` is `write`'s `print_complex`: a `+` when `positivep`
  holds of the imaginary part.

State: `real_precision` (the static cell, `REAL_FORMAT_SIZE` initially)
and `printed`, the last print: primitive, number, radix, precision, error
flag and text. Actions: `number2string` (the radix from `Radixes`; the
text becomes `chars`, as `STk_makestring` makes a new string),
`write_number` and `real_precision_conv` (a value outside ]0 50] is
refused and leaves the cell alone), beside `Parser`'s `string2number` and
`srfi_169_conv`.

`MCPrinter.tla` sets the precision to 3 digits, the settable precisions to
1, 0 and 51, and decimal exponents to at most 5 (`MaxExponent`). Its
eleven `PrintNumbers` are `INT_MIN_VAL`, a bignum, a rational, an exact
complex, reals that round at 1 and at 3 digits, a tie (2.5), reals printed
in style e with a positive and a negative exponent (2500 at 3 digits,
1e-05), `+inf.0`, `+nan.0`, and an inexact complex. `PrintFirstSpec` takes the
printing steps only before the first read, and from the empty string: a
printed text is a new string, so the string held before does not matter,
and every other string is read by the steps that do not print. Without
this the run reaches 11 million states.

### `FloatBits.tla`: the bits of a double

A double is its bit pattern, an integer of `1 + ExpBits + FracBits` bits
laid out as binary64 (sign, biased exponent, fraction). binary64 is
`ExpBits = 11`, `FracBits = 52`; the checks narrow it. `DBL_MANT_DIG`,
`DBL_MIN_EXP`, `DBL_MAX_EXP`, `sign_mask`, `quiet_mask` and `payload_mask`
are derived from the two widths as `<float.h>` and lines 177-179 define
them. A double in a Scheme value is `[t |-> "real", bits |-> u]`;
exact numbers are those of `Tower`.

- `make_nan` starts from the quiet pattern `0x7ff8...` or the signaling
  pattern `0x7ff4...` and or-s in the sign and the payload (with
  `Bitwise`). `MakeNanPrimitive` refuses a payload that is not a fixnum
  or is above `payload_mask` as an unsigned value.
- `nan_negativep`, `nan_quietp`, `nan_payload` and `nan_equalp` mask the
  bits after `verify_NaN`.
- `decode` returns the sentinel triples for NaN and infinities, `(0 0
  sign)` for zeros, and otherwise takes the exponent from `Frexp` for a
  normal double and `DBL_MIN_EXP` for a subnormal one (`DecodeExponent`),
  less `DBL_MANT_DIG`, and the significand from `Ldexp`.
- `encode_float` runs the checks of the primitive in the code's order and
  returns the exact `sign * significand * 2^exponent` with `Mul2` and
  `Expt` of `Powers`.
- `Exact2Double` is `exact->inexact` for a non-complex exact number.
  `LongToDouble` (a C cast) and `bignum2double` (`atof` of the decimal
  digits) round to nearest. `rational2double` divides the two casts for
  fixnum parts, each rounding once. `bigrational2double` transcribes the
  mini-gmp algorithm: `SizeInBase2`, `ee`, the truncating `CDiv`, the
  truncating `MpzGetD`, and `ee` multiplications by `2^-LimbBits`.
  Rounding (`RoundNearest`, `RoundTruncate`) finds the binade of `n/d`,
  the quantum of the doubles in it, rounds `n/d` to a multiple of it, and
  writes the pattern; the carry into the next binade and the overflow to
  `+inf` need no case.

State: `last` and `prev`, the last two calls (primitive, arguments,
result), and `calls`. One action per primitive (`MakeNanCall`,
`NanNegativeCall`, `NanQuietCall`, `NanPayloadCall`, `NanEqualCall`,
`DecodeFloatCall`, `EncodeFloatCall`, `FloatMaxSignifCall`,
`FloatMinExpCall`, `FloatMaxExpCall`, `ExToInexCall`). The arguments are
the literals of the run and the number the last call returned; the
triple `decode-float` returned is offered to `encode-float`.

The reference of the rounding properties, `NearestDouble`, is written
independently of `RoundNearest`. It is the pattern whose midpoints with
its two neighbours bracket `n/d`, a midpoint going to the even pattern.

`MCFloatBits.tla` uses 5 exponent bits and 4 fraction bits (a 10-bit
format: `DBL_MANT_DIG = 5`, exponents -18..11 in `encode-float`, three
payload bits), 4-bit limbs and 6-bit fixnums, which hold every
significand and exponent of the format as 62-bit fixnums hold those of
binary64. `MCDoubles` has both zeros, a subnormal, the smallest normal,
two normals, the largest finite, both infinities and three NaNs, one
of them a quiet NaN with bit 50 set too, as arithmetic leaves a
signaling NaN.

## Runs

| run | cfg | expect | what it shows |
|-----|-----|--------|---------------|
| calls | `MCNumericCalls_calls.cfg` | pass | Every two-call program of `ArithSpec` (every primitive but the transcendental ones) over `WideLiterals` at 6 bits: an integer, alone or in a complex, is a fixnum exactly when it fits, and a rational has a positive denominator coprime to its numerator that is not the fixnum 1 (`CanonicalValues`; bignum parts and `0+0i`, which the code's pointer tests leave, are the `round` and `divzero` runs); `+ - *` on exact values give the mathematical result despite fixnum overflow (`ExactArithmetic`); `= < > <= >=` agree with the order (`CompareAgreesWithOrder`); `remainder` and `modulo` obey their definitions (`RemainderModuloLaw`); `max`/`min` pick the right argument, inexact when either is (`MaxMinLaw`); `floor`, `ceiling`, `truncate` of a finite real give the integer below, above, towards zero (`RoundingLaw`); the bit operations agree with two's complement computed by the `Bitwise` module (`BitwiseLaw`); `expt` with an exact integer exponent is the exact power (`ExptLaw`); `sqrt` returns a root, the right one when it is exact (`SqrtRoot`); `number?` ... `inexact?` and `integer?` answer as the documentation says, in the hierarchy integer, rational, real, complex, of every value two calls compute (`TypePredicatesLaw`); `magnitude` is a non-negative real, exact for an exact argument, whose square is re^2 + im^2 (`MagnitudeLaw`). |
| divzero | `MCNumericCalls_divzero.cfg` | violation | `(/ 0 1+i)` is the complex `0+0i`, and then `(/ 0+0i 0)` returns `0+0i` with no DivisionByZero: `div2` line 2079. |
| abort | `MCNumericCalls_abort.cfg` | violation | Under GMP, `(quotient -4 +inf.0)` kills the process with SIGFPE: `double2integer` line 493. |
| round | `MCNumericCalls_round.cfg` | violation | `(/ 5 2)` with 5 a bignum gives `5/2` with a bignum denominator; `round` tests `RATIONAL_DEN(x) == MAKE_INT(2)` by pointer (line 2545), misses, and rounds the half up to 3. |
| parse | `MCPrinter_parse.cfg` | pass | Every string of up to four characters over `1 # e + - . / _ i`, in radix 10 and 16, with the toggle flipped at will, and the texts `number->string` and `write` make of `PrintNumbers` at precisions 3 and 1: a literal of the decimal grammar reads as its value with its exactness (`LiteralValue`); a string with underscores reads as the string without them where SRFI 169 allows them, and as #f otherwise (`UnderscoreTransparent`); printing fails exactly for an inexact number in a radix other than 10, and a printed text reads back, in the same radix, as the number printed, within half a unit of the last printed digit for a finite real, complexes with a positive and a negative imaginary part included (`RoundTrip`; an infinite imaginary part is left out, see below). |
| reparse | `MCParser_reparse.cfg` | violation | `(string->number s)` on `s = "1#"` gives 10.0, and a second call gives the exact 10: `ReplaceMarkers` left `"10"` in the string (line 1142). |
| bits | `MCFloatBits_bits.cfg` | pass | Every two-call program of the float primitives over `MCDoubles`, `MCExacts`, `MCPayloads` and `MCTriples`: `nan-negative?`, `nan-quiet?`, `nan-payload` and `nan=?` read back the sign, quiet flag and payload `%make-nan` was given, and `nan=?` against a NaN `%make-nan` can build holds exactly when the three agree (`NanFields`); `decode-float` of a finite double gives fixnums in the ranges of the float limits whose product is the double (`DecodeLaw`); `encode-float` of that triple succeeds with the double's exact value (`EncodeDecodeValue`). |
| variadic | `MCVariadic_variadic.cfg` | pass | Every call of the thirteen variadic primitives on up to three of `VariadicLiterals` (42,975 states): the step-by-step loop implements `VariadicSpec` under the refinement mapping `call <- [op, argv]`, `result <- out` once `pc = "done"` (`VariadicRefinement`), and under weak fairness every call returns (`CallsReturn`). |
| transcendental | `MCNumericCalls_transcendental.cfg` | pass | One call of every transcendental primitive, `sqrt`, `(log x b)`, `(atan y x)` and `make-polar` on `TranscendentalLiterals` (exact 0, 1 and others, bignums, rationals, reals, both infinities, NaN, two complexes): the result is exact exactly where the code's shortcut applies, `log` signals only at an exact 0 and `atanh` only at 1 or -1 (`TranscendentalExactness`); an argument inside a function's real domain gives a real result (`RealResults`). |
| expt | `MCNumericCalls_expt.cfg` | pass | One call of `expt` on `TranscendentalLiterals` and `ExptExponents` (integral, negative, zero and non-integral doubles, 1/2, -2/3, both infinities, NaN, `1+i` and `-0.5i`), 211 states: the result is exact exactly for an exact 0 base with a non-zero exponent, or an exact 1 to an exact complex power (`ExptExactness`); a non-NaN real base that is non-negative, or any real base to an integral power, gives a real result (`ExptRealResults`). |
| cuts | `MCNumericCalls_cuts.cfg` | violation | `(acosh -2)` is +nan.0: `acosh_aux` (line 2994) takes the libm path whenever zz^2-1 >= 0, so `log(sqrt(r) + zz)` gets a negative double, where the other inverse functions go complex outside their real domain (`BranchCuts`). |
| nearest | `MCFloatBits_nearest.cfg` | violation | `exact->inexact` of 100/3, a rational with a bignum numerator, is 32 where the nearest double is 34: `bigrational2double` truncates (`mpz_tdiv_q`, `mpz_get_d`, line 553), against spec 4.1. |

Every violation run is a disagreement between the code and `spec.md` or
the code's own documentation, recorded under `findings` in `PROJECT.json`.

Each property of a passing run is shown to constrain the code by a
mutant, a plausible bug in the operator it depends on:

- `Bignum2Number` without demotion breaks `CanonicalValues`.
- `Long2Integer` without the `LONG_FITS_INTEGER` test breaks
  `ExactArithmetic`.
- `double_diff` with its order swapped breaks `CompareAgreesWithOrder`.
- `modulo` without the `!zerop(r)` test breaks `RemainderModuloLaw`.
- `max`/`min` without the final `exact2inexact` breaks `MaxMinLaw`.
- `floor` of a rational without the `den-1` correction breaks
  `RoundingLaw`.
- `logical:ash-4` with a truncating quotient of a negative number breaks
  `BitwiseLaw`.
- the `expt` loop with its odd test inverted breaks `ExptLaw`.
- `my_sqrt_exact` without the perfect-square test breaks `SqrtRoot`.
- `read_integer_or_real` ignoring the `#i` flag on an integer breaks
  `LiteralValue`.
- `magnitude` subtracting the squares breaks `MagnitudeLaw`.
- `integer?` without its infinity test breaks `TypePredicatesLaw`.
- `my_cosh` without its test for an exact 0 breaks
  `TranscendentalExactness`: `(cosh 0.0)` would be the exact 1.
- `sqrt` of a real taking the complex branch at 0.0 as well breaks
  `RealResults`.
- `my_expt` returning the exact power of an integral double exponent
  without `exact2inexact` breaks `ExptExactness`: `(expt 2 -1.0)` would be
  the exact 1/2.
- `my_expt` without its case for an integral double exponent breaks
  `ExptRealResults`: `(expt -2 -1.0)` would go through `exp(log(-2) * 1.0)`
  to a complex number.
- `remove_underscores` without the previous-digit test breaks
  `UnderscoreTransparent`.
- `%g` truncating its digits instead of rounding breaks `RoundTrip`.
- a signaling NaN made by clearing the quiet bit only (the `+inf.0`
  pattern for payload 0) breaks `NanFields`.
- `decode` using `frexp` for subnormal doubles too breaks `DecodeLaw`.
- `encode-float` checking the exponent against `DBL_MIN_EXP`, the bound
  its error message prints, breaks `EncodeDecodeValue`.
- `COMPARE_NUM` comparing every argument with the first (`previous`
  not moved on) breaks `VariadicRefinement`: `(< 1 3 2)` is #t.
- `COMPARE_NUM` without the `--argc` of its loop breaks `CallsReturn`:
  `(<= 0 0 0)` compares the same pair forever.

## Bounds

- `FixBits = 3` makes overflow reachable with small literals: `3 * 3`
  overflows the fixnum, `-4 * -4` reaches the long range bound, `-4 / -1`
  wraps. A long is wider than a fixnum, so the "compute in a long, then
  check" paths of `add2` and `mul2` behave as in C. At 6 bits the `calls`
  run has the same boundaries at -32 and 31, and the digit recursion of
  `logical.stk` runs over two or three digits.
- The `transcendental`, `expt` and `cuts` runs make one call (`MaxCalls = 1`).
  A libm stand-in is a rational, and the code's complex identities
  square and divide it: composing two calls (`(log -1 -32)` and then
  `exp`) gives numerators beyond TLC's 32-bit integers. One call still
  runs every identity of the code, which calls the other functions
  internally, and the nineteen literals cover every branch of each
  function: exact zero and one, both signs, |x| below and above 1, the
  bignums, the infinities, NaN, and complexes with and without a real
  part.
- `MaxCalls = 2` lets a value produced by one call (`0+0i`, a rational
  with bignum parts, an overflowed product) be consumed by a second call,
  which is where every non-canonical-value finding needs two steps. Every
  call has `acc` as one operand, so two calls reach every pair of a
  computed value and a literal.
- The constant 4 of `round`'s `quotient(tmp, 4)` is a bignum at 3 bits;
  in C it is always a fixnum. Only its value matters to `STk_quotient`.
- The parser strings are at most four characters in the `parse` run and
  five in the `reparse` run. Four characters hold every form the grammar
  has at this size: a sign, a point, an exponent, a `#`, a prefix, a
  fraction, an imaginary unit, and an underscore beside each of them.
  `FixBits = 5` in `MCParser` makes `log10_maxint` 1, so a one-digit
  integer takes the `atol` path and `11` the GMP path.
- The printer's precision is 3 (and 1 after `real-precision`), not 15:
  `10^prec` must stay within TLC's integers. Three digits are enough for
  rounding, ties and the switch between the two `%g` styles;
  `PrintNumbers` contains a real for each of these cases.

- `Variadic` calls take up to three arguments, so a loop runs twice and
  its second step sees an accumulator computed by the first (an
  overflowed sum, a rational quotient, a result made inexact); three
  arguments are also the least with which a comparison can fail on its
  second pair, or `max` see an inexact argument after an exact one.

- The float format has 5 exponent and 4 fraction bits. This keeps every
  case of binary64: subnormals, the carry of rounding into the next
  binade, the overflow to infinity, a quiet bit, a signaling bit and
  payload bits below them. Two-call programs reach a NaN made by
  `%make-nan` and then read, and a triple decoded and then encoded.
  With 4-bit limbs, `bigrational2double` scales by one or more limbs.
  All the values stay within TLC's integers: the patterns are below
  2^10, and the rounding compares quotients, not products, of powers of
  two.

The `calls` run explores about 176,000 distinct states in under three
minutes; the `transcendental` run about 1,500 and the `expt` run 211 in seconds; the `parse` run about 300,000 in under half a minute; the `bits` run
about 100,000 in seconds.

## Fairness

`Variadic` assumes weak fairness of its steps,
`WF_vars(Entry \/ Step \/ Exit)`: a primitive's loop runs in one C call
that never blocks or waits on another thread, so a step that can be taken
is taken. `CallsReturn` is checked under that assumption, and the
behaviour stops once the call has returned (deadlock checking is off in
that cfg).

The other models assume none, and their properties are safety
properties: a call either returns, signals or aborts, and the model says
which. A `NumericCalls` or
`FloatBits` program ends after `MaxCalls` calls, so deadlock checking is
off in their cfgs. In `Parser` and `Printer` the SRFI-169 toggle and `real-precision`
can always be set, so those models never stop and deadlock is checked.

## What is not modelled

- **Printer output ports.** `write` is modelled by the text it produces;
  ports, `display` and the other printers of the system are not.
- **Parts of the transcendental library.** The digits of libm results
  (see `Libm`). The complex cases of the trigonometric and hyperbolic
  functions and of `asin`, `acos` and `atan`, beyond the ones the code
  calls internally: their identities subtract or divide two stand-ins
  that equal values map to, so a model result would not mean the code's
  result. `atan`'s pole at +-i is left out for the same reason, and so is
  `pow`'s overflow test (line 3237): the model's reals do not overflow.
- **`(expt -8.0 0.5)`.** `pow` gives +nan.0 for a negative double base
  and a non-integral exponent (line 3236), where spec 4.6 sends every
  non-integral exponent to `exp(y log x)`, a complex number, as the code
  does for an exact base. `Pow` models the NaN; `ExptRealResults` leaves
  this case out and no run states the spec's value; it is a hazard.
- **`#e-1.1`.** `compute_exact_real` adds the unsigned fraction to the
  signed integer part, so `"#e-1.1"` reads as -9/10 (line 1016).
  `LiteralValue` states the exact value, but the `parse` run's strings of
  four characters do not reach a signed decimal after `#e`; it is a
  hazard.
- **`(log -inf.0)` and `(sqrt -inf.0)`.** The `finitep` and
  `FINITE_REALP` guards (lines 2620, 3163) send them to libm, which gives
  +nan.0 rather than a complex number. `BranchCuts` covers these arguments,
  but the `cuts` run stops first at `acosh`, so this is listed as a
  hazard.
- **The `1+inf.0i` round trip and `.1_1+i`.** `number2Cstr` prints
  `"1++inf.0i"` (line 657), and `remove_underscores` leaves the reader
  with a `'\0'` inside `".1_1+i"` (line 1156). `RoundTrip` leaves a
  complex with an infinite or NaN imaginary part out of its statement,
  and `UnderscoreTransparent` is checked on strings of four characters,
  which cannot put text after a float; both are hazards.
- **`nan=?` on a quieted signaling NaN.** `nan=?` compares all the bits
  (line 3811), where its documentation says sign, quiet bit and payload:
  against a NaN with bit 50 set beside the quiet bit it answers #f for
  equal fields. The `bits` run has that NaN, but `NanFields` states
  `nan=?` only against NaNs `%make-nan` builds; stated as documented it
  is violated there. It is a hazard, with no run of its own.
- **`integer?` of a whole rational.** `integer?` answers #f for every
  `tc_rational`; a rational with a bignum denominator 1 (line 352) is
  whole. Building one and asking takes three calls; it is a hazard.
- **The exactness of `0^0`.** `(expt 0.0 0)` is the exact 1 (line 3191)
  and `(expt 0 0.0)` is 1.0, where spec 4.6 makes 0^0 as exact as the 0.
  No property states the exactness of a power with an exact integer
  exponent; it is a hazard.
- **`IntegerLengthLaw`.** `NumericCalls` states the documented
  `integer-length`. It fails on `(integer-length 31)`, since a float keeps
  3 of the model long's 8 bits (line 1461). It has no run; this is a
  hazard in `PROJECT.json`.
- **Rounding of doubles outside `FloatBits`.** `Tower` keeps reals as exact
  rationals. The conversion of large integers to doubles in `do_compare`
  (line 884) loses precision; this hazard is listed, not checked.
  `FloatBits` rounds the conversions of `exact->inexact` and nothing
  else: its format is too narrow for the arithmetic of `Tower`.
- **Double rounding of fixnum rationals.** `rational2double` rounds each
  fixnum part before dividing. This only errs for parts above 2^53, and
  the model's 6-bit fixnums are all exact in the 5-bit significand.
- **Variadic calls in `NumericCalls`.** There each call is one iteration
  of the primitive's loop, on the last result and a literal; `Variadic`
  models the whole loop with zero to three arguments.
- **The domain of the variadic primitives.** `VariadicSpec` leaves the
  result of a call outside a primitive's domain open, so nothing checks
  that `(< 2 1 1+i)` returns #f before it type-checks `1+i` (spec 4.2
  makes it an error), that `(gcd 4 1/2)` is 0 or that `(lcm 1/2)` is 1/2.
  These are hazards in `PROJECT.json`.
- **`SqrtExactSquares`.** `NumericCalls` states that `sqrt` of an exact
  square is exact. At `FixBits = 6` the model's 4-bit C int makes
  `(sqrt 9)` 3.0, as `(int) d * (int) d` overflows a 32-bit int for squares
  of 2^31 and more (line 3139). The property has no run: the project's
  runs went to the variadic loops.
- **Parts of the parser.** Polar complexes (`r@theta`, which needs `sin`
  and `cos`), the rounding of `strtod`, exponents of more than one digit,
  and upper-case letters (the code treats them like lower case; the
  alphabets use lower case only). Errors signalled while parsing (`"1/0"`
  signals a division by zero, `"1./1"` cannot make a rational) are
  modelled as error results, and no property states the spec's promise
  that malformed text gives #f.
- **The `-0.0` round trip.** `encode-float` returns an exact number, so
  the triple `(0 0 -1)` of `-0.0` comes back as `+0.0`; spec 8 asks for a
  bit-exact round trip. This is listed as a hazard; it has no run of its own.
- **Other files.** `library.stk`, SRFI-59, SRFI-9, `stklos-config`, the
  Unicode table generator and the SRFI-43 tests are outside the numeric
  core.
