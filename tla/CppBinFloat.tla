---------------------------- MODULE CppBinFloat -----------------------------
(***************************************************************************)
(* cpp_bin_float.hpp: numbers of bit_count bits with an exponent and a     *)
(* sign.  Zero, infinity and NaN have exponents of their own above         *)
(* max_exponent, with no bits.  An operation writes its result piece by    *)
(* piece, exponent first, into a number that may be one of its operands.   *)
(* It is therefore an operator on all the numbers, `st`, that yields       *)
(* them afterwards.                                                        *)
(***************************************************************************)
EXTENDS Integers, TLC

CONSTANTS
  Numbers,
  temporary,      \* a default constructed result, as of x + y
  bit_count,
  exponent_bits,  \* the width of the exponent's type
  min_exponent, max_exponent,
  Words,          \* unsigned integers among the operands
  Powers,         \* signed integers among the arguments of ldexp
  IntDigits,      \* of the integer type that numbers are converted to
  FloatDigits, FloatMinExponent, FloatMaxExponent,  \* numeric_limits<Float>
  OtherDigits     \* the precision of another type with the same exponents

const_max == 2^(exponent_bits - 1) - 1
const_min == -(2^(exponent_bits - 1))

exponent_zero     == max_exponent + 1
exponent_infinity == max_exponent + 2
exponent_nan      == max_exponent + 3

\* The static assertions
ASSUME TypeAssumption ==
  /\ bit_count \in Nat \ {0, 1} /\ temporary \notin Numbers
  /\ min_exponent \in const_min + 2 * bit_count .. 0
  /\ max_exponent \in 0 .. const_max - 2 * bit_count

\* operator=(const I&) writes the exponent of an integer without a look at its
\* range, and eval_convert_to assumes that a float is no wider than the number.
ASSUME OperandAssumption ==
  /\ Words \subseteq 0 .. 2^(max_exponent + 1) - 1
  /\ IntDigits <= max_exponent
  /\ FloatDigits <= bit_count /\ OtherDigits <= bit_count

VARIABLES
  num,
  call   \* the operation that has returned, its operands and its result

vars == <<num, call>>

Places == Numbers \cup {temporary}
Bits   == 2^(bit_count - 1) .. 2^bit_count - 1

Value(data, e, neg) == [m_data |-> data, m_exponent |-> e, m_sign |-> neg]
quiet_NaN     == Value(0, exponent_nan, FALSE)
zero(neg)     == Value(0, exponent_zero, neg)
infinity(neg) == Value(0, exponent_infinity, neg)

IsNormal(v) == v.m_exponent <= max_exponent

\* What an exponent is when it has been stored
Exponent(e) == ((e - const_min) % 2^exponent_bits) + const_min

\* An unsigned cpp_int of twice as many bits
DoubleRep(n) == n % 2^(2 * bit_count)

eval_msb(n) == CHOOSE i \in 0 .. 30 : n \div 2^i = 1

negate(v) == IF v.m_exponent = exponent_nan THEN v ELSE [v EXCEPT !.m_sign = ~@]

\* if (res.sign() != s) res.negate()
WithSign(v, neg) == IF v.m_sign = neg THEN v ELSE negate(v)

(***************************************************************************)
(* Rounding                                                                *)
(***************************************************************************)
\* A fault: a result that rounds to one that is too small is let pass.
InRange_OverflowOnly(v) ==
  IF v.m_exponent > max_exponent
  THEN [v EXCEPT !.m_exponent = exponent_infinity, !.m_data = 0] ELSE v

\* The end of copy_and_round: overflow and underflow keep the sign.
InRange(v) ==
  CASE v.m_exponent > max_exponent -> [v EXCEPT !.m_exponent = exponent_infinity, !.m_data = 0]
    [] v.m_exponent < min_exponent -> [v EXCEPT !.m_exponent = exponent_zero, !.m_data = 0]
    [] OTHER -> v

\* Keep bits of arg, which has a rep_type of `room` bits, in a result of `width`
\* bits whose exponent has been set.
copy_and_round_to(v, arg, keep, width, room) ==
  LET cut     == eval_msb(arg) + 1 - keep
      half    == 2^(cut - 1)
      tie     == arg % 2^cut = half
      roundup == (arg \div half) % 2 = 1 /\ ~(tie /\ (arg \div 2^cut) % 2 = 0)
      m       == arg \div 2^cut + (IF roundup THEN 1 ELSE 0)
      carried == keep # 0 /\ m = 2^keep
      kept    == IF keep = 0 /\ roundup THEN 1 ELSE keep
      shift   == width - kept
  IN CASE arg = 0 -> zero(FALSE)
       [] arg # 0 /\ cut < 0 ->
            InRange([v EXCEPT !.m_data = arg * 2^(-cut), !.m_exponent = Exponent(@ + cut)])
       [] arg # 0 /\ cut = 0 -> InRange([v EXCEPT !.m_data = arg])
       [] arg # 0 /\ cut > 0 /\ kept = 0 ->
            [v EXCEPT !.m_data = 0, !.m_exponent = exponent_zero]
       [] arg # 0 /\ cut > 0 /\ kept # 0 ->
            InRange([v EXCEPT
              !.m_data = ((IF carried THEN m \div 2 ELSE m) * 2^shift) % 2^room,
              !.m_exponent = Exponent(@ + cut + (IF carried THEN 1 ELSE 0) - shift)])

copy_and_round(v, arg) ==
  copy_and_round_to(v, arg, bit_count, bit_count, 2 * bit_count)

Started(v, e) == [v EXCEPT !.m_exponent = Exponent(e)]

(***************************************************************************)
(* Sums                                                                    *)
(***************************************************************************)
\* do_eval_add if a's exponent is not the smaller one: then b is special only if
\* a is.
AddLarger(st, r, a, b) ==
  LET A    == st[a]
      B    == st[b]
      far  == A.m_exponent > bit_count + B.m_exponent
      dt   == IF far THEN A.m_data
              ELSE DoubleRep(A.m_data * 2^(A.m_exponent - B.m_exponent) + B.m_data)
      from == Started(st[r], IF far THEN A.m_exponent ELSE B.m_exponent)
  IN [st EXCEPT ![r] =
       CASE A.m_exponent = exponent_zero -> [B EXCEPT !.m_sign = A.m_sign]
         [] A.m_exponent = exponent_infinity ->
              IF B.m_exponent = exponent_nan THEN B ELSE A
         [] A.m_exponent = exponent_nan -> A
         [] IsNormal(A) -> WithSign(copy_and_round(from, dt), A.m_sign)]

\* A fault: the sign is that of the number with the larger exponent.
do_eval_add_LargerSign(st, r, a, b) ==
  IF st[a].m_exponent < st[b].m_exponent THEN AddLarger(st, r, b, a)
  ELSE AddLarger(st, r, a, b)

do_eval_add(st, r, a, b) ==
  IF st[a].m_exponent < st[b].m_exponent
  THEN LET swapped == AddLarger(st, r, b, a)
       IN [swapped EXCEPT ![r] = WithSign(@, st[a].m_sign)]
  ELSE AddLarger(st, r, a, b)

\* The bits and the exponent of the difference of two magnitudes.  If the smaller
\* one begins below the last bit of the larger one, half of that bit is taken off.
Distance(big, small) ==
  IF big.m_exponent <= bit_count + small.m_exponent
  THEN [dt |-> big.m_data * 2^(big.m_exponent - small.m_exponent) - small.m_data,
        exponent |-> small.m_exponent]
  ELSE IF /\ big.m_exponent = bit_count + small.m_exponent + 1
          /\ small.m_data # 2^(bit_count - 1)
  THEN [dt |-> 2 * big.m_data - 1, exponent |-> big.m_exponent - 1]
  ELSE [dt |-> big.m_data, exponent |-> big.m_exponent]

SpecialDifference(A, B) ==
  CASE A.m_exponent = exponent_zero /\ B.m_exponent = exponent_nan -> quiet_NaN
    [] A.m_exponent = exponent_zero /\ B.m_exponent = exponent_zero ->
         [B EXCEPT !.m_sign = FALSE]
    [] A.m_exponent = exponent_zero /\ B.m_exponent \notin {exponent_zero, exponent_nan} ->
         WithSign(B, ~A.m_sign)
    [] A.m_exponent = exponent_infinity ->
         IF B.m_exponent \in {exponent_nan, exponent_infinity} THEN quiet_NaN ELSE A
    [] A.m_exponent = exponent_nan -> A
    [] IsNormal(A) /\ B.m_exponent = exponent_zero -> A
    [] IsNormal(A) /\ B.m_exponent = exponent_infinity -> infinity(~A.m_sign)
    [] IsNormal(A) /\ B.m_exponent = exponent_nan -> B

AtLeast(A, B) ==
  \/ A.m_exponent > B.m_exponent
  \/ A.m_exponent = B.m_exponent /\ A.m_data >= B.m_data

do_eval_subtract(st, r, a, b) ==
  LET A == st[a]
      B == st[b]
      d == IF AtLeast(A, B) THEN Distance(A, B) ELSE Distance(B, A)
      s == IF AtLeast(A, B) THEN A.m_sign ELSE ~A.m_sign
      v == copy_and_round(Started(st[r], d.exponent), d.dt)
  IN [st EXCEPT ![r] =
       IF ~IsNormal(A) \/ ~IsNormal(B) THEN SpecialDifference(A, B)
       ELSE IF v.m_exponent = exponent_zero THEN [v EXCEPT !.m_sign = FALSE]
       ELSE WithSign(v, s)]

eval_add(st, r, a, b) ==
  IF st[a].m_sign = st[b].m_sign THEN do_eval_add(st, r, a, b)
  ELSE do_eval_subtract(st, r, a, b)

eval_subtract(st, r, a, b) ==
  IF st[a].m_sign # st[b].m_sign THEN do_eval_add(st, r, a, b)
  ELSE do_eval_subtract(st, r, a, b)

(***************************************************************************)
(* Products and quotients                                                  *)
(***************************************************************************)
SpecialProduct(A, B) ==
  LET neg == A.m_sign # B.m_sign
      e   == <<A.m_exponent, B.m_exponent>>
  IN CASE e = <<exponent_zero, exponent_nan>> \/ e = <<exponent_infinity, exponent_nan>> -> B
       [] e = <<exponent_zero, exponent_infinity>> \/ e = <<exponent_infinity, exponent_zero>> ->
            quiet_NaN
       [] A.m_exponent = exponent_nan -> A
       [] IsNormal(A) -> [B EXCEPT !.m_sign = neg]
       [] OTHER -> [A EXCEPT !.m_sign = neg]

CertainlyOverflows(A, B) ==
  A.m_exponent > 0 /\ B.m_exponent > 0 /\ max_exponent + 2 - A.m_exponent < B.m_exponent
CertainlyUnderflows(A, B) ==
  A.m_exponent < 0 /\ B.m_exponent < 0 /\ min_exponent - 2 - A.m_exponent > B.m_exponent

\* The sign of the result is found last, from operands that it may be.
eval_multiply(st, r, a, b) ==
  LET A   == st[a]
      B   == st[b]
      neg == A.m_sign # B.m_sign
      v   == copy_and_round(Started(st[r], A.m_exponent + B.m_exponent - bit_count + 1),
                            DoubleRep(A.m_data * B.m_data))
      st1 == [st EXCEPT ![r] = v]
  IN IF ~IsNormal(A) \/ ~IsNormal(B) THEN [st EXCEPT ![r] = SpecialProduct(A, B)]
     ELSE IF CertainlyOverflows(A, B) THEN [st EXCEPT ![r] = infinity(neg)]
     ELSE IF CertainlyUnderflows(A, B) THEN [st EXCEPT ![r] = zero(neg)]
     ELSE [st1 EXCEPT ![r].m_sign = st1[a].m_sign # st1[b].m_sign]

\* res.negate(), after an operation with the absolute value of a signed integer
NegatedIf(st, r, neg) == IF neg THEN [st EXCEPT ![r] = negate(@)] ELSE st

eval_multiply_by(st, r, a, w, neg) ==
  LET A   == st[a]
      v   == copy_and_round(Started(st[r], A.m_exponent), DoubleRep(A.m_data * w))
      st1 == [st EXCEPT ![r] = v]
  IN NegatedIf(
       IF IsNormal(A) THEN [st1 EXCEPT ![r].m_sign = st1[a].m_sign]
       ELSE [st EXCEPT ![r] = IF A.m_exponent = exponent_infinity /\ w = 0 THEN quiet_NaN ELSE A],
       r, neg)

SpecialQuotient(U, V) ==
  LET neg == U.m_sign # V.m_sign
  IN CASE \/ exponent_nan \in {U.m_exponent, V.m_exponent}
          \/ U.m_exponent = V.m_exponent -> quiet_NaN
       [] U.m_exponent # V.m_exponent /\ U.m_exponent \in {exponent_zero, exponent_infinity}
            /\ V.m_exponent # exponent_nan -> [U EXCEPT !.m_sign = neg]
       [] IsNormal(U) /\ V.m_exponent = exponent_zero -> infinity(neg)
       [] IsNormal(U) /\ V.m_exponent = exponent_infinity -> zero(neg)

\* Two digits that stand for the remainder are put behind the quotient (a limb of
\* them, if the type is wider than one).
WithRest(q, r, v) ==
  DoubleRep(4 * q) + (IF 2 * r = v THEN 2 ELSE IF 2 * r > v THEN 3 ELSE 0)

\* A quotient with a bit more than needed rounds itself, apart from ties.
HasExtraBit(q) == (q \div 2^bit_count) % 2 = 1

RoundedQuotient(v, q, r, divisor, tie) ==
  IF HasExtraBit(q)
  THEN copy_and_round(v, IF q % 2 = 1 /\ (r # 0 \/ (tie /\ (q \div 2) % 2 = 1))
                         THEN q + 1 ELSE q)
  ELSE copy_and_round(Started(v, v.m_exponent - 2), WithRest(q, r, divisor))

QuotientOverflows(U, V) ==
  V.m_exponent < 0 /\ U.m_exponent > 0 /\ max_exponent + V.m_exponent < U.m_exponent - 1
QuotientUnderflows(U, V) ==
  V.m_exponent > 0 /\ U.m_exponent < 0 /\ min_exponent + V.m_exponent > U.m_exponent

eval_divide(st, r, a, b) ==
  LET U   == st[a]
      V   == st[b]
      neg == U.m_sign # V.m_sign
      t   == U.m_data * 2^bit_count
      v   == [Started(st[r], U.m_exponent - V.m_exponent - 1) EXCEPT !.m_sign = neg]
  IN [st EXCEPT ![r] =
       IF ~IsNormal(U) \/ ~IsNormal(V) THEN SpecialQuotient(U, V)
       ELSE IF QuotientOverflows(U, V) THEN infinity(neg)
       ELSE IF QuotientUnderflows(U, V) THEN zero(neg)
       ELSE RoundedQuotient(v, t \div V.m_data, t % V.m_data, V.m_data, TRUE)]

eval_divide_by(st, r, a, w, neg) ==
  LET U  == st[a]
      gb == eval_msb(w)
      t  == DoubleRep(U.m_data * 2^(gb + 1))
      v  == [Started(st[r], U.m_exponent - gb - 1) EXCEPT !.m_sign = U.m_sign]
  IN NegatedIf([st EXCEPT ![r] =
       CASE U.m_exponent = exponent_zero     -> IF w = 0 THEN quiet_NaN ELSE U
         [] U.m_exponent = exponent_infinity -> U
         [] U.m_exponent = exponent_nan      -> quiet_NaN
         [] IsNormal(U) -> IF w = 0 THEN infinity(U.m_sign)
                           ELSE RoundedQuotient(v, t \div w, t % w, w, FALSE)], r, neg)

(***************************************************************************)
(* Comparison, and functions of one number                                 *)
(***************************************************************************)
\* A fault: zero is taken for what its exponent says, more than any finite number.
compare_ByExponent(A, B) ==
  LET n == IF A.m_exponent > B.m_exponent THEN 1
           ELSE IF A.m_exponent < B.m_exponent THEN -1
           ELSE IF A.m_data > B.m_data THEN 1
           ELSE IF A.m_data < B.m_data THEN -1 ELSE 0
  IN IF A.m_sign = B.m_sign THEN IF A.m_sign THEN -n ELSE n
     ELSE IF A.m_exponent = exponent_zero /\ B.m_exponent = exponent_zero THEN 0
     ELSE IF A.m_sign THEN -1 ELSE 1

compare(A, B) ==
  LET Result(n) == IF A.m_sign THEN -n ELSE n
  IN CASE A.m_sign # B.m_sign ->
            IF A.m_exponent = exponent_zero /\ B.m_exponent = exponent_zero THEN 0
            ELSE IF A.m_sign THEN -1 ELSE 1
       [] A.m_sign = B.m_sign /\ A.m_exponent = exponent_nan -> -1
       [] A.m_sign = B.m_sign /\ A.m_exponent # exponent_nan /\ A.m_exponent # B.m_exponent ->
            IF A.m_exponent = exponent_zero THEN Result(-1)
            ELSE IF B.m_exponent = exponent_zero \/ A.m_exponent > B.m_exponent
            THEN Result(1) ELSE Result(-1)
       [] A.m_sign = B.m_sign /\ A.m_exponent # exponent_nan /\ A.m_exponent = B.m_exponent ->
            IF A.m_data = B.m_data THEN 0
            ELSE IF A.m_data > B.m_data THEN Result(1) ELSE Result(-1)

eval_eq(A, B) ==
  /\ A.m_exponent = B.m_exponent
  /\ \/ A.m_exponent = exponent_zero
     \/ A.m_sign = B.m_sign /\ A.m_data = B.m_data /\ A.m_exponent # exponent_nan

\* operator=(const I&): an integer of more bits than the number has is cut off.
from_integer(neg, w) ==
  LET shift == eval_msb(w)
  IN IF w = 0 THEN zero(FALSE)
     ELSE Value(IF shift >= bit_count THEN w \div 2^(shift + 1 - bit_count)
                ELSE w * 2^(bit_count - shift - 1), shift, neg)

\* Once infinity has been assigned, the sign is taken from an argument that it may be.
eval_ldexp(st, r, a, e) ==
  LET A   == st[a]
      st1 == [st EXCEPT ![r] = infinity(FALSE)]
  IN IF e \notin const_min .. const_max THEN [st EXCEPT ![r] = infinity(e < 0)]
     ELSE IF ~IsNormal(A) THEN [st EXCEPT ![r] = A]
     ELSE IF e > 0 /\ max_exponent - e < A.m_exponent
     THEN [st1 EXCEPT ![r].m_sign = st1[a].m_sign]
     ELSE IF e < 0 /\ min_exponent - e > A.m_exponent THEN [st EXCEPT ![r] = zero(FALSE)]
     ELSE [st EXCEPT ![r] = [A EXCEPT !.m_exponent = Exponent(@ + e)]]

eval_frexp(A) == IF IsNormal(A) THEN [A EXCEPT !.m_exponent = -1] ELSE A
frexp_exponent(A) == IF IsNormal(A) THEN A.m_exponent + 1 ELSE 0

\* A fault: an increment that needs one bit more is not noticed.
CutOff_Unextended(A, shift, up) ==
  [A EXCEPT !.m_data = (@ \div 2^shift + (IF up /\ @ % 2^shift # 0 THEN 1 ELSE 0)) * 2^shift]

\* The bits below the point are cut off and one is added if `up`; the increment may
\* need one bit more.
CutOff(A, shift, up) ==
  LET m        == A.m_data \div 2^shift + (IF up /\ A.m_data % 2^shift # 0 THEN 1 ELSE 0)
      extended == m = 2^(bit_count - shift)
  IN [A EXCEPT !.m_data = m * 2^(IF extended THEN shift - 1 ELSE shift),
               !.m_exponent = Exponent(IF extended THEN @ + 1 ELSE @)]

eval_floor(A) ==
  LET shift == bit_count - A.m_exponent - 1
  IN IF ~IsNormal(A) \/ shift <= 0 THEN A
     ELSE IF shift >= bit_count THEN from_integer(TRUE, IF A.m_sign THEN 1 ELSE 0)
     ELSE CutOff(A, shift, A.m_sign)

eval_ceil(A) ==
  LET shift == bit_count - A.m_exponent - 1
  IN IF ~IsNormal(A) \/ shift <= 0 THEN A
     ELSE IF shift >= bit_count
     THEN [from_integer(FALSE, IF A.m_sign THEN 0 ELSE 1) EXCEPT !.m_sign = A.m_sign]
     ELSE CutOff(A, shift, ~A.m_sign)

\* eval_integer_sqrt, of another file
IntegerSqrt(t) == CHOOSE s \in 0 .. t : s * s <= t /\ t < (s + 1) * (s + 1)

\* The result keeps the sign that it had.
eval_sqrt(v, A) ==
  LET t == A.m_data * 2^(IF A.m_exponent % 2 = 1 THEN bit_count ELSE bit_count - 1)
      s == IntegerSqrt(t)
  IN CASE A.m_exponent \in {exponent_nan, exponent_zero} -> A
       [] A.m_exponent = exponent_infinity -> IF A.m_sign THEN quiet_NaN ELSE A
       [] IsNormal(A) ->
            IF A.m_sign THEN quiet_NaN
            ELSE copy_and_round(Started(v, A.m_exponent \div 2),
                                IF s < t - s * s THEN s + 1 ELSE s)

(***************************************************************************)
(* Conversions                                                             *)
(***************************************************************************)
IntMax == 2^IntDigits - 1

\* To long_long_type; a NaN has thrown before.
eval_convert_to_signed(A) ==
  LET shift == bit_count - 1 - A.m_exponent
      n     == IF shift < 0 THEN A.m_data * 2^(-shift) ELSE A.m_data \div 2^shift
  IN IF A.m_exponent = exponent_zero THEN 0
     ELSE IF A.m_exponent = exponent_infinity THEN IF A.m_sign THEN -IntMax ELSE IntMax
     ELSE IF shift > bit_count - 1 THEN 0
     ELSE IF A.m_sign /\ compare(A, from_integer(TRUE, IntMax + 1)) <= 0 THEN -IntMax - 1
     ELSE IF ~A.m_sign /\ compare(A, from_integer(FALSE, IntMax)) >= 0 THEN IntMax
     ELSE IF bit_count - shift > IntDigits /\ shift < 0 THEN IntMax
     ELSE IF A.m_sign THEN -n ELSE n

\* To Float, by way of a number of FloatDigits bits; the exponent that this number
\* has for a while is off by the difference of the precisions.
float(class, neg, m, e) == [class |-> class, negative |-> neg, m |-> m, e |-> e]

\* A fault: the digits are not fewer for a denormal, which the float then rounds again.
eval_convert_to_float_Normal(A) ==
  LET arg == copy_and_round_to(Value(0, A.m_exponent, FALSE), A.m_data,
                               FloatDigits, FloatDigits, bit_count)
  IN IF ~IsNormal(A) THEN float("nan", FALSE, 0, 0)
     ELSE IF A.m_exponent >= FloatMaxExponent THEN float("infinite", A.m_sign, 0, 0)
     ELSE float("finite", A.m_sign, arg.m_data, arg.m_exponent - (bit_count - 1))

eval_convert_to_float(A) ==
  LET denormal == FloatMinExponent - 1 - A.m_exponent
      digits   == IF denormal > 0 THEN FloatDigits - denormal ELSE FloatDigits
      arg      == copy_and_round_to(Value(0, A.m_exponent, FALSE), A.m_data,
                                    digits, FloatDigits, bit_count)
      e        == arg.m_exponent - (bit_count - 1)
  IN CASE A.m_exponent = exponent_zero -> float("finite", A.m_sign, 0, 0)
       [] A.m_exponent = exponent_nan -> float("nan", FALSE, 0, 0)
       [] A.m_exponent = exponent_infinity -> float("infinite", A.m_sign, 0, 0)
       [] IsNormal(A) ->
            IF A.m_exponent > FloatMaxExponent THEN float("infinite", A.m_sign, 0, 0)
            ELSE IF digits < 0 \/ arg.m_data = 0 THEN float("finite", A.m_sign, 0, 0)
            ELSE IF eval_msb(arg.m_data) + e >= FloatMaxExponent
            THEN float("infinite", A.m_sign, 0, 0)
            ELSE float("finite", A.m_sign, arg.m_data, e)

\* operator= from a number of this type to one of another precision
converted(A) ==
  CASE A.m_exponent = exponent_nan -> quiet_NaN
    [] A.m_exponent # exponent_nan /\ ~IsNormal(A) -> [A EXCEPT !.m_data = 0]
    [] IsNormal(A) ->
         copy_and_round_to(Started(A, A.m_exponent + OtherDigits - bit_count), A.m_data,
                           OtherDigits, OtherDigits, bit_count)

(***************************************************************************)
(* The program                                                             *)
(***************************************************************************)
Idle == [op |-> "none"]

Start == [x \in Places |-> IF x = temporary THEN zero(FALSE) ELSE num[x]]

\* An operation with the target r has returned.
Returned(st, r, op, a, rest) ==
  /\ num' = [x \in Numbers |-> st[x]]
  /\ call' = [op |-> op, a |-> num[a], res |-> st[r]] @@ rest

Binary(r, a, b) ==
  LET With(op, st) == Returned(st, r, op, a, [b |-> num[b]])
  IN \/ With("add", eval_add(Start, r, a, b))
     \/ With("subtract", eval_subtract(Start, r, a, b))
     \/ With("multiply", eval_multiply(Start, r, a, b))
     \/ With("divide", eval_divide(Start, r, a, b))

ByWord(r, a, w, neg) ==
  LET With(op, st) == Returned(st, r, op, a, [w |-> w, negative |-> neg])
  IN \/ With("multiply_by", eval_multiply_by(Start, r, a, w, neg))
     \/ With("divide_by", eval_divide_by(Start, r, a, w, neg))

Unary(r, a) ==
  LET With(op, v) == Returned([Start EXCEPT ![r] = v], r, op, a, <<>>)
  IN \/ With("sqrt", eval_sqrt(Start[r], num[a]))
     \/ With("floor", eval_floor(num[a]))
     \/ With("ceil", eval_ceil(num[a]))
     \/ With("negate", negate(num[a]))

Assign(r, w, neg) ==
  Returned([Start EXCEPT ![r] = from_integer(neg, w)], r, "assign", r,
           [w |-> w, negative |-> neg])
Ldexp(r, a, e) ==
  Returned(eval_ldexp(Start, r, a, e), r, "ldexp", a, [e |-> e, in_place |-> r = a])
Frexp(r, a) ==
  Returned([Start EXCEPT ![r] = eval_frexp(num[a])], r, "frexp", a,
           [e |-> frexp_exponent(num[a])])

\* What a number is converted to is not one of the numbers.
Convert(a) ==
  Returned(Start, temporary, "convert", a,
    [int   |-> IF num[a].m_exponent = exponent_nan THEN "runtime_error"
               ELSE eval_convert_to_signed(num[a]),
     float |-> eval_convert_to_float(num[a]), other |-> converted(num[a])])

Operation ==
  /\ call = Idle
  /\ \/ \E r \in Places, a, b \in Numbers : Binary(r, a, b)
     \/ \E r, a \in Numbers, w \in Words, neg \in BOOLEAN :
          (neg => w # 0) /\ ByWord(r, a, w, neg)
     \/ \E r \in Numbers, w \in Words, neg \in BOOLEAN :
          (neg => w # 0) /\ Assign(r, w, neg)
     \/ \E r, a \in Numbers : Unary(r, a) \/ Frexp(r, a)
     \/ \E r, a \in Numbers, e \in Powers : Ldexp(r, a, e)
     \/ \E a \in Numbers : Convert(a)

Continue == call # Idle /\ call' = Idle /\ UNCHANGED num

Init == num = [x \in Numbers |-> zero(FALSE)] /\ call = Idle

Next == Operation \/ Continue

Spec == Init /\ [][Next]_vars

(***************************************************************************)
(* What must hold                                                          *)
(***************************************************************************)
Exact == INSTANCE BinaryFloats

\* The floating point number that is represented
Meaning(v) ==
  CASE v.m_exponent = exponent_nan      -> Exact!NaN
    [] v.m_exponent = exponent_infinity -> Exact!Infinity(v.m_sign)
    [] v.m_exponent = exponent_zero     -> Exact!Zero(v.m_sign)
    [] IsNormal(v) -> Exact!Finite(v.m_sign, v.m_data, v.m_exponent)

\* check_invariants() (cpp_bin_float.hpp:513) of every number and every result: the
\* highest bit is set, unless the exponent is one of the three that mean something
\* else.  Exponents that have left their range, or their type, would show here.
Normalised ==
  \A v \in {num[x] : x \in Numbers} \cup (IF call = Idle THEN {} ELSE {call.res}) :
    \/ v.m_exponent \in min_exponent .. max_exponent /\ v.m_data \in Bits
    \/ v.m_exponent \in {exponent_zero, exponent_infinity, exponent_nan} /\ v.m_data = 0

\* The difference of two magnitudes is rounded twice, the second time from a tie
\* that is none (cpp_bin_float.hpp:780 and :804).
RoundedTwice(A, B) ==
  /\ IsNormal(A) /\ IsNormal(B)
  /\ LET big   == IF AtLeast(A, B) THEN A ELSE B
         small == IF AtLeast(A, B) THEN B ELSE A
     IN /\ big.m_exponent = bit_count + small.m_exponent + 1
        /\ small.m_data # 2^(bit_count - 1)
        /\ big.m_data % 2 = 1

Difference(A, B) == Exact!Sum(Meaning(A), Exact!Negated(Meaning(B)))

\* Arithmetic is rounded correctly, whichever operands the result replaces, with the
\* signs and the special values of IEEE arithmetic (doc/tutorial_cpp_bin_float.qbk:85).
\* Left out are the differences that are RoundedTwice, integers of more bits than the
\* number, and the sign of x * 0u, which is lost if x is the target.
ArithmeticRounds ==
  call # Idle =>
  LET A == call.a
      R == Meaning(call.res)
      W == Exact!Whole(call.negative, call.w)
  IN /\ call.op = "add" =>
          \/ A.m_sign # call.b.m_sign /\ RoundedTwice(A, call.b)
          \/ R = Exact!Sum(Meaning(A), Meaning(call.b))
     /\ call.op = "subtract" =>
          \/ A.m_sign = call.b.m_sign /\ RoundedTwice(A, call.b)
          \/ R = Difference(A, call.b)
     /\ call.op = "multiply" => R = Exact!Product(Meaning(A), Meaning(call.b))
     /\ call.op = "divide" => R = Exact!Quotient(Meaning(A), Meaning(call.b))
     /\ call.op = "multiply_by" /\ call.w < 2^bit_count =>
          LET P == Exact!Product(Meaning(A), W)
          IN R = P \/ (call.w = 0 /\ R.class = P.class)
     /\ call.op = "divide_by" /\ call.w < 2^bit_count => R = Exact!Quotient(Meaning(A), W)

\* ldexp as its meaning has it, if the power fits the type of the exponents
Scaled(v, e) ==
  IF ~Exact!IsFinite(v) THEN v
  ELSE IF v.exponent + e > max_exponent THEN Exact!Infinity(v.negative)
  ELSE IF v.exponent + e < min_exponent THEN Exact!Zero(FALSE)
  ELSE [v EXCEPT !.exponent = @ + e]

\* A root in magnitude: its sign is the target's, which RootsArePositive is about.
IsRootOf(R, V) ==
  /\ Exact!IsFinite(R)
  /\ Exact!IsRoot(R.significand,
                  V.significand * 2^(V.exponent - 2 * R.exponent + bit_count - 1))

\* x = ldexp(x, e) that overflows loses the sign of x.
SignLost(V, e, in_place) ==
  in_place /\ Exact!IsFinite(V) /\ Scaled(V, e) = Exact!Infinity(TRUE)

\* floor, ceil, ldexp, frexp and sqrt yield the number that they should, rounded to
\* nearest where it is not exact, and the bits that they increment carry into the
\* exponent.  They may replace their argument; left out are the sign of a root, and the
\* infinity whose sign x = ldexp(x, e) loses, which is positive then.
FunctionsRound ==
  call # Idle =>
  LET V == Meaning(call.a)
      R == Meaning(call.res)
  IN /\ call.op = "floor" => R = Exact!Integral(V, FALSE)
     /\ call.op = "ceil" => R = Exact!Integral(V, TRUE)
     /\ call.op = "ldexp" /\ call.e \in const_min .. const_max =>
          R = IF SignLost(V, call.e, call.in_place) THEN Exact!Infinity(FALSE)
              ELSE Scaled(V, call.e)
     /\ call.op = "frexp" => Scaled(R, call.e) = V
     /\ call.op = "sqrt" =>
          IF Exact!IsFinite(V) /\ ~V.negative THEN IsRootOf(R, V)
          ELSE R = IF Exact!IsFinite(V) \/ V = Exact!Infinity(TRUE) THEN Exact!NaN ELSE V

\* The nearest multiple of 2^e, even if there are two
NearestMultiple(v, e) ==
  LET k == v.exponent - bit_count + 1 - e
      q == v.significand \div Exact!Two(-k)
      r == 2 * (v.significand % Exact!Two(-k))
  IN IF k >= 0 THEN v.significand * 2^k
     ELSE IF r > Exact!Two(-k) \/ (r = Exact!Two(-k) /\ q % 2 = 1) THEN q + 1 ELSE q

\* f is v as a Float, which has denormals.
IsFloat(f, v) ==
  LET e == (IF v.exponent < FloatMinExponent - 1 THEN FloatMinExponent - 1 ELSE v.exponent)
           - FloatDigits + 1
      m == NearestMultiple(v, e)
      SameAs(g) == g.m * Exact!Two(g.e - e) = m * Exact!Two(e - g.e)
  IN IF m = 0 THEN f.class = "finite" /\ f.m = 0
     ELSE IF m * Exact!Two(e) >= 2^FloatMaxExponent * Exact!Two(-e) THEN f.class = "infinite"
     ELSE f.class = "finite" /\ SameAs(f)

Saturated(n) == IF n > IntMax THEN IntMax ELSE IF n < -IntMax - 1 THEN -IntMax - 1 ELSE n

\* Conversions: to an integer the number is cut off and kept in range, to a float or
\* to fewer bits it is rounded once, down to the last denormal and to nothing
\* (doc/tutorial_cpp_bin_float.qbk:82).  Left out: an integer type that is wider than
\* the number takes the largest numbers for its own maximum, and a number whose
\* exponent is beyond its range while it is converted becomes zero.
ConversionsRound ==
  call # Idle /\ call.op = "convert" /\ Exact!IsFinite(Meaning(call.a)) =>
  LET V == Meaning(call.a)
      n == Exact!Truncated(V)
  IN /\ \/ call.int = Saturated(IF V.negative THEN -n ELSE n)
        \/ n > IntMax - 2^(IntDigits - bit_count) /\ call.int = IntMax
     /\ \/ call.float.negative = V.negative /\ IsFloat(call.float, V)
        \/ V.exponent + bit_count - FloatDigits > max_exponent
     /\ LET O == Meaning(call.other)
        IN IF Exact!IsFinite(O)
           THEN O = Exact!Nearest(V.negative, V.significand, 1,
                                  V.exponent - bit_count + 1, OtherDigits)
           ELSE O = Exact!Infinity(V.negative) /\ V.exponent = max_exponent

\* Comparison agrees with the arithmetic: of two numbers that are not NaN, the one
\* that compares less is the one whose difference from the other is negative (or too
\* small to have a sign).
OrderAgrees ==
  call # Idle /\ call.op = "subtract"
    /\ ~Exact!Unordered(Meaning(call.a), Meaning(call.b)) =>
  LET order == Exact!Order(Meaning(call.a), Meaning(call.b))
      D     == Meaning(call.res)
  IN /\ compare(call.a, call.b) = order /\ compare(call.b, call.a) = -order
     /\ eval_eq(call.a, call.b) <=> order = 0
     /\ \/ D.class \in {"zero", "nan"}
        \/ order = IF D.negative THEN -1 ELSE 1

\* A square root is not negative (doc/tutorial_cpp_bin_float.qbk:85).
RootsArePositive ==
  call # Idle /\ call.op = "sqrt" /\ Exact!IsFinite(Meaning(call.res)) => ~call.res.m_sign
=============================================================================
