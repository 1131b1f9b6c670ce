---------------------------- MODULE CppIntTrivial ---------------------------
(***************************************************************************)
(* The fixed precision cpp_int that fits in one machine integer, "trivial" *)
(* in the code: a value m_data of type local_limb_type, LimbBits wide, of  *)
(* which MinBits count, and for a signed type a flag m_sign.               *)
(*                                                                         *)
(* A function returns what it leaves in its target and whether an          *)
(* exception left it.  The result may be one of the operands.              *)
(***************************************************************************)
EXTENDS IntegerTypes, FiniteSetsExt

CONSTANTS
  Obj,        \* the numbers of the program
  Types       \* the types that a program may use

CallNames == {"construct", "assign", "copy", "add", "subtract", "multiply",
              "divide", "modulus", "left_shift", "right_shift", "complement",
              "and", "or", "xor", "gcd", "lcm", "negate"}

TypesAssumption ==
  /\ Types \subseteq [signed : BOOLEAN, checked : BOOLEAN, min_bits : Nat \ {0},
                     limb_bits : Nat, calls : SUBSET CallNames]
  /\ \A t \in Types : t.min_bits <= t.limb_bits

VARIABLES
  type,     \* the type of the numbers, and what the program does with them
  num,      \* the numbers
  threw,    \* did the last call end in an exception?
  failed    \* the numbers that such a call had already changed

vars == <<type, num, threw, failed>>

Signed   == type.signed     \* signed_magnitude or unsigned_magnitude
Checked  == type.checked    \* cpp_int_check_type
MinBits  == type.min_bits   \* the precision
LimbBits == type.limb_bits  \* the width of local_limb_type
Calls    == type.calls

LimbRange == 2^LimbBits
Modulus   == 2^MinBits      \* limb_mask + 1
Number    == [m_data : 0 .. LimbRange - 1, m_sign : BOOLEAN]

----------------------------------------------------------------------------
(* The members of the class. *)

Num(d, s)  == [m_data |-> d, m_sign |-> s]
Done(n)    == [num |-> n, threw |-> FALSE]
Raise(n)   == [num |-> n, threw |-> TRUE]
Then(o, F(_)) == IF o.threw THEN o ELSE F(o.num)

\* Unsigned arithmetic of local_limb_type
Limb(d) == d % LimbRange

\* normalize(): looks for zero, verifies the mask, and only then applies it.
normalize(n) ==
  LET s == n.m_sign /\ n.m_data # 0 IN
  IF Checked /\ n.m_data >= Modulus THEN Raise(Num(n.m_data, s))
  ELSE Done(Num(n.m_data % Modulus, s))

\* negate(): the flag of a signed type; the limb of an unsigned one, unmasked
negate(n) ==
  IF Signed THEN Done(Num(n.m_data, ~n.m_sign /\ n.m_data # 0))
  ELSE IF Checked THEN Raise(n)
  ELSE Done(Num(Limb(LimbRange - n.m_data), FALSE))

\* Fault: zero can be negative.
sign_Blindly(n, b) ==
  IF Signed THEN Done(Num(n.m_data, b)) ELSE IF b THEN negate(n) ELSE Done(n)

\* sign(b)
sign(n, b) ==
  IF Signed THEN Done(Num(n.m_data, b /\ n.m_data # 0))
  ELSE IF b THEN negate(n) ELSE Done(n)

Abs(k) == IF k < 0 THEN -k ELSE k

\* Fault: an unsigned type looks at the magnitude only.
check_in_rangeOfMagnitude(k, wide) == Checked /\ Abs(k) >= Modulus

\* check_in_range() throws.  A signed type looks only at arguments of a wide
\* type, one that has more digits than the number.
check_in_range(k, wide) ==
  Checked /\ IF Signed THEN wide /\ Abs(k) >= Modulus ELSE k \notin 0 .. Modulus - 1

\* cpp_int_base(i), then a move into the target
construct(n, k, wide) ==
  IF check_in_range(k, wide) THEN Raise(n)
  ELSE IF Signed THEN Done(Num(Abs(k) % Modulus, k < 0))
  ELSE Done(Num(k % Modulus, FALSE))

\* do_assign_arithmetic(i)
assign(n, k, wide) ==
  IF check_in_range(k, wide) THEN Raise(n)
  ELSE Then(sign(Num(Limb(Abs(k)), n.m_sign), k < 0), normalize)

----------------------------------------------------------------------------
(* Arithmetic: result op= o. *)

eval_add(p, q) ==
  IF p.m_sign # q.m_sign
  THEN IF q.m_data > p.m_data
       THEN Then(negate(Num(q.m_data - p.m_data, p.m_sign)), normalize)
       ELSE normalize(Num(p.m_data - q.m_data, p.m_sign))
  ELSE IF Checked /\ p.m_data + q.m_data >= LimbRange THEN Raise(p)
  ELSE normalize(Num(Limb(p.m_data + q.m_data), p.m_sign))

\* eval_subtract, of a signed and of an unsigned type
eval_subtract(p, q) ==
  IF Signed THEN eval_add(p, Num(q.m_data, ~q.m_sign))
  ELSE IF Checked /\ p.m_data < q.m_data THEN Raise(p)
  ELSE normalize(Num(Limb(p.m_data - q.m_data), FALSE))

\* eval_multiply(result, a, b), where result held n
eval_multiply(n, p, q) ==
  IF Checked /\ p.m_data * q.m_data >= LimbRange THEN Raise(n)
  ELSE Then(sign(Num(Limb(p.m_data * q.m_data), n.m_sign), p.m_sign # q.m_sign),
            normalize)

eval_divide(p, q) ==
  IF q.m_data = 0 THEN Raise(p)
  ELSE sign(Num(p.m_data \div q.m_data, p.m_sign), p.m_sign # q.m_sign)

eval_modulus(p, q) ==
  IF q.m_data = 0 THEN Raise(p)
  ELSE sign(Num(p.m_data % q.m_data, p.m_sign), p.m_sign)

----------------------------------------------------------------------------
(* Shifts and bitwise operations. *)

eval_left_shift(p, s) ==
  IF Checked /\ (p.m_sign \/ (p.m_data # 0 /\ p.m_data * 2^s >= LimbRange))
  THEN Raise(p)
  ELSE normalize(Num(Limb(p.m_data * 2^s), p.m_sign))

\* Fault: negative numbers are rounded towards zero.
eval_right_shiftTruncates(p, s) ==
  IF Checked /\ p.m_sign THEN Raise(p) ELSE Done(Num(p.m_data \div 2^s, p.m_sign))

\* A negative number is rounded down: ((limb - 1) >> s) + 1.
eval_right_shift(p, s) ==
  LET d == IF s >= LimbBits THEN 0
           ELSE IF p.m_sign THEN Limb(Limb(p.m_data - 1) \div 2^s + 1)
           ELSE p.m_data \div 2^s
  IN IF Checked /\ p.m_sign THEN Raise(p)
     ELSE IF p.m_sign /\ d = 0 THEN Done(Num(1, TRUE))
     ELSE Done(Num(d, p.m_sign))

\* eval_complement(result, o), where result held n
eval_complement(n, q) ==
  IF ~Signed THEN normalize(Num(LimbRange - 1 - q.m_data, FALSE))
  ELSE IF q.m_sign
  THEN Then(sign(Num(Limb(q.m_data - 1), n.m_sign), FALSE), normalize)
  ELSE Then(sign(Num(Limb(q.m_data + 1), n.m_sign), TRUE), normalize)

BitsOf(d)   == {k \in 0..LimbBits : (d \div 2^k) % 2 = 1}
OfBits(S)   == MapThenSumSet(LAMBDA k : 2^k, S)
Operation(op, S, T) ==
  CASE op = "and" -> S \cap T
    [] op = "or"  -> S \cup T
    [] op = "xor" -> (S \cup T) \ (S \cap T)

\* eval_bitwise_and, _or, _xor.  A negative operand becomes the two's complement
\* of MinBits + 1 bits; bit MinBits + 1, which it does not have, is then taken
\* for the sign of the result.
eval_bitwise(op, p, q) ==
  LET twos(n) == IF n.m_sign THEN (2 * Modulus - n.m_data) % (2 * Modulus) ELSE n.m_data
      bits    == Operation(op, BitsOf(twos(p)), BitsOf(twos(q)))
      s       == MinBits + 1 \in bits
      d       == IF s THEN (2 * Modulus - OfBits(bits)) % (2 * Modulus) ELSE OfBits(bits)
  IN
  IF p.m_sign \/ q.m_sign
  THEN IF Checked THEN Raise(p)
       ELSE Then(normalize(Num(Limb(d), FALSE)), LAMBDA n : sign(n, s))
  ELSE LET n == Num(OfBits(Operation(op, BitsOf(p.m_data), BitsOf(q.m_data))), FALSE)
       IN IF Signed /\ op = "or" THEN normalize(n) ELSE Done(n)

----------------------------------------------------------------------------
(* The greatest common divisor and the least common multiple: boost::integer *)
(* computes with the limbs; the sign stays what it was.                      *)

Divides(k, d) == \E j \in 0..d : j * k = d
Gcd(d, e) ==
  IF d = 0 THEN e ELSE IF e = 0 THEN d
  ELSE CHOOSE k \in 1..d :
         /\ Divides(k, d) /\ Divides(k, e)
         /\ \A j \in k + 1 .. d : ~(Divides(j, d) /\ Divides(j, e))

eval_gcd(n, p, q) == Done(Num(Gcd(p.m_data, q.m_data), n.m_sign))

eval_lcm(n, p, q) ==
  LET g == Gcd(p.m_data, q.m_data) IN
  normalize(Num(IF p.m_data = 0 \/ q.m_data = 0 THEN 0
                ELSE Limb((p.m_data \div g) * q.m_data), n.m_sign))

----------------------------------------------------------------------------
(* Comparison. *)

\* compare()
compare(p, q) ==
  IF p.m_sign # q.m_sign THEN IF p.m_sign THEN -1 ELSE 1
  ELSE IF p.m_data = q.m_data THEN 0
  ELSE IF (p.m_data < q.m_data) # p.m_sign THEN -1 ELSE 1

----------------------------------------------------------------------------
(* The calls a program makes. *)

Readable == Obj \ failed

Return(z, o) ==
  /\ UNCHANGED type
  /\ num' = [num EXCEPT ![z] = o.num]
  /\ threw' = o.threw
  /\ failed' = IF ~o.threw THEN failed \ {z}
               ELSE IF o.num # num[z] THEN failed \cup {z} ELSE failed

\* What an arithmetic argument can be.  A type that is not wide has at most
\* MinBits digits; a signed type with exactly that many, such as int for 31,
\* has one value more on the negative side.
Argument(k, wide) ==
  wide \/ Abs(k) < Modulus \/ (k = -Modulus /\ LimbBits = MinBits + 1)
Arguments == -(LimbRange + 1) .. LimbRange + 1
Shifts    == 0 .. LimbBits + 1

Construct(z, k, wide) == Argument(k, wide) /\ Return(z, construct(num[z], k, wide))
Assign(z, k, wide)    == Argument(k, wide) /\ Return(z, assign(num[z], k, wide))
Copy(z, y)        == Return(z, Done(num[y]))
Add(z, y)         == Return(z, eval_add(num[z], num[y]))
Subtract(z, y)    == Return(z, eval_subtract(num[z], num[y]))
Multiply(z, y, w) == Return(z, eval_multiply(num[z], num[y], num[w]))
Divide(z, y)      == Return(z, eval_divide(num[z], num[y]))
Modulo(z, y)      == Return(z, eval_modulus(num[z], num[y]))
LeftShift(z, s)   == Return(z, eval_left_shift(num[z], s))
RightShift(z, s)  == Return(z, eval_right_shift(num[z], s))
\* A static assertion keeps checked signed types out.
Complement(z, y)  == ~(Signed /\ Checked) /\ Return(z, eval_complement(num[z], num[y]))
Bitwise(op, z, y) == Return(z, eval_bitwise(op, num[z], num[y]))
GcdOf(z, y, w)    == Return(z, eval_gcd(num[z], num[y], num[w]))
\* Checked types have the default implementation.
LcmOf(z, y, w)    == ~Checked /\ Return(z, eval_lcm(num[z], num[y], num[w]))
\* A static assertion keeps unsigned types out.
Negate(z)         == Signed /\ Return(z, negate(num[z]))

Init ==
  /\ type \in Types
  /\ num = [y \in Obj |-> Num(0, FALSE)] /\ threw = FALSE /\ failed = {}

Load ==
  \E z \in Obj :
    \/ \E k \in Arguments, wide \in BOOLEAN :
         \/ "construct" \in Calls /\ Construct(z, k, wide)
         \/ "assign" \in Calls /\ Assign(z, k, wide)
    \/ \E y \in Readable : "copy" \in Calls /\ Copy(z, y)

Arithmetic ==
  \E z, y \in Readable :
    \/ "add" \in Calls /\ Add(z, y)
    \/ "subtract" \in Calls /\ Subtract(z, y)
    \/ "divide" \in Calls /\ Divide(z, y)
    \/ "modulus" \in Calls /\ Modulo(z, y)
    \/ "negate" \in Calls /\ Negate(z)

ThreeOperands ==
  \E z \in Obj, y, w \in Readable :
    \/ "multiply" \in Calls /\ Multiply(z, y, w)
    \/ "gcd" \in Calls /\ GcdOf(z, y, w)
    \/ "lcm" \in Calls /\ LcmOf(z, y, w)

Bits ==
  \/ \E z \in Readable, s \in Shifts :
       \/ "left_shift" \in Calls /\ LeftShift(z, s)
       \/ "right_shift" \in Calls /\ RightShift(z, s)
  \/ \E z \in Obj, y \in Readable : "complement" \in Calls /\ Complement(z, y)
  \/ \E z, y \in Readable, op \in {"and", "or", "xor"} \cap Calls : Bitwise(op, z, y)

Next == Load \/ Arithmetic \/ ThreeOperands \/ Bits

Spec == Init /\ [][Next]_vars

----------------------------------------------------------------------------
(* Properties. *)

Normal(n) == n.m_data < Modulus /\ (n.m_sign => Signed /\ n.m_data # 0)

\* The precision of an unchecked signed type overflows without its limb doing
\* so: normalize() then overlooks a zero, and a right shift of what it leaves goes
\* through all bits of the limb.
OverlooksZero == Signed /\ ~Checked /\ MinBits < LimbBits

\* Type invariant: limbs have their width, and an unsigned type has no sign.
TypeOK ==
  /\ type \in Types
  /\ num \in [Obj -> Number]
  /\ threw \in BOOLEAN
  /\ failed \in SUBSET Obj
  /\ ~Signed => \A y \in Obj : ~num[y].m_sign

\* A number whose last call did not throw has no bit above its precision and is
\* no negative zero, whatever calls led to it.
NormalForm == OverlooksZero \/ \A y \in Readable : Normal(num[y])

Value(n) == IF n.m_sign THEN -n.m_data ELSE n.m_data

\* compare() is the order of the values, so that equal values are equal
\* numbers.
ComparesByValue(p, q) ==
  /\ compare(p, q) = 0 <=> Value(p) = Value(q)
  /\ compare(p, q) < 0 <=> Value(p) < Value(q)

PublicType == [signed |-> Signed, checked |-> Checked, modulus |-> Modulus]

\* A call whose exact result is n leaves n in its target, or what the precision
\* leaves of n; a checked type throws instead of losing anything.
Gives(o, n) ==
  IF Checked /\ ~InRange(PublicType, n) THEN o.threw
  ELSE ~o.threw /\ Value(o.num) = Wrapped(PublicType, n)

Quotient(a, b)  == IF (a < 0) # (b < 0) THEN -(Abs(a) \div Abs(b)) ELSE Abs(a) \div Abs(b)
Remainder(a, b) == a - b * Quotient(a, b)

\* With operands in normal form, each call is the operation on integers modulo
\* the precision, or throws: sums, differences, products, quotients and
\* remainders that round towards zero, shifts that round down, complements,
\* comparisons.
\* That holds also of a call that writes to a number which any earlier calls
\* have left negative, wrapped, or (when they threw) out of range.
ComputesExactly ==
  LET sound == {y \in Readable : Normal(num[y])}
      v(y)  == Value(num[y])
  IN
  \A y \in sound :
    /\ \A w \in sound :
         LET p == num[y]
             q == num[w]
         IN
         /\ ComparesByValue(p, q)
         /\ Gives(eval_add(p, q), v(y) + v(w))
         /\ Gives(eval_subtract(p, q), v(y) - v(w))
         /\ IF v(w) = 0
            THEN eval_divide(p, q) = Raise(p) /\ eval_modulus(p, q) = Raise(p)
            ELSE /\ Gives(eval_divide(p, q), Quotient(v(y), v(w)))
                 /\ Gives(eval_modulus(p, q), Remainder(v(y), v(w)))
         /\ \A z \in Obj : Gives(eval_multiply(num[z], p, q), v(y) * v(w))
    /\ \A s \in Shifts : ~(Checked /\ v(y) < 0) =>
         /\ Gives(eval_left_shift(num[y], s), v(y) * 2^s)
         /\ Gives(eval_right_shift(num[y], s), v(y) \div 2^s)
    /\ ~Checked => \A z \in Obj : Gives(eval_complement(num[z], num[y]), -v(y) - 1)

\* The argument that the constructors of a checked signed type do not refuse:
\* the least value of a type of as many bits as theirs.
NotRefused(k, wide) == Checked /\ Signed /\ ~wide /\ k = -Modulus

\* An arithmetic value that does not fit is converted modulo the precision, or
\* refused if the type is checked.
ConvertsExactly ==
  \A z \in Obj, k \in Arguments, wide \in BOOLEAN : Argument(k, wide) =>
    /\ Gives(assign(num[z], k, wide), k)
    /\ Gives(construct(num[z], k, wide), k) \/ NotRefused(k, wide)
=============================================================================
