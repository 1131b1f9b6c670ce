---------------------------- MODULE CppIntBitwise ---------------------------
(***************************************************************************)
(* Bitwise operations and shifts of cpp_int's of several limbs:            *)
(* cpp_int/bitwise.hpp.  Numbers are sign and magnitude; the bitwise       *)
(* operations make up the two's complement of negative operands limb by    *)
(* limb, write the result over the first one, and turn it back at the end. *)
(* The shifts move limbs, or bytes, within the number.                     *)
(*                                                                         *)
(* A number's memory is an integer read limb by limb.  What lies above its *)
(* size is left over from earlier values.                                  *)
(***************************************************************************)
EXTENDS LimbNumbers, FiniteSetsExt

CONSTANTS
  LimbBits, ByteBits,   \* limb_bits and CHAR_BIT
  Types,                \* limbs, the range of the top limb, signed, checked
  Values,               \* what the operands can be
  Shifts                \* what a number is shifted by

BitsAssumption ==
  /\ LimbBits \in Nat /\ Base = 2^LimbBits
  /\ ByteBits \in 1..LimbBits /\ LimbBits % ByteBits = 0
TypesAssumption ==
  Types \subseteq [limbs : Nat \ 0..2, top : 2..Base, signed : BOOLEAN,
                   checked : BOOLEAN]

LogicalOps == {"and", "or", "xor"}

VARIABLES
  call,   \* the running call: its function, its arguments, what they were
  res,    \* the number that is the result and the first operand
  other,  \* the second operand, unless it is the result itself
  pc,
  loop    \* the locals of the functions

vars == <<call, res, other, pc, loop>>

type == call.type
Checked == type.checked
Modulus == Base^(type.limbs - 1) * type.top

Magnitude(n) == n.mem % Base^n.size
Value(n) == Signed(Magnitude(n), n.sign)

\* A number of value v, in memory that held dirt
Number(v, dirt) ==
  LET n == Size(Abs(v)) IN
  [mem |-> (dirt \div Base^n) * Base^n + Abs(v), size |-> n, sign |-> v < 0]

Zero == Number(0, 0)

NoCall == [fn |-> "none", op |-> "and", shift |-> 0, alias |-> FALSE,
           type |-> CHOOSE t \in Types : TRUE, given |-> 0, second |-> 0]
NoLoop == [i |-> 0, rs |-> 0, r_carry |-> 0, o_carry |-> 0, is_neg |-> FALSE]

Init ==
  /\ call = NoCall /\ res = Zero /\ other = Zero
  /\ pc = "idle" /\ loop = NoLoop

----------------------------------------------------------------------------
(* Numbers.                                                                *)

\* resize() stops at the precision of the type.
resized(n, size) == [n EXCEPT !.size = Smaller(size, type.limbs)]

\* normalize(): excess bits are cut off, then leading zeros.
normalized(n) ==
  LET mem == n.mem % Modulus
      s == Size(mem % Base^n.size)
  IN [mem |-> mem, size |-> s, sign |-> n.sign /\ mem % Base^s # 0]

\* verify_limb_mask() and verify_new_size() of a checked type
LosesBits(n) == Checked /\ n.size = type.limbs /\ Magnitude(n) >= Modulus
LosesLimbs(size) == Checked /\ size > type.limbs

\* eval_increment and eval_decrement, from CppIntAddSubtract; the first one takes
\* a lowest limb of zero for a zero.
incremented(n) ==
  LET low == Limb(n.mem, 0) IN
  IF ~n.sign /\ low < Base - 1 THEN [n EXCEPT !.mem = @ + 1]
  ELSE IF n.sign /\ low # 0 THEN [n EXCEPT !.mem = @ - 1, !.sign = low # 1]
  ELSE normalized(Number(Value(n) + 1, 0))

decremented(n) ==
  LET low == Limb(n.mem, 0) IN
  IF ~n.sign /\ low # 0 THEN [n EXCEPT !.mem = @ - 1]
  ELSE IF n.sign /\ low < Base - 1 THEN [n EXCEPT !.mem = @ + 1]
  ELSE normalized(Number(Value(n) - 1, 0))

----------------------------------------------------------------------------
(* The end of a call.                                                      *)

Finish(n) == res' = n /\ pc' = "returned" /\ loop' = NoLoop /\ UNCHANGED <<call, other>>
Throw(n) == res' = n /\ pc' = "threw" /\ loop' = NoLoop /\ UNCHANGED <<call, other>>
Normalize(n) == IF LosesBits(n) THEN Throw(n) ELSE Finish(normalized(n))

Return ==
  /\ pc \in {"returned", "threw"} /\ pc' = "idle"
  /\ call' = NoCall /\ res' = Zero /\ other' = Zero /\ UNCHANGED loop

----------------------------------------------------------------------------
(* Calls.                                                                  *)

InType(v, t) ==
  /\ Abs(v) < Base^(t.limbs - 1) * t.top
  /\ v < 0 => t.signed

\* f is called with the numbers v and w, or with v twice.
Begin(f, t, op, shift, v, w, alias, dirt) ==
  /\ call' = [fn |-> f, op |-> op, shift |-> shift, alias |-> alias, type |-> t,
              given |-> v, second |-> w]
  /\ res' = Number(v, dirt) /\ other' = Number(w, 0)
  /\ pc' = "entered" /\ UNCHANGED loop

Call ==
  /\ pc = "idle"
  /\ \E t \in Types : \E v \in {n \in Values : InType(n, t)}, dirt \in {0, Base^t.limbs - 1} :
       \/ \E op \in LogicalOps, w \in {n \in Values : InType(n, t)}, alias \in BOOLEAN :
            /\ alias => w = v
            /\ Begin("bitwise_op", t, op, 0, v, w, alias, dirt)
       \/ \E op \in LogicalOps, l \in 0 .. Base - 1 :
            ~t.signed /\ Begin("by_limb", t, op, 0, v, l, FALSE, dirt)
       \/ \E alias \in BOOLEAN :
            /\ ~(t.signed /\ t.checked)   \* by a static assertion
            /\ Begin("eval_complement", t, "xor", 0, v, v, alias, dirt)
       \/ \E s \in Shifts, f \in {"eval_left_shift", "eval_right_shift"} :
            Begin(f, t, "xor", s, v, 0, FALSE, dirt)

Entered(f) == pc = "entered" /\ call.fn = f

----------------------------------------------------------------------------
(* Bitwise operations.                                                     *)

Bit(n, k) == (n \div 2^k) % 2
Logical(op, j, k) ==
  CASE op = "and" -> j * k
    [] op = "or"  -> Larger(j, k)
    [] op = "xor" -> (j + k) % 2

\* op on the bits of two limbs
limb_op(op, j, k) ==
  MapThenSumSet(LAMBDA b : 2^b * Logical(op, Bit(j, b), Bit(k, b)), 0 .. LimbBits - 1)

\* The second operand, which the result may be written over
second == IF call.alias THEN res ELSE other

\* is_valid_bitwise_op, then the result is as long as the longer operand.
BeginBitwise ==
  /\ Entered("bitwise_op")
  /\ IF Checked /\ (res.sign \/ second.sign) THEN Throw(res)
     ELSE LET x == Larger(res.size, second.size) IN
          /\ res' = [resized(res, x) EXCEPT !.mem = res.mem % Base^res.size]
          /\ loop' = [NoLoop EXCEPT !.rs = second.size, !.r_carry = 1, !.o_carry = 1]
          /\ pc' = "mix" /\ UNCHANGED <<call, other>>

\* Fault: the carry into a limb is lost.
twosUncarried(l, neg, carry) == IF neg THEN Base - 1 - l ELSE l

\* A limb of an operand in two's complement, before it is cut off
twos(l, neg, carry) == IF neg THEN carry + Base - 1 - l ELSE l

MixLimb ==
  /\ pc = "mix" /\ loop.i < res.size
  /\ LET i == loop.i
         l == twos(Limb(res.mem, i), res.sign, loop.r_carry)
         o == twos(IF i < loop.rs THEN Limb(second.mem, i) ELSE 0, second.sign, loop.o_carry)
     IN /\ res' = [res EXCEPT !.mem = WithLimb(@, i, limb_op(call.op, l % Base, o % Base))]
        /\ loop' = [loop EXCEPT !.i = i + 1, !.r_carry = l \div Base, !.o_carry = o \div Base]
  /\ UNCHANGED <<call, other, pc>>

\* The limb that would follow
next_limb(l, o) == limb_op(call.op, l, o)

\* The sign of the limb that would follow is the sign of the result.
MixDone ==
  /\ pc = "mix" /\ loop.i = res.size
  /\ LET extra(neg, carry) == IF neg THEN (carry + Base - 1) % Base ELSE 0
         next == next_limb(extra(res.sign, loop.r_carry), extra(second.sign, loop.o_carry))
     IN IF next >= Base \div 2
        THEN /\ loop' = [NoLoop EXCEPT !.r_carry = 1] /\ pc' = "turn"
             /\ UNCHANGED <<call, res, other>>
        ELSE Normalize([res EXCEPT !.sign = FALSE])

TurnLimb ==
  /\ pc = "turn" /\ loop.i < res.size
  /\ LET l == loop.r_carry + Base - 1 - Limb(res.mem, loop.i) IN
     /\ res' = [res EXCEPT !.mem = WithLimb(@, loop.i, l % Base)]
     /\ loop' = [loop EXCEPT !.i = @ + 1, !.r_carry = l \div Base]
  /\ UNCHANGED <<call, other, pc>>

\* A carry out of the last limb makes the number longer, if its type allows.
carried(n) ==
  IF loop.r_carry = 0 \/ n.size = type.limbs THEN n
  ELSE [n EXCEPT !.mem = WithLimb(@, n.size, loop.r_carry), !.size = @ + 1]

TurnDone ==
  /\ pc = "turn" /\ loop.i = res.size
  /\ Normalize([carried(res) EXCEPT !.sign = TRUE])

\* The second operand is a limb; unsigned types only.
ByLimb ==
  /\ Entered("by_limb")
  /\ LET n == [res EXCEPT !.mem =
                 WithLimb(@, 0, limb_op(call.op, Limb(@, 0), Magnitude(other)))]
     IN Finish(IF call.op = "and" THEN resized(n, 1) ELSE n)

Complement ==
  /\ Entered("eval_complement")
  /\ IF type.signed
     THEN LET n == incremented(second) IN
          Finish([n EXCEPT !.sign = ~@ /\ Magnitude(n) # 0])
     ELSE Normalize([mem |-> Base^type.limbs - 1 - Magnitude(second),
                     size |-> type.limbs, sign |-> FALSE])

----------------------------------------------------------------------------
(* Shifts.                                                                 *)

offset == call.shift \div LimbBits
bits == call.shift % LimbBits        \* shift in the code
ByBytes == call.shift % ByteBits = 0

\* rs of the left shift; sizes that do not fit an unsigned are left out.
ShiftedSize ==
  res.size + offset + (IF Limb(res.mem, res.size - 1) * 2^bits >= Base THEN 1 ELSE 0)

\* The top limb is cleared if the size changes.
grown(n, size) ==
  LET g == resized(n, size) IN
  IF g.size = n.size THEN g ELSE [g EXCEPT !.mem = WithLimb(@, g.size - 1, 0)]

\* memmove(pc + s, pc, len), memset(pc, 0, s), with s and len in bits
MovedUp(mem, s, len) ==
  (mem \div 2^(s + len)) * 2^(s + len) + (mem % 2^len) * 2^s

\* memmove(pc, pc + s, len)
MovedDown(mem, s, len) ==
  (mem \div 2^len) * 2^len + ((mem \div 2^s) % 2^len)

\* The left shift of the memory of g, which had n limbs, by bytes
left_shift_byte(g, n) ==
  IF call.shift >= g.size * LimbBits THEN [g EXCEPT !.mem = 0, !.size = 1, !.sign = FALSE]
  ELSE [g EXCEPT !.mem = MovedUp(@, call.shift,
                           Smaller(n * LimbBits, g.size * LimbBits - call.shift))]

LeftShift ==
  /\ Entered("eval_left_shift")
  /\ IF Checked /\ res.sign THEN Throw(res)
     ELSE IF call.shift = 0 \/ Magnitude(res) = 0 THEN Finish(res)
     ELSE IF LosesLimbs(ShiftedSize) THEN Throw(res)
     ELSE IF ByBytes THEN Normalize(left_shift_byte(grown(res, ShiftedSize), res.size))
     ELSE /\ res' = resized(res, ShiftedSize)
          /\ loop' = [NoLoop EXCEPT !.i = res'.size, !.rs = res.size]
          /\ pc' = "left" /\ UNCHANGED <<call, other>>

\* Limb k of the number before the shift
sourceOf(k) == IF k \in 0 .. loop.rs - 1 THEN Limb(res.mem, k) ELSE 0

\* Fault: the limbs are shifted from below, over those still to be read.
LeftShiftLimbFromBelow ==
  /\ pc = "left" /\ loop.i > 0
  /\ LET k == res.size - loop.i
         l == ((sourceOf(k - offset) * 2^bits) % Base)
                + (sourceOf(k - offset - 1) \div 2^(LimbBits - bits))
     IN res' = [res EXCEPT !.mem = WithLimb(@, k, l)]
  /\ loop' = [loop EXCEPT !.i = @ - 1]
  /\ UNCHANGED <<call, other, pc>>

\* One limb of left_shift_generic, from the top down
LeftShiftLimb ==
  /\ pc = "left" /\ loop.i > 0
  /\ LET k == loop.i - 1
         l == ((sourceOf(k - offset) * 2^bits) % Base)
                + (sourceOf(k - offset - 1) \div 2^(LimbBits - bits))
     IN res' = [res EXCEPT !.mem = WithLimb(@, k, l)]
  /\ loop' = [loop EXCEPT !.i = @ - 1]
  /\ UNCHANGED <<call, other, pc>>

LeftShiftDone == pc = "left" /\ loop.i = 0 /\ Normalize(res)

\* A negative number is incremented before and decremented after the shift, so
\* that it is rounded down.
rounded(n) == IF n.sign THEN incremented(n) ELSE n

RightShift ==
  /\ Entered("eval_right_shift")
  /\ IF Checked /\ res.sign THEN Throw(res)
     ELSE IF call.shift = 0 THEN Finish(res)
     ELSE /\ res' = rounded(res)
          /\ loop' = [NoLoop EXCEPT !.is_neg = res.sign]
          /\ pc' = "right" /\ UNCHANGED <<call, other>>

\* The end of eval_right_shift
Shifted(n) == Finish(IF loop.is_neg THEN decremented(n) ELSE n)

\* The right shift by bytes; the rest of the top limb is masked out.
right_shift_byte(n) ==
  LET len == n.size * LimbBits - call.shift
      rs == n.size - offset
      moved == MovedDown(n.mem, call.shift, len)
      top == Limb(moved, rs - 1) % 2^(LimbBits - bits)
      shortens == bits # 0 /\ top = 0 /\ rs > 1
  IN [n EXCEPT !.mem = WithLimb(moved, rs - 1, top), !.size = IF shortens THEN rs - 1 ELSE rs]

\* The size that right_shift_generic leaves
GenericSize == res.size - offset - (IF Limb(res.mem, res.size - 1) \div 2^bits = 0 THEN 1 ELSE 0)

RightShiftBegin ==
  /\ pc = "right"
  /\ IF offset >= res.size \/ (~ByBytes /\ GenericSize = 0) THEN Shifted(Zero)
     ELSE IF ByBytes THEN Shifted(right_shift_byte(res))
     ELSE /\ loop' = [loop EXCEPT !.rs = GenericSize, !.i = 0]
          /\ pc' = "right_limbs" /\ UNCHANGED <<call, res, other>>

\* One limb of right_shift_generic, from below
RightShiftLimb ==
  /\ pc = "right_limbs" /\ loop.i + offset < res.size
  /\ LET k == loop.i + offset
         above == IF k + 1 < res.size THEN Limb(res.mem, k + 1) ELSE 0
         l == (Limb(res.mem, k) \div 2^bits) + ((above * 2^(LimbBits - bits)) % Base)
     IN res' = [res EXCEPT !.mem = WithLimb(@, loop.i, l)]
  /\ loop' = [loop EXCEPT !.i = @ + 1]
  /\ UNCHANGED <<call, other, pc>>

RightShiftDone ==
  /\ pc = "right_limbs" /\ loop.i + offset = res.size
  /\ Shifted(resized(res, loop.rs))

Step ==
  \/ BeginBitwise \/ MixLimb \/ MixDone \/ TurnLimb \/ TurnDone \/ ByLimb \/ Complement
  \/ LeftShift \/ LeftShiftLimb \/ LeftShiftDone
  \/ RightShift \/ RightShiftBegin \/ RightShiftLimb \/ RightShiftDone

Next == Call \/ Step \/ Return

Spec == Init /\ [][Next]_vars /\ WF_vars(Step)

----------------------------------------------------------------------------
(* Properties.                                                             *)

TypeOK ==
  /\ call.type \in Types /\ call.shift \in Nat /\ call.alias \in BOOLEAN
  /\ \A n \in {res, other} :
       n.mem \in 0 .. Base^type.limbs - 1 /\ n.size \in 1..type.limbs /\ n.sign \in BOOLEAN
  /\ pc \in {"idle", "entered", "mix", "turn", "left", "right", "right_limbs",
             "returned", "threw"}
  /\ loop \in [i : 0..type.limbs, rs : Nat, r_carry : 0..1, o_carry : 0..1,
               is_neg : BOOLEAN]

\* op on two integers in two's complement without end
OfIntegers(op, v, w) ==
  LET n == LimbBits * type.limbs
      sign == Logical(op, IF v < 0 THEN 1 ELSE 0, IF w < 0 THEN 1 ELSE 0)
  IN MapThenSumSet(LAMBDA b : 2^b * Logical(op, Bit(v, b), Bit(w, b)), 0 .. n - 1) - sign * 2^n

\* The value of n that remains, in sign and magnitude
Wrapped(n) == Signed(Abs(n) % Modulus, n < 0)

\* eval_increment loses the sign: see IncrementAddsOne of CppIntAddSubtract.
SignLost == call.given < 0 /\ Size(Abs(call.given)) > 1 /\ Limb(Abs(call.given), 0) = 1

IsNormal(n) ==
  /\ n.size = Size(Magnitude(n)) /\ Magnitude(n) < Modulus
  /\ n.sign => type.signed /\ Magnitude(n) # 0

\* What a bitwise operation or a complement returns is what it does to two's
\* complement integers of any length, less what the type has no room for, in
\* normal form, also when its operands are the result.  Only a checked type
\* throws: for a negative operand, and for the complement of a number whose
\* top limb is not used up.
BitwiseOfTwosComplement ==
  /\ call.fn \in {"bitwise_op", "by_limb"} =>
       /\ pc = "returned" =>
            IsNormal(res) /\ Value(res) = Wrapped(OfIntegers(call.op, call.given, call.second))
       /\ pc = "threw" => Checked /\ (call.given < 0 \/ call.second < 0)
  /\ call.fn = "eval_complement" =>
       /\ pc = "returned" /\ ~SignLost =>
            /\ IsNormal(res)
            /\ Value(res) = IF type.signed THEN Wrapped(-call.given - 1)
                            ELSE Modulus - 1 - call.given
       /\ pc = "threw" => Checked /\ type.top < Base

Precision == CHOOSE n \in 1 .. LimbBits * type.limbs : 2^n = Modulus

\* v * 2^s, less what the type has no room for
ShiftedLeft(v, s) ==
  IF s >= Precision THEN 0 ELSE Signed((Abs(v) % 2^(Precision - s)) * 2^s, v < 0)
TooFar(v, s) == v # 0 /\ (s >= Precision \/ Abs(v) >= 2^(Precision - s))

\* A left shift multiplies by a power of two and a right shift divides by one,
\* rounding down, at every distance: inside a limb, by bytes, by whole limbs and
\* past the end, whatever the memory above the number held.  Only a checked type
\* throws: for a negative number, or if a bit would be lost.
ShiftsExactly ==
  /\ call.fn = "eval_left_shift" =>
       LET s == call.shift IN
       /\ pc = "returned" =>
            /\ IsNormal(res) /\ Value(res) = ShiftedLeft(call.given, s)
            /\ Checked => ~TooFar(call.given, s)
       /\ pc = "threw" => Checked /\ (call.given < 0 \/ TooFar(call.given, s))
  /\ call.fn = "eval_right_shift" =>
       /\ pc = "returned" /\ ~SignLost =>
            IsNormal(res) /\ Value(res) = call.given \div 2^Smaller(call.shift, Precision)
       /\ pc = "threw" => Checked /\ call.given < 0
=============================================================================
