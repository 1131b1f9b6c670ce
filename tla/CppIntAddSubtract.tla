-------------------------- MODULE CppIntAddSubtract -------------------------
(***************************************************************************)
(* Addition and subtraction of cpp_int's that occupy several limbs:        *)
(* cpp_int/add.hpp.  A call runs limb by limb, and its result may be one   *)
(* of its operands, or both, so that the call overwrites what it is still  *)
(* reading.  One step of a loop of the code is one step here.              *)
(*                                                                         *)
(* limbs is the least significant limb first; limb i of the code is        *)
(* limbs[i + 1].  Memory management is CppIntStorage's business: here      *)
(* there is always room for MaxLimbs limbs, but a limb that resize() has   *)
(* just exposed holds anything.                                            *)
(***************************************************************************)
EXTENDS Integers, Sequences

CONSTANTS
  Obj,        \* the numbers of the program
  Base,       \* 2^limb_bits
  MaxLimbs,   \* max_limbs or internal_limb_count
  TopLimb,    \* upper_limb_mask + 1
  Types       \* the types that a program may use

CallNames == {"assign", "add", "subtract", "add_limb", "subtract_limb",
              "add_signed_limb", "increment", "decrement"}

ASSUME SizesAssumption ==
  /\ Base \in Nat /\ Base >= 2
  /\ MaxLimbs \in Nat /\ MaxLimbs >= 2
  /\ TopLimb \in 2..Base /\ Base % TopLimb = 0
  /\ TopLimb < Base => MaxLimbs > 2   \* shorter types are CppIntTrivial's
ASSUME TypesAssumption ==
  Types \subseteq [signed : BOOLEAN, checked : BOOLEAN, calls : SUBSET CallNames]

Limb == 0 .. Base - 1
SignedLimb == -(Base \div 2) .. (Base \div 2) - 1
Number == [limbs : UNION {[1..n -> Limb] : n \in 1..MaxLimbs}, sign : BOOLEAN]

VARIABLES
  type,       \* the type of the numbers, and what the program does with them
  num,        \* the numbers
  before,     \* the numbers as they were when the running call began
  exact,      \* what the last call has to compute, as an integer
  failed,     \* the numbers whose last call threw
  pc,         \* the loop the running call is in, "idle" if there is no call
  r, a,       \* arguments of the running call: its result, its first operand
  pa, pb,     \* the operands that the limb pointers point into
  m, x,       \* the smaller and the larger of the operands' sizes
  i,          \* the next limb
  carry,      \* the carry, or the borrow
  swapped     \* subtraction: was the second operand the larger one?

args == <<r, a, pa, pb, m, x, swapped>>
vars == <<type, num, before, exact, failed, pc, r, a, pa, pb, m, x, i, carry, swapped>>

Signed  == type.signed     \* signed_magnitude or unsigned_magnitude
Checked == type.checked    \* cpp_int_check_type
Calls   == type.calls

----------------------------------------------------------------------------
(* Numbers. *)

Zero == [limbs |-> <<0>>, sign |-> FALSE]
size(y) == Len(num[y].limbs)

Magnitude(s) ==
  LET f[k \in 0 .. Len(s)] ==
        IF k = 0 THEN 0 ELSE s[Len(s) - k + 1] + Base * f[k - 1]
  IN f[Len(s)]
Value(n) == IF n.sign THEN -Magnitude(n.limbs) ELSE Magnitude(n.limbs)

Smaller(k, n) == IF k < n THEN k ELSE n
Larger(k, n)  == IF k < n THEN n ELSE k

\* resize(): limbs that it exposes hold anything.
resized(s, n) ==
  {t \in [1..n -> Limb] : \A j \in 1..Smaller(n, Len(s)) : t[j] = s[j]}

\* The length without leading zeros, for normalize()
Used(s) == CHOOSE n \in 1..Len(s) :
             /\ \A j \in n + 1 .. Len(s) : s[j] = 0
             /\ n > 1 => s[n] # 0

\* Fault: leading zeros stay.
normalizedNot(s) == s

\* normalize() of an unchecked type
normalized(s) ==
  LET t == IF Len(s) = MaxLimbs THEN [s EXCEPT ![MaxLimbs] = @ % TopLimb] ELSE s
  IN SubSeq(t, 1, Used(t))

\* Fault: the mask is not verified.
OverflowsNever(s) == FALSE

\* verify_limb_mask() throws
Overflows(s) == Checked /\ Len(s) = MaxLimbs /\ s[MaxLimbs] >= TopLimb

\* One more than the magnitude s, in at most MaxLimbs limbs
Successor(s) ==
  LET full == {k \in 1..Len(s) : \A j \in 1..k : s[j] = Base - 1}
      n == Smaller(MaxLimbs, IF Len(s) \in full THEN Len(s) + 1 ELSE Len(s))
  IN [k \in 1..n |-> IF k \in full THEN 0
                     ELSE IF k > 1 /\ k - 1 \notin full THEN s[k]
                     ELSE IF k > Len(s) THEN 1 ELSE s[k] + 1]

\* negate() of an unsigned type, for numbers other than zero
complement(s) ==
  Successor(normalized([k \in 1..MaxLimbs |->
    Base - 1 - (IF k <= Len(s) THEN s[k] ELSE 0)]))

\* sign(neg) on the normalized limbs s, which an unsigned type answers with
\* negate()
signed(s, neg) ==
  IF Signed THEN [limbs |-> s, sign |-> neg /\ s # <<0>>]
  ELSE [limbs |-> IF neg /\ s # <<0>> THEN complement(s) ELSE s, sign |-> FALSE]

----------------------------------------------------------------------------
(* The end of a call. *)

Finish(z, n, bad) ==
  /\ UNCHANGED type
  /\ num' = [num EXCEPT ![z] = n]
  /\ before' = num'
  /\ failed' = IF bad THEN failed \cup {z} ELSE failed \ {z}
  /\ pc' = "idle" /\ i' = 0 /\ carry' = 0
  /\ r' = z /\ a' = z /\ pa' = z /\ pb' = z /\ m' = 0 /\ x' = 0 /\ swapped' = FALSE

Return(z, n) == Finish(z, n, FALSE)
Throw(z, s)  == Finish(z, [num[z] EXCEPT !.limbs = s], TRUE)

\* normalize(), then sign(neg).  Both can throw if the type is checked.
Deliver(z, s, neg) ==
  IF Overflows(s) \/ (Checked /\ ~Signed /\ neg /\ normalized(s) # <<0>>)
  THEN Throw(z, s)
  ELSE Return(z, signed(normalized(s), neg))

----------------------------------------------------------------------------
(* The beginning of a call. *)

\* The limbs of z become t, and loop l begins at limb k.
Enter(l, z, y, t, k, c) ==
  /\ num' = [num EXCEPT ![z].limbs = t]
  /\ pc' = l /\ r' = z /\ a' = y /\ i' = k /\ carry' = c
  /\ UNCHANGED <<type, before, failed>>

\* Fault: the pointers are not exchanged when the second operand is longer.
add_unsignedInOrder(z, y, w) ==
  LET n == Larger(size(y), size(w)) IN
  IF n = 1
  THEN LET sum == num[y].limbs[1] + num[w].limbs[1] IN
       Return(z, signed(IF sum < Base THEN <<sum>> ELSE <<sum % Base, 1>>, num[y].sign))
  ELSE /\ \E t \in resized(num[z].limbs, n) : Enter("add", z, y, t, 1, 0)
       /\ m' = Smaller(size(y), size(w)) /\ x' = n
       /\ pa' = y /\ pb' = w
       /\ swapped' = FALSE

\* add_unsigned(result, a, b)
add_unsigned(z, y, w) ==
  LET n == Larger(size(y), size(w)) IN
  IF n = 1
  THEN LET sum == num[y].limbs[1] + num[w].limbs[1] IN
       Return(z, signed(IF sum < Base THEN <<sum>> ELSE <<sum % Base, 1>>, num[y].sign))
  ELSE /\ \E t \in resized(num[z].limbs, n) : Enter("add", z, y, t, 1, 0)
       /\ m' = Smaller(size(y), size(w)) /\ x' = n
       /\ pa' = IF size(y) < size(w) THEN w ELSE y
       /\ pb' = IF size(y) < size(w) THEN y ELSE w
       /\ swapped' = FALSE

\* a.compare_unsigned(b) < 0
less_unsigned(s, t) ==
  \/ Len(s) < Len(t)
  \/ /\ Len(s) = Len(t)
     /\ \E k \in 1..Len(s) :
          s[k] < t[k] /\ \A j \in k + 1 .. Len(s) : s[j] = t[j]

\* subtract_unsigned(result, a, b)
subtract_unsigned(z, y, w) ==
  LET n == Larger(size(y), size(w))
      less == less_unsigned(num[y].limbs, num[w].limbs)
  IN
  IF n = 1
  THEN LET al == num[y].limbs[1]
           bl == num[w].limbs[1]
       IN Deliver(z, <<IF bl > al THEN bl - al ELSE al - bl>>, num[y].sign # (bl > al))
  ELSE IF num[y].limbs = num[w].limbs THEN Return(z, Zero)
  ELSE /\ \E t \in resized(num[z].limbs, n) : Enter("subtract", z, y, t, 1, 0)
       /\ m' = Smaller(size(y), size(w)) /\ x' = n
       /\ pa' = IF less THEN w ELSE y
       /\ pb' = IF less THEN y ELSE w
       /\ swapped' = less

\* add_unsigned(result, a, limb)
add_unsigned_limb(z, y, o) ==
  /\ \E t \in resized(num[z].limbs, size(y)) : Enter("add_limb", z, y, t, 1, o)
  /\ pa' = y /\ pb' = y /\ m' = 0 /\ x' = size(y) /\ swapped' = FALSE

\* subtract_unsigned(result, a, limb)
subtract_unsigned_limb(z, y, o) ==
  LET s == num[y].limbs
      low == s[1]
  IN
  IF low >= o
  THEN Return(z, signed([s EXCEPT ![1] = low - o], num[y].sign))
  ELSE IF Len(s) = 1
  THEN Deliver(z, <<o - low>>, ~num[y].sign)
  ELSE /\ \E t \in resized(num[z].limbs, Len(s)) :
            Enter("subtract_limb", z, y, [t EXCEPT ![1] = Base + low - o], 2, 1)
       /\ pa' = y /\ pb' = y /\ m' = 0 /\ x' = Len(s) /\ swapped' = FALSE

----------------------------------------------------------------------------
(* The functions that the front end calls. *)

\* Operands have a value; the target may be any number.
Readable == Obj \ failed

eval_add(z, y, w) ==
  IF num[y].sign # num[w].sign THEN subtract_unsigned(z, y, w) ELSE add_unsigned(z, y, w)

eval_subtract(z, y, w) ==
  IF num[y].sign # num[w].sign THEN add_unsigned(z, y, w) ELSE subtract_unsigned(z, y, w)

eval_add_limb(z, y, o) ==
  IF num[y].sign THEN subtract_unsigned_limb(z, y, o) ELSE add_unsigned_limb(z, y, o)

eval_subtract_limb(z, y, o) ==
  IF num[y].sign THEN add_unsigned_limb(z, y, o) ELSE subtract_unsigned_limb(z, y, o)

\* eval_add(result, a, signed_limb); eval_subtract is its mirror image.
eval_add_signed_limb(z, y, o) ==
  IF o < 0 THEN eval_subtract_limb(z, y, -o)
  ELSE IF o > 0 THEN eval_add_limb(z, y, o)
  ELSE Return(z, num[y])

\* do_assign_arithmetic, from a limb or a signed limb
assign(z, o) == Deliver(z, <<IF o < 0 THEN -o ELSE o>>, o < 0)

WithLow(y, l) == [num[y] EXCEPT !.limbs[1] = l]

eval_increment(z) ==
  LET low == num[z].limbs[1] IN
  IF ~num[z].sign /\ low < Base - 1 THEN Return(z, WithLow(z, low + 1))
  ELSE IF num[z].sign /\ low # 0
  THEN Return(z, IF low = 1 THEN [WithLow(z, 0) EXCEPT !.sign = FALSE]
                 ELSE WithLow(z, low - 1))
  ELSE eval_add_limb(z, z, 1)

eval_decrement(z) ==
  LET low == num[z].limbs[1] IN
  IF ~num[z].sign /\ low # 0 THEN Return(z, WithLow(z, low - 1))
  ELSE IF num[z].sign /\ low < Base - 1 THEN Return(z, WithLow(z, low + 1))
  ELSE eval_subtract_limb(z, z, 1)

\* The program calls f, which has to yield n.
Run(f, n) == f \in Calls /\ exact' = n

Call ==
  /\ pc = "idle"
  /\ \/ \E z \in Obj, o \in Limb \cup SignedLimb : Run("assign", o) /\ assign(z, o)
     \/ \E z \in Obj, y \in Readable :
       \/ \E w \in Readable :
            \/ Run("add", Value(num[y]) + Value(num[w])) /\ eval_add(z, y, w)
            \/ Run("subtract", Value(num[y]) - Value(num[w])) /\ eval_subtract(z, y, w)
       \/ \E o \in Limb :
            \/ Run("add_limb", Value(num[y]) + o) /\ eval_add_limb(z, y, o)
            \/ Run("subtract_limb", Value(num[y]) - o) /\ eval_subtract_limb(z, y, o)
       \/ \E o \in SignedLimb :
            Run("add_signed_limb", Value(num[y]) + o) /\ eval_add_signed_limb(z, y, o)
       \/ z = y /\ Run("increment", Value(num[z]) + 1) /\ eval_increment(z)
       \/ z = y /\ Run("decrement", Value(num[z]) - 1) /\ eval_decrement(z)

----------------------------------------------------------------------------
(* The loops. *)

\* Limb k of the operand that pointer p points into
at(p, k) == num[p].limbs[k]

Store(l, k, c) ==
  /\ num' = [num EXCEPT ![r].limbs[i] = l]
  /\ i' = k /\ carry' = c
  /\ UNCHANGED <<type, before, failed, pc, args>>

\* The limbs of r from k on become those that pa points at.
CopiedFrom(k) == [j \in 1..size(r) |-> IF j < k THEN at(r, j) ELSE at(pa, j)]

\* Fault: the carry is put into the next limb of the result right away.
AddOverlapEarly ==
  /\ pc = "add" /\ i <= m
  /\ LET sum == carry + at(pa, i) + at(pb, i)
         c   == sum \div Base
     IN /\ num' = [num EXCEPT ![r].limbs =
                     [j \in DOMAIN @ |-> IF j = i THEN sum % Base
                                         ELSE IF j = i + 1 THEN c ELSE @[j]]]
        /\ i' = i + 1 /\ carry' = c
        /\ UNCHANGED <<type, before, failed, pc, args>>

\* Where both operands have digits
AddOverlap ==
  /\ pc = "add" /\ i <= m
  /\ LET sum == carry + at(pa, i) + at(pb, i)
     IN Store(sum % Base, i + 1, sum \div Base)

\* Where only the longer one has digits
AddTail ==
  /\ pc = "add" /\ m < i /\ i <= x /\ carry # 0
  /\ LET sum == carry + at(pa, i) IN Store(sum % Base, i + 1, sum \div Base)

\* A carry out of the last limb, which the type may have no room for
CarryOut(s) ==
  IF carry = 0 THEN Deliver(r, s, num[a].sign)
  ELSE IF Len(s) = MaxLimbs
  THEN IF Checked THEN Throw(r, s) ELSE Deliver(r, s, num[a].sign)
  ELSE Deliver(r, Append(s, carry), num[a].sign)

AddEnd ==
  /\ pc = "add" /\ m < i /\ (i > x \/ carry = 0)
  /\ CarryOut(CopiedFrom(i))

\* The carry ripples through the limbs of a.
AddLimbStep ==
  /\ pc = "add_limb" /\ carry # 0 /\ i <= x
  /\ LET sum == carry + at(pa, i) IN Store(sum % Base, i + 1, sum \div Base)

AddLimbEnd ==
  /\ pc = "add_limb" /\ (carry = 0 \/ i > x)
  /\ CarryOut(CopiedFrom(i))

SubtractOverlap ==
  /\ pc = "subtract" /\ i <= m
  /\ LET d == at(pa, i) - at(pb, i) - carry
     IN Store(d % Base, i + 1, IF d < 0 THEN 1 ELSE 0)

SubtractTail ==
  /\ pc = "subtract" /\ m < i /\ i <= x /\ carry # 0
  /\ LET d == at(pa, i) - carry IN Store(d % Base, i + 1, IF d < 0 THEN 1 ELSE 0)

\* Fault: the sign is not turned round when the operands were exchanged.
SubtractEndKeepsSign ==
  /\ pc = "subtract" /\ m < i /\ (i > x \/ carry = 0)
  /\ Deliver(r, CopiedFrom(i), num[a].sign)

SubtractEnd ==
  /\ pc = "subtract" /\ m < i /\ (i > x \/ carry = 0)
  /\ Deliver(r, CopiedFrom(i), num[a].sign # swapped)

\* The borrow runs over zero limbs up to the first that is not zero.
SubtractLimbStep ==
  /\ pc = "subtract_limb" /\ at(pa, i) = 0
  /\ Store(Base - 1, i + 1, 1)

SubtractLimbEnd ==
  /\ pc = "subtract_limb" /\ at(pa, i) # 0
  /\ Deliver(r, [CopiedFrom(i) EXCEPT ![i] = at(pa, i) - 1], num[a].sign)

Step ==
  /\ UNCHANGED exact
  /\ \/ AddOverlap \/ AddTail \/ AddEnd
     \/ AddLimbStep \/ AddLimbEnd
     \/ SubtractOverlap \/ SubtractTail \/ SubtractEnd
     \/ SubtractLimbStep \/ SubtractLimbEnd

Init ==
  /\ type \in Types
  /\ num = [y \in Obj |-> Zero] /\ before = num /\ exact = 0 /\ failed = {}
  /\ pc = "idle" /\ i = 0 /\ carry = 0
  /\ r \in Obj /\ a = r /\ pa = r /\ pb = r /\ m = 0 /\ x = 0 /\ swapped = FALSE

Next == Call \/ Step

Spec == Init /\ [][Next]_vars

----------------------------------------------------------------------------
(* Properties. *)

Loops == {"add", "add_limb", "subtract", "subtract_limb"}

\* Type invariant.
TypeOK ==
  /\ type \in Types
  /\ num \in [Obj -> Number] /\ before \in [Obj -> Number]
  /\ exact \in Int
  /\ failed \in SUBSET Obj
  /\ pc \in Loops \cup {"idle"}
  /\ r \in Obj /\ a \in Obj /\ pa \in Obj /\ pb \in Obj
  /\ m \in 0..MaxLimbs /\ x \in 0..MaxLimbs /\ i \in 0 .. MaxLimbs + 1
  /\ carry \in Limb /\ swapped \in BOOLEAN

Normal(n) ==
  LET s == n.limbs IN
  /\ Len(s) > 1 => s[Len(s)] # 0
  /\ Len(s) = MaxLimbs => s[MaxLimbs] < TopLimb
  /\ n.sign => Signed /\ s # <<0>>

\* Whatever is not being written is in normal form: no leading zero limb, no
\* bit above the precision, no negative zero, no sign on an unsigned type.
\* Comparison and the single limb subtraction rely on it.
NormalForm ==
  \A y \in Obj : (pc = "idle" \/ y # r) /\ y \notin failed => Normal(num[y])

\* The loops read and write inside their operands, also after resize() has
\* changed the size of an operand that is the result.  Nothing but the normal
\* form stops the search for a limb that is not zero in subtract_unsigned.
LoopsStayInBounds ==
  /\ pc \in Loops => size(r) = x /\ (i <= x => i <= size(pa))
  /\ pc \in {"add", "subtract"} /\ i <= m => i <= size(pb)
  /\ pc = "subtract_limb" => i <= x

\* The limbs that a loop has yet to read are those the call was given, though
\* the result is being written over one of the operands, or over both.
UnreadLimbsKept ==
  pc \in Loops =>
    /\ \A k \in i..x : k <= Len(before[pa].limbs) => at(pa, k) = before[pa].limbs[k]
    /\ \A k \in i..m : at(pb, k) = before[pb].limbs[k]

CONSTANT Unspecified
BitsLeft == LET f[k \in 1..MaxLimbs] == IF k = 1 THEN TopLimb ELSE Base * f[k - 1]
            IN f[MaxLimbs]
PublicType == [signed |-> Signed, checked |-> Checked, modulus |-> BitsLeft]
Arithmetic == INSTANCE BoundedIntegers WITH
  MaxSmall <- Base - 1,
  type <- PublicType,
  to <- r,
  val <- [y \in Obj |-> IF y \in failed THEN Unspecified ELSE Value(before[y])]

\* A call is integer addition or subtraction, whichever of its arguments are
\* the same number, with the wrap or the exception that the type is declared
\* to have; it changes no number but its result.
ImplementsArithmetic == Arithmetic!Spec

\* eval_increment(b) "increments the value of b by one", also when it writes
\* to the lowest limb and leaves the others alone.
IncrementAddsOne ==
  [][\A z \in Readable :
       pc = "idle" /\ eval_increment(z) /\ pc' = "idle" /\ z \notin failed'
         => Value(before'[z]) = Arithmetic!Wrapped(PublicType, Value(num[z]) + 1)]_vars
=============================================================================
