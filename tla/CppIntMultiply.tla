--------------------------- MODULE CppIntMultiply ---------------------------
(***************************************************************************)
(* Multiplication of cpp_int's of several limbs up to the cut-off of       *)
(* CppIntKaratsuba: cpp_int/multiply.hpp.  Rows of products are added up in *)
(* the result, which may not be an operand then; a product by one limb is  *)
(* computed in place.                                                      *)
(*                                                                         *)
(* A number's memory is an integer read limb by limb.  What lies above its *)
(* size is left over from earlier values.                                  *)
(***************************************************************************)
EXTENDS LimbNumbers

CONSTANTS
  Types,       \* limbs, range of the top limb, signed, checked, fixed precision
  Values,      \* what the operands can be
  Limbs        \* operands of one limb, signed or not

ASSUME TypesAssumption ==
  /\ Types \subseteq [limbs : Nat \ 0..2, top : 2..Base, signed : BOOLEAN,
                      checked : BOOLEAN, fixed : BOOLEAN]
  /\ \A t \in Types : Base % t.top = 0   \* both are powers of two
  /\ \A t \in Types : ~t.fixed => t.signed /\ ~t.checked /\ t.top = Base
  /\ Types # {}
ASSUME ValuesAssumption == Values \subseteq Int
ASSUME LimbsAssumption == Limbs \subseteq 1 - Base .. Base - 1

Objects == {"r", "u", "v", "a_copy", "b_copy"}   \* r is the result
Functions == {"by_number", "by_limb", "by_signed_limb", "double_limbs", "signed_double_limbs"}

VARIABLES
  call,   \* the running call: its type, its function, the operands, what was given
  num,    \* the numbers
  pc,
  loop    \* the locals

vars == <<call, num, pc, loop>>

type == call.type
Checked == type.checked
Modulus == Power(type.limbs - 1) * type.top

Magnitude(n) == n.mem % Power(n.size)
Value(n) == Signed(Magnitude(n), n.sign)

\* A number of value v, in memory that held dirt
Number(v, dirt) ==
  LET n == Size(Abs(v)) IN
  [mem |-> (dirt \div Power(n)) * Power(n) + Abs(v), size |-> n, sign |-> v < 0]

NoCall == [type |-> CHOOSE t \in Types : TRUE, fn |-> "by_number", a |-> "u", b |-> "v",
           given |-> <<0, 0>>]
NoLoop == [i |-> 0, j |-> 0, val |-> 0, carry |-> 0, neg |-> FALSE]

Init ==
  /\ call = NoCall /\ num = [o \in Objects |-> Number(0, 0)]
  /\ pc = "idle" /\ loop = NoLoop

a == num[call.a]
b == num[call.b]
r == num["r"]

----------------------------------------------------------------------------
(* The beginning and the end of a call.                                    *)

InType(v, t) == Abs(v) < Power(t.limbs - 1) * t.top /\ (v < 0 => t.signed)

\* The operands of a product of two double limbs
DoubleLimbs(f) ==
  IF f = "double_limbs" THEN 0 .. Power(2) - 1
  ELSE 1 - (Power(2) \div 2) .. (Power(2) \div 2) - 1

\* f is called with the numbers x and y, of values n and m.
Begin(t, f, x, y, n, m, dirt) ==
  /\ call' = [type |-> t, fn |-> f, a |-> x, b |-> y, given |-> <<n, m>>]
  /\ num' = [num EXCEPT !["u"] = Number(n, 0), !["v"] = Number(m, 0),
                        !["r"] = Number(IF y = "r" THEN m ELSE n, dirt)]
  /\ pc' = "entered" /\ UNCHANGED loop

\* Products of double limbs are computed for types that hold any of them.
Call ==
  /\ pc = "idle"
  /\ \E t \in Types : LET InT == {v \in Values : InType(v, t)} IN
       \E dirt \in {0, Power(t.limbs) - 1} :
       \/ \E n, m \in InT, x \in {"r", "u"}, y \in {"r", "v"} :
            (x = "r" /\ y = "r" => n = m) /\ Begin(t, "by_number", x, y, n, m, dirt)
       \/ \E n \in InT, l \in Limbs, x \in {"r", "u"}, f \in {"by_limb", "by_signed_limb"} :
            (f = "by_limb" => l >= 0) /\ Begin(t, f, x, "v", n, l, dirt)
       \/ \E f \in {"double_limbs", "signed_double_limbs"} :
            /\ t.limbs >= 4 /\ t.top = Base
            /\ \E n, m \in DoubleLimbs(f) : Begin(t, f, "u", "v", n, m, dirt)

Finish(n) ==
  /\ num' = [num EXCEPT !["r"] = n] /\ pc' = "returned" /\ loop' = NoLoop /\ UNCHANGED call
Throw(n) ==
  /\ num' = [num EXCEPT !["r"] = n] /\ pc' = "threw" /\ loop' = NoLoop /\ UNCHANGED call

\* normalize(): of fixed precision, it cuts off excess bits and makes zero unsigned.
normalized(n) ==
  LET mem == n.mem % Modulus
      size == Size(mem % Power(n.size))
  IN [mem |-> mem, size |-> size, sign |-> n.sign /\ (type.fixed => mem % Power(size) # 0)]

LosesBits(n) == Checked /\ n.size = type.limbs /\ Magnitude(n) >= Modulus

\* sign(neg), or negate(), of a number that is in normal form: that of an unsigned
\* type takes the complement.
Signing(n, neg) ==
  IF type.signed \/ ~neg \/ Magnitude(n) = 0
  THEN Finish([n EXCEPT !.sign = type.signed /\ neg /\ Magnitude(n) # 0])
  ELSE IF Checked THEN Throw(n)
  ELSE Finish(Number(Modulus - Magnitude(n), 0))

Deliver(n, neg) == IF LosesBits(n) THEN Throw(n) ELSE Signing(normalized(n), neg)

Return ==
  /\ pc \in {"returned", "threw"} /\ pc' = "idle"
  /\ call' = NoCall /\ num' = [o \in Objects |-> Number(0, 0)] /\ UNCHANGED loop

Entered(f) == pc = "entered" /\ call.fn = f

----------------------------------------------------------------------------
(* Multiplication by a limb.                                               *)

\* The result, of the operand's size if it is not the operand, takes the products.
EnterLimbs(x, val, neg) ==
  IF val = 0 THEN Finish([r EXCEPT !.mem = WithLimb(@, 0, 0), !.size = 1, !.sign = FALSE])
  ELSE /\ num' = [num EXCEPT !["r"].size = num[x].size]
       /\ call' = [call EXCEPT !.a = x]
       /\ loop' = [NoLoop EXCEPT !.val = val, !.neg = neg]
       /\ pc' = "limbs"

ByLimb == Entered("by_limb") /\ EnterLimbs(call.a, call.given[2], a.sign)

BySignedLimb ==
  /\ Entered("by_signed_limb")
  /\ EnterLimbs(call.a, Abs(call.given[2]), a.sign # (call.given[2] <= 0))

LimbStep ==
  /\ pc = "limbs" /\ loop.i < r.size
  /\ LET c == loop.carry + Limb(a.mem, loop.i) * loop.val
     IN /\ num' = [num EXCEPT !["r"].mem = WithLimb(@, loop.i, c % Base)]
        /\ loop' = [loop EXCEPT !.i = @ + 1, !.carry = c \div Base]
  /\ UNCHANGED <<call, pc>>

\* Fault: the last carry is lost.
CarriedNever(n) == n

\* The last carry makes the number longer, if its type allows.
Carried(n) ==
  IF loop.carry = 0 \/ n.size = type.limbs THEN n
  ELSE [n EXCEPT !.mem = WithLimb(@, n.size, loop.carry), !.size = @ + 1]

LimbsDone ==
  /\ pc = "limbs" /\ loop.i = r.size
  /\ IF Checked /\ loop.carry # 0 /\ r.size = type.limbs THEN Throw(r)
     ELSE Deliver(Carried(r), loop.neg)

----------------------------------------------------------------------------
(* Multiplication of two numbers.                                          *)

OneLimb(x) == num[x].size = 1
Differ == a.sign # b.sign

\* A product of two limbs is assigned as it is.
TwoLimbs ==
  /\ Entered("by_number") /\ OneLimb(call.a) /\ OneLimb(call.b)
  /\ LET p == Magnitude(a) * Magnitude(b)
     IN Finish([mem |-> (r.mem \div Power(2)) * Power(2) + p, size |-> Size(p),
                sign |-> Differ /\ p # 0])

NumberByLimb ==
  /\ Entered("by_number") /\ OneLimb(call.a) # OneLimb(call.b)
  /\ IF OneLimb(call.a) THEN EnterLimbs(call.b, Magnitude(a), Differ)
     ELSE EnterLimbs(call.a, Magnitude(b), Differ)

\* Fault: an operand that is the result is not copied.
AliasedNever(x) == FALSE

Aliased(x) == x = "r"

\* An operand that is the result is copied, and the function begins again.
CopyOperand ==
  /\ Entered("by_number") /\ ~OneLimb(call.a) /\ ~OneLimb(call.b)
  /\ IF Aliased(call.a)
     THEN num' = [num EXCEPT !["a_copy"] = r] /\ call' = [call EXCEPT !.a = "a_copy"]
     ELSE Aliased(call.b)
          /\ num' = [num EXCEPT !["b_copy"] = r] /\ call' = [call EXCEPT !.b = "b_copy"]
  /\ UNCHANGED <<pc, loop>>

BeginRows ==
  /\ Entered("by_number") /\ ~OneLimb(call.a) /\ ~OneLimb(call.b)
  /\ ~Aliased(call.a) /\ ~Aliased(call.b)
  /\ LET size == Smaller(a.size + b.size, type.limbs) IN
     IF Checked /\ size < a.size + b.size - 1 THEN Throw([r EXCEPT !.size = size])
     ELSE /\ num' = [num EXCEPT !["r"] = [mem |-> (r.mem \div Power(size)) * Power(size),
                                          size |-> size, sign |-> r.sign]]
          /\ loop' = [NoLoop EXCEPT !.neg = Differ]
          /\ pc' = "rows" /\ UNCHANGED call

\* How far the row goes in a result of fixed precision
inner_limit == Smaller(r.size - loop.i, b.size)

RowLimb ==
  /\ pc = "rows" /\ loop.i < a.size /\ loop.j < inner_limit
  /\ LET k == loop.i + loop.j
         c == loop.carry + Limb(a.mem, loop.i) * Limb(b.mem, loop.j) + Limb(r.mem, k)
     IN /\ num' = [num EXCEPT !["r"].mem = WithLimb(@, k, c % Base)]
        /\ loop' = [loop EXCEPT !.j = @ + 1, !.carry = c \div Base]
  /\ UNCHANGED <<call, pc>>

\* The carry of a row does not go on to the next one.
RowCarry == 0

\* resize_for_carry throws in a checked type.
RowEnd ==
  /\ pc = "rows" /\ loop.i < a.size /\ loop.j = inner_limit
  /\ LET k == loop.i + loop.j IN
     IF Checked /\ loop.carry # 0 /\ k >= type.limbs THEN Throw(r)
     ELSE /\ num' = IF loop.carry = 0 \/ k >= r.size THEN num
                    ELSE [num EXCEPT !["r"].mem = WithLimb(@, k, loop.carry)]
          /\ loop' = [loop EXCEPT !.i = @ + 1, !.j = 0, !.carry = RowCarry]
          /\ UNCHANGED <<call, pc>>

RowsDone == pc = "rows" /\ loop.i = a.size /\ Deliver(r, loop.neg)

----------------------------------------------------------------------------
(* Products of two double limbs, in four limbs.                            *)

High(n) == n \div Base
Lower(n) == n % Base

\* Signed operands are half as large: both middle products fit a double limb.
FourSignedLimbs(n, m) ==
  LET low == Lower(n) * Lower(m)
      middle == (High(low) + Lower(n) * High(m) + High(n) * Lower(m)) % Power(2)
  IN Lower(low) + Base * Lower(middle)
       + Power(2) * ((High(middle) + High(n) * High(m)) % Power(2))

\* Every sum stays within a double limb.
FourLimbs(n, m) ==
  LET low == Lower(n) * Lower(m)
      upper == (High(low) + Lower(n) * High(m)) % Power(2)
      middle == (High(n) * Lower(m) + Lower(upper)) % Power(2)
  IN Lower(low) + Base * Lower(middle)
       + Power(2) * ((High(middle) + High(upper) + High(n) * High(m)) % Power(2))

\* The product without leading zeros; the sign has been set before.
FourToNumber(n, neg) ==
  LET product == [mem |-> (r.mem \div Power(4)) * Power(4) + n, size |-> 4, sign |-> FALSE] IN
  IF type.signed THEN Finish(normalized([product EXCEPT !.sign = neg]))
  ELSE IF ~neg THEN Finish(normalized(product))
  ELSE IF Checked THEN Throw(product)
  ELSE Finish(Number((Modulus - n) % Modulus, 0))

ProductOfDoubleLimbs ==
  \/ Entered("double_limbs") /\ FourToNumber(FourLimbs(call.given[1], call.given[2]), FALSE)
  \/ /\ Entered("signed_double_limbs")
     /\ FourToNumber(FourSignedLimbs(Abs(call.given[1]), Abs(call.given[2])),
                     (call.given[1] < 0) # (call.given[2] < 0))

Step ==
  \/ ByLimb \/ BySignedLimb \/ LimbStep \/ LimbsDone
  \/ TwoLimbs \/ NumberByLimb \/ CopyOperand \/ BeginRows \/ RowLimb \/ RowEnd \/ RowsDone
  \/ ProductOfDoubleLimbs

Next == Call \/ Step \/ Return

Spec == Init /\ [][Next]_vars /\ WF_vars(Step)

----------------------------------------------------------------------------
(* Properties.                                                             *)

\* A carry never needs more than a limb (the assertion at multiply.hpp:483).
TypeOK ==
  /\ call.type \in Types /\ call.fn \in Functions /\ call.a \in Objects /\ call.b \in Objects
  /\ \A o \in Objects :
       /\ num[o].mem \in 0 .. Power(type.limbs) - 1
       /\ num[o].size \in 1..type.limbs /\ num[o].sign \in BOOLEAN
  /\ pc \in {"idle", "entered", "limbs", "rows", "returned", "threw"}
  /\ loop \in [i : 0..type.limbs, j : 0..type.limbs, val : 0 .. Base - 1,
               carry : 0 .. Base - 1, neg : BOOLEAN]

first == Abs(call.given[1])
second == Abs(call.given[2])

\* The operand that is longer than a limb
Multiplicand == IF call.fn = "by_number" /\ Size(first) = 1 THEN second ELSE first

\* In between, the result is the product so far, on paper: in rows, the product of
\* the limbs that have been used, as far as there is room for it; by a limb, that of
\* the limbs that have been replaced, with the others still there to be read when the
\* result is the operand.  The carry stands for what is yet to be written.
PartialProducts ==
  /\ pc = "rows" =>
       LET done == (first % Power(loop.i)) * second
           row == IF loop.i = a.size THEN 0
                  ELSE Limb(first, loop.i) * (second % Power(loop.j)) * Power(loop.i)
           shown == Magnitude(r) + loop.carry * Power(loop.i + loop.j)
       IN (done + row - shown) % Power(r.size) = 0
  /\ pc = "limbs" =>
       LET n == Multiplicand
       IN /\ (r.mem % Power(loop.i)) + loop.carry * Power(loop.i) = (n % Power(loop.i)) * loop.val
          /\ a.size = Size(n)
          /\ \A k \in loop.i .. a.size - 1 : Limb(a.mem, k) = Limb(n, k)

\* What the type keeps of the product: its low bits, with the sign; an unsigned type
\* the complement of a negative one
Kept(p) ==
  LET n == Abs(p) % Modulus IN
  IF type.signed THEN Signed(n, p < 0) ELSE IF p < 0 THEN (Modulus - n) % Modulus ELSE n

\* A product of double limbs of variable precision can be a negative zero: the sign
\* is set before the number is normalized.
SignStays == ~type.fixed /\ call.fn = "signed_double_limbs"

\* A call returns the product of what it was given, or what its type keeps of it, in
\* normal form, and changes nothing else, whichever operands are the result and
\* whatever the memory above it held.  Only a checked type throws: if the product
\* does not fit, or would be negative in an unsigned type.
MultipliesExactly ==
  LET product == call.given[1] * call.given[2]
      differ == (call.given[1] < 0) # (call.given[2] < 0)
  IN
  /\ pc = "returned" =>
       /\ Value(r) = Kept(product) /\ (Checked => Kept(product) = product)
       /\ r.size = Size(Magnitude(r)) /\ Magnitude(r) < Modulus
       /\ r.sign => type.signed /\ (Magnitude(r) # 0 \/ SignStays)
       /\ Value(num["u"]) = call.given[1]
       /\ call.fn = "by_number" => Value(num["v"]) = call.given[2]
  /\ pc = "threw" => Checked /\ (first * second >= Modulus \/ (~type.signed /\ differ))
=============================================================================
