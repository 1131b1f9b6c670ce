------------------------- MODULE ExpressionArithmetic -----------------------
(***************************************************************************)
(* The arithmetic of the backends: the integers, of which the bitwise       *)
(* operations see WordBits bits of two's complement, or, for numbers that   *)
(* are not integers, the field of the residues of a prime, where division   *)
(* is exact.  Rounding is left out.                                         *)
(***************************************************************************)
EXTENDS Integers, FiniteSetsExt

CONSTANTS
  WordBits,     \* enough for the integers that bitwise operations meet
  Prime,        \* the size of the field
  ShiftBy,      \* the distance of a shift
  Undefined     \* the value of a division by zero

ASSUME ArithmeticAssumption ==
  /\ WordBits \in Nat /\ ShiftBy \in Nat
  /\ Prime \in Nat /\ Prime > 1
  /\ \A a \in 1 .. Prime - 1 : \E b \in 1 .. Prime - 1 : (a * b) % Prime = 1
  /\ Undefined \notin Int

Magnitude(n)     == IF n < 0 THEN -n ELSE n
Quotient(a, b)  == IF (a < 0) # (b < 0) THEN -(Magnitude(a) \div Magnitude(b))
                   ELSE Magnitude(a) \div Magnitude(b)
BitsOf(n)   == {k \in 0 .. WordBits - 1 : (n \div 2^k) % 2 = 1}
OfBits(S)   == MapThenSumSet(LAMBDA k : 2^k, S)
               - IF WordBits - 1 \in S THEN 2^WordBits ELSE 0
InverseOf(b) == CHOOSE c \in 1 .. Prime - 1 : (b * c) % Prime = 1

\* The result of an operation on defined operands
Result2(integer, op, a, b) ==
  CASE op \in {"divides", "modulus"} /\ b = 0 -> Undefined
    [] op = "plus"       -> IF integer THEN a + b ELSE (a + b) % Prime
    [] op = "minus"      -> IF integer THEN a - b ELSE (a - b) % Prime
    [] op = "multiplies" -> IF integer THEN a * b ELSE (a * b) % Prime
    [] op = "divides" /\ b # 0 ->
         IF integer THEN Quotient(a, b) ELSE (a * InverseOf(b)) % Prime
    [] op = "modulus" /\ b # 0 -> a - b * Quotient(a, b)
    [] op = "bitwise_and" -> OfBits(BitsOf(a) \cap BitsOf(b))
    [] op = "bitwise_or"  -> OfBits(BitsOf(a) \cup BitsOf(b))
    [] op = "bitwise_xor" -> OfBits((BitsOf(a) \cup BitsOf(b)) \ (BitsOf(a) \cap BitsOf(b)))

Result1(integer, op, a) ==
  CASE op = "copy"   -> a
    [] op = "negate" -> IF integer THEN -a ELSE (-a) % Prime
    [] op = "bitwise_complement" -> -a - 1
    [] op = "shift_left" -> a * 2^ShiftBy
    [] op = "function"   -> IF integer THEN a * a ELSE (a * a) % Prime
=============================================================================
