----------------------------- MODULE Expressions ----------------------------
(***************************************************************************)
(* The expressions that the operators of detail/et_ops.hpp build.  Nothing *)
(* is computed: an expression refers to the numbers it was written with.   *)
(* Its type, the tag and the types below, selects the function that will   *)
(* evaluate it; the operators already rearrange what they are given.       *)
(***************************************************************************)
EXTENDS Integers, Sequences, FiniteSetsExt

\* A number in an expression
terminal(x) == [tag |-> "terminal", subs |-> <<>>, numbers |-> {x}, depth |-> 0]

\* expression<tag, ...>.  numbers are those the leaves refer to.
expression(tag, subs) ==
  [tag |-> tag, subs |-> subs,
   numbers |-> UNION {subs[k].numbers : k \in DOMAIN subs},
   depth |-> 1 + Max({subs[k].depth : k \in DOMAIN subs})]

left(e)  == e.subs[1]
right(e) == e.subs[Len(e.subs)]
value(e) == CHOOSE x \in e.numbers : TRUE    \* of a terminal

\* The tag of an operation on two numbers, and the operation of such a tag
Immediates ==
  [plus |-> "add_immediates", minus |-> "subtract_immediates",
   multiplies |-> "multiply_immediates", divides |-> "divide_immediates",
   modulus |-> "modulus_immediates", bitwise_and |-> "bitwise_and_immediates",
   bitwise_or |-> "bitwise_or_immediates", bitwise_xor |-> "bitwise_xor_immediates"]

Bitwise    == {"bitwise_and", "bitwise_or", "bitwise_xor"}
BinaryTags == DOMAIN Immediates
UnaryTags  == {"negate", "bitwise_complement", "shift_left", "function"}

OperationOf(tag) == CHOOSE op \in BinaryTags : Immediates[op] = tag
IsImmediates(e)  == \E op \in BinaryTags : Immediates[op] = e.tag

IsNumber(e)        == e.tag = "terminal"
IsProduct(e)       == e.tag = "multiply_immediates"
IsNegated(e)       == e.tag = "negate"
IsNegatedNumber(e) == IsNegated(e) /\ IsNumber(left(e))

\* What most operators return
binary(op, a, b) ==
  expression(IF IsNumber(a) /\ IsNumber(b) THEN Immediates[op] ELSE op, <<a, b>>)
minus_(e) == expression("negate", <<e>>)

----------------------------------------------------------------------------
(* The operators that do more.  A negation is moved outwards. *)

operatorPlus(a, b) ==
  CASE IsNumber(a) /\ IsProduct(b) -> expression("multiply_add", b.subs \o <<a>>)
    [] IsProduct(a) /\ IsNumber(b) -> expression("multiply_add", a.subs \o <<b>>)
    [] IsNumber(a) /\ IsNegated(b) -> binary("minus", a, left(b))
    [] IsNegated(a) /\ IsNumber(b) -> binary("minus", b, left(a))
    [] IsNegatedNumber(a) /\ IsNegatedNumber(b) -> minus_(binary("plus", left(a), left(b)))
    [] OTHER -> binary("plus", a, b)

operatorMinus(a, b) ==
  CASE IsNumber(a) /\ IsProduct(b) -> minus_(expression("multiply_subtract", b.subs \o <<a>>))
    [] IsProduct(a) /\ IsNumber(b) -> expression("multiply_subtract", a.subs \o <<b>>)
    [] IsNumber(a) /\ IsNegated(b) -> binary("plus", a, left(b))
    [] IsNegated(a) /\ IsNumber(b) -> minus_(binary("plus", b, left(a)))
    [] OTHER -> binary("minus", a, b)

operatorTimes(a, b) ==
  CASE IsNumber(a) /\ IsNegated(b) -> minus_(binary("multiplies", a, left(b)))
    [] IsNegated(a) /\ IsNumber(b) -> minus_(binary("multiplies", b, left(a)))
    [] OTHER -> binary("multiplies", a, b)

operatorDivide(a, b) ==
  CASE IsNumber(a) /\ IsNegated(b) -> minus_(binary("divides", a, left(b)))
    [] IsNegated(a) /\ IsNumber(b) -> minus_(binary("divides", left(a), b))
    [] OTHER -> binary("divides", a, b)

operator2(op, a, b) ==
  CASE op = "plus"       -> operatorPlus(a, b)
    [] op = "minus"      -> operatorMinus(a, b)
    [] op = "multiplies" -> operatorTimes(a, b)
    [] op = "divides"    -> operatorDivide(a, b)
    [] OTHER             -> binary(op, a, b)

\* -a, ~a, a << n, and a function like sqrt(a)
operator1(op, a) ==
  expression(IF op = "bitwise_complement" /\ IsNumber(a) THEN "complement_immediates" ELSE op,
             <<a>>)
=============================================================================
