----------------------- MODULE MCExpressionTemplates -----------------------
EXTENDS ExpressionTemplates
CONSTANTS n1, n2

\* One value for n1 and another for n2, so that few expressions have equal values
Values(n, m) == {[y \in Number |-> IF y = n1 THEN n ELSE m]}
Kind(integer, operators, assigns, n, values) ==
  [integer |-> integer, operators |-> operators, assigns |-> assigns,
   length |-> n, values |-> values]

MCKinds == {
  Kind(TRUE, {"plus", "minus", "multiplies"}, {"assign"}, 4, Values(5, -3)),
  Kind(TRUE, {"plus", "minus", "multiplies", "negate"}, {"assign", "plus", "minus", "multiplies"},
       3, Values(5, -3)),
  Kind(TRUE, {"divides", "modulus", "minus", "negate"}, {"assign", "divides", "modulus"},
       3, Values(-7, 3) \cup Values(0, 3)),
  Kind(TRUE, {"plus"} \cup Bitwise, {"assign"} \cup Bitwise, 3, Values(5, 3)),
  Kind(TRUE, {"bitwise_xor", "bitwise_complement", "shift_left"}, {"assign", "bitwise_xor"},
       3, Values(5, 3)),
  Kind(FALSE, {"plus", "multiplies", "divides", "negate"}, {"assign", "divides", "multiplies"},
       3, Values(5, 3) \cup Values(5, 0)),
  Kind(FALSE, {"multiplies", "divides"}, {"assign"}, 4, Values(5, 3)),
  Kind(FALSE, {"plus", "divides", "function"}, {"assign", "divides"}, 3, Values(5, 3))
}

\* For the oversight
BitwiseKinds == {Kind(TRUE, {"plus"} \cup Bitwise, {"assign"}, 3, Values(5, 3))}
=============================================================================
