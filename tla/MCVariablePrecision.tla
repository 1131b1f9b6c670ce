------------------------- MODULE MCVariablePrecision ------------------------
(* Small instances of VariablePrecision. *)
EXTENDS VariablePrecision
CONSTANTS x, y, z

Operators == {"plus", "minus", "multiplies", "divides"}

\* Operands of an operator: numbers, the target x among them, and expressions with
\* two kinds of temporaries below them
Operands ==
  {terminal(n) : n \in Number}
  \cup {operator2("multiplies", terminal(x), terminal(y)), operator1("function", terminal(z))}
  \cup {operator2(op, terminal(y), terminal(z)) : op \in {"plus", "minus", "divides"}}
  \cup {operator1("negate", terminal(y))}

RightOperands ==
  {terminal(x), terminal(z), operator1("function", terminal(z)),
   operator2("minus", terminal(y), terminal(z))}

SmallAssignments ==
  [op : {"assign"}, on : {x},
   of : {operator2(op, a, b) : op \in Operators, a \in Operands, b \in RightOperands}]
  \cup [op : Operators, on : {x}, of : Operands]

\* The expressions of these assignments, with their parts
Parts(es) == es \cup UNION {{e.subs[k] : k \in DOMAIN e.subs} : e \in es}

SmallExpressions ==
  LET whole == {a.of : a \in SmallAssignments}
               \cup {operator2(a.op, terminal(x), a.of) :
                      a \in {b \in SmallAssignments : b.op # "assign"}}
  IN Parts(Parts(Parts(whole)))
=============================================================================
