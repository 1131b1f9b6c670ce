------------------------- MODULE ExpressionTemplates ------------------------
(***************************************************************************)
(* The evaluation of an expression by number<Backend, et_on>: operator=    *)
(* and the compound assignments, do_assign, do_add and their kin.  They    *)
(* compute in the target, which the expression may mention, and make       *)
(* temporaries where they see that this cannot be avoided.                 *)
(*                                                                         *)
(* A program writes one expression, operator by operator, and assigns it.  *)
(* calls is what the assignment has still to do, the next call first.      *)
(***************************************************************************)
EXTENDS Expressions, ExpressionArithmetic, FiniteSets, SequencesExt

CONSTANTS
  Number,       \* the numbers of the program
  MaxTemps,     \* how many temporaries can exist at a time
  Kinds         \* the number types, and what a program does with them

Temporary  == 1 .. MaxTemps
Object     == Number \cup Temporary
Assignable == {"assign"} \cup BinaryTags

ASSUME KindsAssumption ==
  /\ Number # {} /\ Number \cap Temporary = {} /\ MaxTemps \in Nat \ {0}
  /\ Kinds \subseteq [integer : BOOLEAN, operators : SUBSET (BinaryTags \cup UnaryTags),
                     assigns : SUBSET Assignable, length : Nat,
                     values : SUBSET [Number -> Int]]

VARIABLES
  kind,       \* the type
  val,        \* the value of each number and temporary
  live,       \* the temporaries that exist
  status,     \* what the program is doing
  operands,   \* the parts of the expression, as on a stack, with their meaning
  length,     \* how many operators it has
  target,     \* the number assigned to
  statement,  \* "assign", or the operation of a compound assignment
  goal,       \* what it shall become
  calls       \* what the assignment has still to do

vars == <<kind, val, live, status, operands, length, target, statement, goal,
          calls>>

\* History: the values before the assignment, the objects written since, how
\* many temporaries it has made, and whether it took a branch of Overlooked.
VARIABLES before, written, made, exposed

history == <<before, written, made, exposed>>

Evaluate2(op, a, b) ==
  IF Undefined \in {a, b} THEN Undefined ELSE Result2(kind.integer, op, a, b)
Evaluate1(op, a) == IF a = Undefined THEN Undefined ELSE Result1(kind.integer, op, a)

----------------------------------------------------------------------------
(* What a call does, as the calls that it consists of.  s is the number that *)
(* it is called on, t a temporary that it may make.                          *)

Call(f, s, e)    == [run |-> "call", op |-> f, on |-> s, of |-> e]
Eval(op, s, xs)  == [run |-> "eval", op |-> op, on |-> s, of |-> xs]
Construct(t)     == [run |-> "construct", on |-> t]
Destroy(t)       == [run |-> "destroy", on |-> t]
Swap(s, t)       == [run |-> "swap", on |-> s, of |-> <<t>>]
Negate(s)        == Eval("negate", s, <<s>>)

contains_self(s, e) == s \in e.numbers
is_self(s, e)       == IsNumber(e) /\ contains_self(s, e)

\* self_type temp(e), what uses it, and the end of its scope
Temp(t, e, uses) ==
  <<Construct(t), Call("assign", t, e)>> \o uses \o <<Destroy(t)>>

\* eval_multiply_add and eval_multiply_subtract of default_ops.hpp: of four
\* arguments, s = u * v + x, and of three, s += u * v
eval_multiply_add(op, s, u, v, x, t) ==
  IF x = s
  THEN <<Construct(t), Eval("copy", t, <<x>>), Eval("multiplies", s, <<u, v>>),
         Eval(op, s, <<s, t>>), Destroy(t)>>
  ELSE <<Eval("multiplies", s, <<u, v>>), Eval(op, s, <<s, x>>)>>

eval_multiply_add_to(op, s, u, v, t) ==
  <<Construct(t), Eval("multiplies", t, <<u, v>>), Eval(op, s, <<s, t>>), Destroy(t)>>

\* Fault: the operands are always evaluated from left to right.
assign_sum_LeftFirst(s, e, t) ==
  IF contains_self(s, right(e)) THEN Temp(t, e, <<Swap(s, t)>>)
  ELSE IF is_self(s, left(e)) THEN <<Call(e.tag, s, right(e))>>
  ELSE <<Call("assign", s, left(e)), Call(e.tag, s, right(e))>>

\* Fault: a target in both operands is not noticed.
assign_sum_NoTemporary(s, e, t) ==
  LET op   == e.tag
      last == IF op = "minus" THEN <<Negate(s)>> ELSE <<>>
  IN
  IF is_self(s, left(e)) THEN <<Call(op, s, right(e))>>
  ELSE IF is_self(s, right(e)) THEN <<Call(op, s, left(e))>> \o last
  ELSE IF ~contains_self(s, right(e)) THEN <<Call("assign", s, left(e)), Call(op, s, right(e))>>
  ELSE <<Call("assign", s, right(e)), Call(op, s, left(e))>> \o last

\* do_assign of plus, minus and multiplies
assign_sum(s, e, t) ==
  LET op   == e.tag
      bl   == contains_self(s, left(e))
      br   == contains_self(s, right(e))
      last == IF op = "minus" THEN <<Negate(s)>> ELSE <<>>
  IN
  IF bl /\ br THEN Temp(t, e, <<Swap(s, t)>>)
  ELSE IF is_self(s, left(e)) THEN <<Call(op, s, right(e))>>
  ELSE IF is_self(s, right(e)) THEN <<Call(op, s, left(e))>> \o last
  ELSE IF ~br /\ (bl \/ left(e).depth >= right(e).depth)
  THEN <<Call("assign", s, left(e)), Call(op, s, right(e))>>
  ELSE <<Call("assign", s, right(e)), Call(op, s, left(e))>> \o last

\* Fault: the divisor is not looked at.
assign_quotient_Unchecked(s, e, t) ==
  IF is_self(s, left(e)) THEN <<Call(e.tag, s, right(e))>>
  ELSE <<Call("assign", s, left(e)), Call(e.tag, s, right(e))>>

\* do_assign of divides and modulus
assign_quotient(s, e, t) ==
  IF is_self(s, left(e)) THEN <<Call(e.tag, s, right(e))>>
  ELSE IF contains_self(s, right(e)) THEN Temp(t, e, <<Swap(s, t)>>)
  ELSE <<Call("assign", s, left(e)), Call(e.tag, s, right(e))>>

\* do_assign of bitwise_and, bitwise_or and bitwise_xor
assign_bitwise(s, e) ==
  LET bl == contains_self(s, left(e))
      br == contains_self(s, right(e))
  IN
  IF is_self(s, left(e)) THEN <<Call(e.tag, s, right(e))>>
  ELSE IF is_self(s, right(e)) THEN <<Call(e.tag, s, left(e))>>
  ELSE IF ~br /\ (bl \/ left(e).depth >= right(e).depth)
  THEN <<Call("assign", s, left(e)), Call(e.tag, s, right(e))>>
  ELSE <<Call("assign", s, right(e)), Call(e.tag, s, left(e))>>

do_assign(s, e, t) ==
  LET x(k) == value(e.subs[k]) IN
  CASE IsNumber(e) -> IF is_self(s, e) THEN <<>> ELSE <<Eval("copy", s, <<value(e)>>)>>
    [] IsImmediates(e) -> <<Eval(OperationOf(e.tag), s, <<x(1), x(2)>>)>>
    [] e.tag = "multiply_add"      -> eval_multiply_add("plus", s, x(1), x(2), x(3), t)
    [] e.tag = "multiply_subtract" -> eval_multiply_add("minus", s, x(1), x(2), x(3), t)
    [] IsNegated(e) -> <<Call("assign", s, left(e)), Negate(s)>>
    [] e.tag \in {"plus", "minus", "multiplies"} -> assign_sum(s, e, t)
    [] e.tag \in {"divides", "modulus"} -> assign_quotient(s, e, t)
    [] e.tag \in Bitwise -> assign_bitwise(s, e)
    [] e.tag = "complement_immediates" -> <<Eval("bitwise_complement", s, <<x(1)>>)>>
    [] e.tag \in {"bitwise_complement", "shift_left", "function"} ->
         IF IsNumber(left(e)) THEN <<Eval(e.tag, s, <<x(1)>>)>>
         ELSE Temp(t, left(e), <<Eval(e.tag, s, <<t>>)>>)

\* What all the others do with a number, with the two operands of an expression
\* one after the other, and with an expression they do not know.
InPlace(op, s, x)     == <<Eval(op, s, <<s, x>>)>>
Both(f, g, s, e)      == <<Call(f, s, left(e)), Call(g, s, right(e))>>
Unknown(op, s, e, t)  == Temp(t, e, InPlace(op, s, t))

do_add(s, e, t) ==
  CASE IsNumber(e)  -> InPlace("plus", s, value(e))
    [] IsNegated(e) -> <<Call("minus", s, left(e))>>
    [] e.tag \in {"plus", "add_immediates"}       -> Both("plus", "plus", s, e)
    [] e.tag \in {"minus", "subtract_immediates"} -> Both("plus", "minus", s, e)
    [] OTHER -> Unknown("plus", s, e, t)

do_subtract(s, e, t) ==
  CASE IsNumber(e)  -> InPlace("minus", s, value(e))
    [] IsNegated(e) -> <<Call("plus", s, left(e))>>
    [] e.tag \in {"plus", "add_immediates"}       -> Both("minus", "minus", s, e)
    [] e.tag \in {"minus", "subtract_immediates"} -> Both("minus", "plus", s, e)
    [] OTHER -> Unknown("minus", s, e, t)

\* Products and quotients are taken apart only if division is exact.
do_multiplies(s, e, t) ==
  CASE IsNumber(e)  -> InPlace("multiplies", s, value(e))
    [] IsNegated(e) -> <<Call("multiplies", s, left(e)), Negate(s)>>
    [] e.tag \in {"multiplies", "multiply_immediates"} -> Both("multiplies", "multiplies", s, e)
    [] e.tag \in {"divides", "divide_immediates"} /\ ~kind.integer ->
         Both("multiplies", "divides", s, e)
    [] OTHER -> Unknown("multiplies", s, e, t)

\* The functions for products and quotients of two numbers are called do_divides
\* and so never chosen.
do_divide(s, e, t) ==
  CASE IsNumber(e)  -> InPlace("divides", s, value(e))
    [] IsNegated(e) -> <<Call("divides", s, left(e)), Negate(s)>>
    [] e.tag = "multiplies" /\ ~kind.integer -> Both("divides", "divides", s, e)
    [] e.tag = "divides" /\ ~kind.integer    -> Both("divides", "multiplies", s, e)
    [] OTHER -> Unknown("divides", s, e, t)

do_modulus(s, e, t) ==
  IF IsNumber(e) THEN InPlace("modulus", s, value(e)) ELSE Unknown("modulus", s, e, t)

do_bitwise(op, s, e, t) ==
  CASE IsNumber(e) -> InPlace(op, s, value(e))
    [] e.tag = op  -> Both(op, op, s, e)
    [] OTHER       -> Unknown(op, s, e, t)

Body(f, s, e, t) ==
  CASE f = "assign"     -> do_assign(s, e, t)
    [] f = "plus"       -> do_add(s, e, t)
    [] f = "minus"      -> do_subtract(s, e, t)
    [] f = "multiplies" -> do_multiplies(s, e, t)
    [] f = "divides"    -> do_divide(s, e, t)
    [] f = "modulus"    -> do_modulus(s, e, t)
    [] f \in Bitwise    -> do_bitwise(f, s, e, t)

\* x = e, x += e, ..
operator_assign(f, s, e, t) ==
  IF f = "assign" \/ IsNumber(e) THEN <<Call(f, s, e)>>
  ELSE IF f \in {"plus", "minus"} /\ IsProduct(e)
  THEN eval_multiply_add_to(f, s, value(left(e)), value(right(e)), t)
  ELSE IF contains_self(s, e) THEN Temp(t, e, <<Call(f, s, terminal(t))>>)
  ELSE <<Call(f, s, e)>>

----------------------------------------------------------------------------
(* A program. *)

Operand(e, means, chain) == [expr |-> e, means |-> means, chain |-> chain]

Init ==
  /\ kind \in Kinds
  /\ \E v \in kind.values :
       /\ val = [x \in Object |-> IF x \in Number THEN v[x] ELSE 0]
       /\ before = v
  /\ live = {} /\ status = "writing" /\ operands = <<>> /\ length = 0
  /\ target \in Number /\ statement = "assign" /\ goal = Undefined /\ calls = <<>>
  /\ written = {} /\ made = 0 /\ exposed = FALSE

\* Operators that are still to be written must be enough to join all operands.
Name(x) ==
  /\ status = "writing" /\ length + Len(operands) <= kind.length
  /\ operands' = Append(operands, Operand(terminal(x), val[x], TRUE))
  /\ UNCHANGED <<kind, val, live, status, length, target, statement, goal, calls, history>>

\* chain: an operand of each operator is a number.
Combine(op) ==
  /\ status = "writing" /\ Len(operands) >= 2
  /\ LET a == operands[Len(operands) - 1]
         b == Last(operands)
     IN operands' = Append(SubSeq(operands, 1, Len(operands) - 2),
          Operand(operator2(op, a.expr, b.expr), Evaluate2(op, a.means, b.means),
            \/ a.chain /\ IsNumber(b.expr)
            \/ b.chain /\ IsNumber(a.expr) /\ op \notin {"divides", "modulus"}))
  /\ length' = length + 1
  /\ UNCHANGED <<kind, val, live, status, target, statement, goal, calls, history>>

Modify(op) ==
  /\ status = "writing" /\ operands # <<>> /\ length + Len(operands) <= kind.length
  /\ LET a == Last(operands)
     IN operands' = Append(Front(operands),
          Operand(operator1(op, a.expr), Evaluate1(op, a.means), a.chain /\ op = "negate"))
  /\ length' = length + 1
  /\ UNCHANGED <<kind, val, live, status, target, statement, goal, calls, history>>

Fresh == CHOOSE t \in Temporary \ live : TRUE

\* The statement, x = e or, for an operation f, x f= e
Assign(f) ==
  /\ status = "writing" /\ Len(operands) = 1
  /\ LET e == operands[1] IN
     /\ goal' = IF f = "assign" THEN e.means ELSE Evaluate2(f, val[target], e.means)
     /\ calls' = operator_assign(f, target, e.expr, Fresh)
  /\ status' = "running" /\ statement' = f
  /\ UNCHANGED <<kind, val, live, operands, length, target, history>>

\* Nothing was foreseen for this: an operand of a bitwise operation is assigned,
\* or part of a divisor applied, to a number which the other part mentions.
Overlooked(s, e) ==
  /\ \/ e.tag \in Bitwise
     \/ e.tag = "divides" /\ ~kind.integer /\ is_self(s, left(e))
  /\ contains_self(s, left(e)) /\ contains_self(s, right(e))

\* The next call is replaced by those that it consists of.
Enter ==
  LET c == Head(calls) IN
  /\ c.run = "call" /\ Temporary \ live # {}
  /\ calls' = Body(c.op, c.on, c.of, Fresh) \o Tail(calls)
  /\ exposed' = (exposed \/ (c.op = "assign" /\ Overlooked(c.on, c.of)))
  /\ UNCHANGED <<val, live, status, before, written, made>>

Result(c) ==
  IF Len(c.of) = 1 THEN Evaluate1(c.op, val[c.of[1]])
  ELSE Evaluate2(c.op, val[c.of[1]], val[c.of[2]])

\* A call of the backend
Compute ==
  LET c == Head(calls) IN
  /\ c.run = "eval" /\ Result(c) # Undefined
  /\ val' = [val EXCEPT ![c.on] = Result(c)]
  /\ written' = written \cup {c.on}
  /\ calls' = Tail(calls)
  /\ UNCHANGED <<live, status, before, made, exposed>>

\* It throws: the temporaries are destroyed, the target stays as it is.
Throw ==
  LET c == Head(calls) IN
  /\ c.run = "eval" /\ Result(c) = Undefined
  /\ calls' = <<>> /\ live' = {} /\ status' = "threw"
  /\ UNCHANGED <<val, history>>

BeginScope ==
  LET c == Head(calls) IN
  /\ c.run = "construct"
  /\ live' = live \cup {c.on} /\ val' = [val EXCEPT ![c.on] = 0]
  /\ made' = made + 1
  /\ calls' = Tail(calls)
  /\ UNCHANGED <<status, before, written, exposed>>

EndScope ==
  LET c == Head(calls) IN
  /\ c.run = "destroy"
  /\ live' = live \ {c.on}
  /\ calls' = Tail(calls)
  /\ UNCHANGED <<val, status, history>>

Exchange ==
  LET c == Head(calls) IN
  /\ c.run = "swap"
  /\ val' = [val EXCEPT ![c.on] = val[c.of[1]], ![c.of[1]] = val[c.on]]
  /\ written' = written \cup {c.on}
  /\ calls' = Tail(calls)
  /\ UNCHANGED <<live, status, before, made, exposed>>

Step ==
  /\ status = "running"
  /\ \/ /\ calls # <<>>
        /\ Enter \/ Compute \/ Throw \/ BeginScope \/ EndScope \/ Exchange
     \/ /\ calls = <<>> /\ status' = "returned"
        /\ UNCHANGED <<val, live, calls, history>>
  /\ UNCHANGED <<kind, operands, length, target, statement, goal>>

\* The program ends with its statement.
Finished == status \in {"returned", "threw"} /\ UNCHANGED <<vars, history>>

Next ==
  \/ \E x \in Number : Name(x)
  \/ \E op \in kind.operators \cap BinaryTags : Combine(op)
  \/ \E op \in kind.operators \cap UnaryTags : Modify(op)
  \/ \E f \in kind.assigns : Assign(f)
  \/ Step
  \/ Finished

Spec == Init /\ [][Next]_<<vars, history>>

----------------------------------------------------------------------------
(* Properties. *)

Assigning == status \in {"running", "returned", "threw"}

\* The numbers that a call refers to
Mentions(c) ==
  {c.on} \cup (CASE c.run = "call" -> c.of.numbers
                [] c.run \in {"eval", "swap"} -> ToSet(c.of)
                [] OTHER -> {})

\* Type invariant.  A call refers to no temporary whose scope has ended or has not
\* begun.
TypeOK ==
  /\ kind \in Kinds
  /\ val \in [Object -> Int] /\ before \in kind.values
  /\ live \subseteq Temporary /\ written \subseteq Object
  /\ status \in {"writing", "running", "returned", "threw"}
  /\ length \in 0 .. kind.length
  /\ target \in Number /\ statement \in Assignable /\ goal \in Int \cup {Undefined}
  /\ made \in Nat /\ exposed \in BOOLEAN
  /\ \A k \in DOMAIN calls : calls[k].on \in Object
  /\ calls # <<>> /\ Head(calls).run # "construct" =>
       Mentions(Head(calls)) \subseteq Number \cup live

\* The target receives the value that the expression had before the assignment,
\* however it was rearranged and whatever it mentions, no other number changes,
\* and an exception leaves the assignment only if there is no such value.  (For
\* numbers that are not integers, a value may be found where the expression as
\* written divides by zero: x / (a / 0) becomes (x / a) * 0.)
AssignsMeaning ==
  /\ \A x \in Number : x = target \/ val[x] = before[x]
  /\ status = "threw" => goal = Undefined \/ exposed
  /\ status = "returned" =>
       \/ val[target] = goal \/ exposed
       \/ goal = Undefined /\ ~kind.integer

\* Once the target has been written to, nothing that is still to be done reads it
\* as an operand of the expression: only as the result so far.
TargetNotReread ==
  Assigning /\ target \in written /\ ~exposed =>
    \A k \in DOMAIN calls :
      LET c == calls[k] IN
      /\ c.run = "call" => ~contains_self(target, c.of)
      /\ c.run = "eval" =>
           \A j \in DOMAIN c.of : c.of[j] = target => j = 1 /\ c.on = target

\* "this expression is evaluated without creating a single temporary value": an
\* expression in which every operator has a number as an operand, as Horner's
\* scheme has, assigned to a number that it does not mention.
NoTemporaries ==
  Assigning /\ statement = "assign" =>
    LET e == operands[1] IN
    e.chain /\ ~contains_self(target, e.expr) /\ goal # Undefined => made = 0

\* "Then we clearly can't use `x` as working storage during the calculation, so
\* then a temporary variable is created in this case": the value of an expression
\* that mentions the target is assigned even so.
TemporaryWhereNeeded == status = "returned" /\ goal # Undefined => val[target] = goal
=============================================================================
