-------------------------- MODULE VariablePrecision -------------------------
(***************************************************************************)
(* Numbers whose precision is chosen at run time, mpf_float: number with   *)
(* expression templates over gmp_float<0>.  A new number has the default   *)
(* precision, a global variable, and an operation has the precision of the *)
(* number it writes to.  So that an expression is computed with the digits *)
(* of its most precise operand, an assignment sets the default for as long *)
(* as it runs (scoped_default_precision), computes in temporaries of that  *)
(* precision, and raises the precision of a number before it writes to it. *)
(* Functions use constants, which are kept from one call to the next.      *)
(*                                                                         *)
(* Of a value only what is known of its digits is kept.                    *)
(***************************************************************************)
EXTENDS Expressions

CONSTANTS
  Number,          \* the numbers of the program
  Precisions,      \* in decimal digits
  Assignments,     \* what the program does: [op, on, of], x op= e
  Expression,      \* what these evaluate, their operands, and the operands of those
  StringDigits,    \* the digits of a constant that are in the source
  MaxDepth         \* of assignments that construct a temporary for another

ASSUME PrecisionAssumption ==
  /\ Precisions \subseteq Nat \ {0} /\ Precisions # {} /\ IsFiniteSet(Precisions)
  /\ StringDigits \in Nat /\ MaxDepth \in Nat /\ MaxDepth > 0
  /\ Number # {} /\ Number \cap (1..MaxDepth) = {}
  /\ \A a \in Assignments : a.on \in Number

\* What et_ops.hpp builds: a tree of which all the leaves are numbers of the program,
\* in which a negation has one operand
ASSUME ExpressionAssumption ==
  /\ \A e \in Expression :
       /\ e.numbers \subseteq Number /\ e.numbers # {}
       /\ IsNumber(e) => \E x \in Number : e = terminal(x)
       /\ IsNegated(e) => Len(e.subs) = 1
       /\ ~IsNumber(e) => /\ e.subs \in Seq(Expression) \ {<<>>}
                          /\ e.numbers = UNION {e.subs[k].numbers : k \in DOMAIN e.subs}
  /\ \A a \in Assignments :
       /\ a.of \in Expression
       /\ a.op # "assign" => operator2(a.op, terminal(a.on), a.of) \in Expression

Temporary == 1..MaxDepth     \* one for each assignment that is running
Object    == Number \cup Temporary

VARIABLES
  default,    \* get_default_precision()
  num,        \* of each number: requested_precision and the digits it has room for
  moved,      \* the numbers that were moved from
  constant,   \* a constant, result of get_constant_ln2 etc.: the digits it has room
              \* for, those that are right, and digits, what it was computed for
  stack,      \* the assignments that are running, the last one at the end: the
              \* m_old_prec and m_new_prec of its guard, and what there is still to do
  pc

vars == <<default, num, moved, constant, stack, pc>>

\* History: the default that the program has chosen; the assignment that runs, the
\* precision that its result shall have, and whether it subtracted a difference from
\* a number of another precision; of each number, the precision of the
\* most precise one it was computed from, and whether each operation and each
\* constant on the way had as many digits.
VARIABLES asked, call, made

history == <<asked, call, made>>

\* Fault: precision() tells what the data has room for, a little more than was asked for.
DefaultNumber_Rounded(p) == [prec |-> p + 1, room |-> p + 1]

DefaultNumber(p) == [prec |-> p, room |-> p]
NoNumber   == [prec |-> 0, room |-> 0]
NoConstant == [room |-> 0, right |-> 0, digits |-> 0]
NoCall     == [on |-> 0, prec |-> 0, unpromoted |-> FALSE]
Given(p)   == [due |-> p, kept |-> TRUE, served |-> TRUE]

Largest(ns) == Max({num[x].prec : x \in ns})
precision_of(e) == Largest(e.numbers)     \* current_precision_of

----------------------------------------------------------------------------
(* What a call does, as the calls that it consists of.  s is the number that *)
(* it is called on, t a temporary that it may make.                          *)

Call(f, s, e)     == [run |-> "call", op |-> f, on |-> s, of |-> e]
Eval(op, s, xs)   == [run |-> "eval", op |-> op, on |-> s, of |-> xs]
Promote(s)        == [run |-> "promote", on |-> s]
Copy(s, x)        == [run |-> "copy", on |-> s, of |-> x]
Construct(t, e)   == [run |-> "construct", on |-> t, of |-> e]
MoveFrom(s, t)    == [run |-> "move", on |-> s, of |-> t]
SwapWith(s, t)    == [run |-> "swap", on |-> s, of |-> t]
Destroy(t)        == [run |-> "destroy", on |-> t]

contains_self(s, e) == s \in e.numbers
is_self(s, e)       == IsNumber(e) /\ contains_self(s, e)

\* self_type temp(e), and what uses it
Temp(t, e, uses) == <<Construct(t, e)>> \o uses \o <<Destroy(t)>>

\* Fault: the precision of the number stays as it is.
Operate_Unpromoted(op, s, xs) == <<Eval(op, s, xs)>>

\* Most functions that compute promote the number they write to.
Operate(op, s, xs) == <<Promote(s), Eval(op, s, xs)>>

Both(f, g, s, e) == <<Call(f, s, left(e)), Call(g, s, right(e))>>

\* do_assign of plus, minus and multiplies.  (Negations change no precision.)
assign_sum(s, e, t) ==
  LET bl == contains_self(s, left(e))
      br == contains_self(s, right(e))
  IN
  IF bl /\ br THEN Temp(t, e, <<SwapWith(s, t)>>)
  ELSE IF is_self(s, left(e)) THEN <<Call(e.tag, s, right(e))>>
  ELSE IF is_self(s, right(e)) THEN <<Call(e.tag, s, left(e))>>
  ELSE IF ~br /\ (bl \/ left(e).depth >= right(e).depth)
  THEN Both("assign", e.tag, s, e)
  ELSE <<Call("assign", s, right(e)), Call(e.tag, s, left(e))>>

assign_quotient(s, e, t) ==
  IF is_self(s, left(e)) THEN <<Call("divides", s, right(e))>>
  ELSE IF contains_self(s, right(e)) THEN Temp(t, e, <<SwapWith(s, t)>>)
  ELSE Both("assign", "divides", s, e)

do_assign(s, e, t) ==
  CASE IsNumber(e) -> IF is_self(s, e) THEN <<>> ELSE <<Copy(s, value(e))>>
    [] IsImmediates(e) -> Operate(OperationOf(e.tag), s, e.numbers)
    [] e.tag \in {"multiply_add", "multiply_subtract"} -> Operate("plus", s, e.numbers)
    [] IsNegated(e) -> <<Call("assign", s, left(e))>>
    [] e.tag \in {"plus", "minus", "multiplies"} -> assign_sum(s, e, t)
    [] e.tag = "divides" -> assign_quotient(s, e, t)
    [] OTHER ->     \* a function
         IF IsNumber(left(e)) THEN Operate("function", s, e.numbers)
         ELSE <<Promote(s)>> \o Temp(t, left(e), <<Eval("function", s, {t})>>)

\* What all the others do with an expression that they do not know
Unknown(f, s, e, t)        == Temp(t, e, <<Call(f, s, terminal(t))>>)
UnknownFactor(op, s, e, t) == <<Promote(s)>> \o Temp(t, e, <<Eval(op, s, {s, t})>>)

do_add(s, e, t) ==
  CASE IsNumber(e) \/ e.tag \in {"add_immediates", "subtract_immediates"} ->
         Operate("plus", s, {s} \cup e.numbers)
    [] IsNegated(e)    -> <<Promote(s), Call("minus", s, left(e))>>
    [] e.tag = "plus"  -> Both("plus", "plus", s, e)
    [] e.tag = "minus" -> Both("plus", "minus", s, e)
    [] OTHER           -> Unknown("plus", s, e, t)

\* A difference of two numbers is subtracted without a promotion (Unpromoted, below).
do_subtract(s, e, t) ==
  CASE IsNumber(e) \/ e.tag = "add_immediates" -> Operate("minus", s, {s} \cup e.numbers)
    [] e.tag = "subtract_immediates" -> <<Eval("minus", s, {s} \cup e.numbers)>>
    [] IsNegated(e)    -> <<Call("plus", s, left(e))>>
    [] e.tag = "plus"  -> Both("minus", "minus", s, e)
    [] e.tag = "minus" -> Both("minus", "plus", s, e)
    [] OTHER           -> Unknown("minus", s, e, t)

do_multiplies(s, e, t) ==
  CASE IsNumber(e) \/ e.tag = "multiply_immediates" ->
         Operate("multiplies", s, {s} \cup e.numbers)
    [] e.tag = "divide_immediates" -> Operate("divides", s, {s} \cup e.numbers)
    [] IsNegated(e)         -> <<Call("multiplies", s, left(e))>>
    [] e.tag = "multiplies" -> Both("multiplies", "multiplies", s, e)
    [] e.tag = "divides"    -> Both("multiplies", "divides", s, e)
    [] OTHER                -> UnknownFactor("multiplies", s, e, t)

do_divide(s, e, t) ==
  CASE IsNumber(e)          -> Operate("divides", s, {s} \cup e.numbers)
    [] IsNegated(e)         -> <<Call("divides", s, left(e))>>
    [] e.tag = "multiplies" -> Both("divides", "divides", s, e)
    [] e.tag = "divides"    -> Both("divides", "multiplies", s, e)
    [] OTHER                -> UnknownFactor("divides", s, e, t)

Body(f, s, e, t) ==
  CASE f = "assign"     -> do_assign(s, e, t)
    [] f = "plus"       -> do_add(s, e, t)
    [] f = "minus"      -> do_subtract(s, e, t)
    [] f = "multiplies" -> do_multiplies(s, e, t)
    [] OTHER            -> do_divide(s, e, t)

\* number t(e); return *this = BOOST_MP_MOVE(t)
ByTemporary(s, e, t) == <<Construct(t, e), MoveFrom(s, t), Destroy(t)>>

\* The body of operator= and of the compound assignments.  other: the guard has
\* chosen another precision than that of s.
operator_assign(f, s, e, t, other) ==
  CASE f = "assign" -> IF other THEN ByTemporary(s, e, t) ELSE <<Call("assign", s, e)>>
    [] f # "assign" /\ IsNumber(e) ->
         IF other THEN ByTemporary(s, operator2(f, terminal(s), e), t) ELSE <<Call(f, s, e)>>
    [] f \in {"plus", "minus"} /\ IsProduct(e) ->
         IF other THEN ByTemporary(s, operator2(f, terminal(s), e), t)
         ELSE <<Eval(f, s, {s} \cup e.numbers)>>
    [] OTHER -> IF contains_self(s, e) THEN Temp(t, e, <<Call(f, s, terminal(t))>>)
                ELSE <<Call(f, s, e)>>

----------------------------------------------------------------------------
(* The program, between assignments. *)

Init ==
  /\ default \in Precisions /\ asked = default
  /\ num = [x \in Object |-> IF x \in Number THEN DefaultNumber(default) ELSE NoNumber]
  /\ moved = {} /\ constant = NoConstant /\ stack = <<>> /\ pc = "idle"
  /\ call = NoCall /\ made = [x \in Object |-> Given(0)]

SetDefault(p) ==
  /\ pc = "idle" /\ default' = p /\ asked' = p
  /\ UNCHANGED <<num, moved, constant, stack, pc, call, made>>

\* A new number of a given precision, or x.precision(p)
SetPrecision(x, p) ==
  /\ pc = "idle" /\ num' = [num EXCEPT ![x] = DefaultNumber(p)] /\ moved' = moved \ {x}
  /\ UNCHANGED <<default, constant, stack, pc, history>>

\* x = y
CopyNumber(x, y) ==
  /\ pc = "idle" /\ y \notin moved
  /\ num' = [num EXCEPT ![x] = num[y]] /\ moved' = moved \ {x}
  /\ UNCHANGED <<default, constant, stack, pc, history>>

\* The move assignment exchanges the values with their room, but not the precisions.
Moved(s, t) == [num EXCEPT ![s] = num[t], ![t].room = num[s].room]

\* x = std::move(y).  y is then only given a value by a copy, or anew.
MoveNumber(x, y) ==
  /\ pc = "idle" /\ x # y /\ {x, y} \cap moved = {}
  /\ num' = Moved(x, y) /\ moved' = moved \cup {y}
  /\ UNCHANGED <<default, constant, stack, pc, history>>

\* Fault: the precision to return to is read after it has been changed.
Guarded_ReadLate(body, p) == [old |-> p, new |-> p, todo |-> body]

\* scoped_default_precision: the default is p until the assignment has ended.
Guarded(body, p) == [old |-> default, new |-> p, todo |-> body]

\* Fault: only the expression counts, not the target of a compound assignment.
guard_precision_OfExpression(f, s, e) == precision_of(e)

guard_precision(f, s, e) == IF f = "assign" THEN precision_of(e) ELSE Largest({s} \cup e.numbers)

Assign(a) ==
  LET p == guard_precision(a.op, a.on, a.of) IN
  /\ pc = "idle" /\ ({a.on} \cup a.of.numbers) \cap moved = {}
  /\ stack' = <<Guarded(operator_assign(a.op, a.on, a.of, 1, p # num[a.on].prec), p)>>
  /\ default' = p /\ pc' = "running"
  /\ call' = [on |-> a.on, unpromoted |-> FALSE,
              prec |-> Largest(a.of.numbers \cup IF a.op = "assign" THEN {} ELSE {a.on})]
  /\ made' = [x \in Object |-> Given(num[x].prec)]
  /\ UNCHANGED <<num, moved, constant, asked>>

----------------------------------------------------------------------------
(* The last assignment that has begun goes on. *)

top  == stack[Len(stack)]
next == Head(top.todo)
Does(what) == pc = "running" /\ top.todo # <<>> /\ next.run = what
Then(calls) == [stack EXCEPT ![Len(stack)].todo = calls \o Tail(@)]

\* What do_subtract overlooks
Unpromoted(c) ==
  c.op = "minus" /\ c.of.tag = "subtract_immediates" /\ num[c.on].prec # default

Enter ==
  /\ Does("call")
  /\ stack' = Then(Body(next.op, next.on, next.of, Len(stack)))
  /\ call' = [call EXCEPT !.unpromoted = @ \/ Unpromoted(next)]
  /\ UNCHANGED <<default, num, moved, constant, pc, asked, made>>

maybe_promote_precision ==
  /\ Does("promote")
  /\ num' = IF num[next.on].prec = default THEN num
            ELSE [num EXCEPT ![next.on] = DefaultNumber(default)]
  /\ stack' = Then(<<>>)
  /\ UNCHANGED <<default, moved, constant, pc, history>>

\* What is known of a result: it needs as many digits as the most precise number
\* that it is computed from, and c of a constant.
Result(s, xs, c) ==
  LET due == Max({made[x].due : x \in xs}) IN
  [due    |-> due,
   kept   |-> num[s].room >= due /\ \A x \in xs : made[x].kept,
   served |-> (c.right >= due \/ c = NoConstant) /\ \A x \in xs : made[x].served]

Compute ==
  /\ Does("eval") /\ next.op # "function"
  /\ made' = [made EXCEPT ![next.on] = Result(next.on, next.of, NoConstant)]
  /\ stack' = Then(<<>>)
  /\ UNCHANGED <<default, num, moved, constant, pc, asked, call>>

\* A constant is computed again whenever the default is not what it was computed
\* for: from its digits in the source if they suffice.  It has the room that it
\* was given when it was first needed.
constant_for(digits) ==
  IF constant.digits = digits THEN constant
  ELSE LET room == IF constant = NoConstant THEN digits ELSE constant.room IN
       [room |-> room, digits |-> digits,
        right |-> Min({room, IF digits <= StringDigits THEN StringDigits ELSE digits})]

ComputeFunction ==
  /\ Does("eval") /\ next.op = "function"
  /\ constant' = constant_for(default)
  /\ made' = [made EXCEPT ![next.on] = Result(next.on, next.of, constant')]
  /\ stack' = Then(<<>>)
  /\ UNCHANGED <<default, num, moved, pc, asked, call>>

CopyOperand ==
  /\ Does("copy")
  /\ num' = [num EXCEPT ![next.on] = num[next.of]]
  /\ made' = [made EXCEPT ![next.on] = made[next.of]]
  /\ stack' = Then(<<>>)
  /\ UNCHANGED <<default, moved, constant, pc, asked, call>>

\* number t(e): t gets the default precision, and is then assigned to.
ConstructTemporary ==
  LET t == next.on
      p == guard_precision("assign", t, next.of)
      new == DefaultNumber(default)
  IN
  /\ Does("construct") /\ Len(stack) < MaxDepth
  /\ num' = [num EXCEPT ![t] = new]
  /\ made' = [made EXCEPT ![t] = Given(0)]
  /\ stack' = Append(Then(<<>>),
       Guarded(operator_assign("assign", t, next.of, Len(stack) + 1, p # new.prec), p))
  /\ default' = p
  /\ UNCHANGED <<moved, constant, pc, asked, call>>

MoveTemporary ==
  /\ Does("move")
  /\ num' = Moved(next.on, next.of)
  /\ made' = [made EXCEPT ![next.on] = made[next.of]]
  /\ stack' = Then(<<>>)
  /\ UNCHANGED <<default, moved, constant, pc, asked, call>>

SwapTemporary ==
  /\ Does("swap")
  /\ num' = [num EXCEPT ![next.on] = num[next.of], ![next.of] = num[next.on]]
  /\ made' = [made EXCEPT ![next.on] = made[next.of], ![next.of] = made[next.on]]
  /\ stack' = Then(<<>>)
  /\ UNCHANGED <<default, moved, constant, pc, asked, call>>

DestroyTemporary ==
  /\ Does("destroy")
  /\ num' = [num EXCEPT ![next.on] = NoNumber]
  /\ made' = [made EXCEPT ![next.on] = Given(0)]
  /\ stack' = Then(<<>>)
  /\ UNCHANGED <<default, moved, constant, pc, asked, call>>

\* The end of the guard's scope
Restored == IF top.new # top.old THEN top.old ELSE default

Leave ==
  /\ pc = "running" /\ top.todo = <<>>
  /\ default' = Restored
  /\ stack' = SubSeq(stack, 1, Len(stack) - 1)
  /\ pc' = IF Len(stack) = 1 THEN "returned" ELSE pc
  /\ UNCHANGED <<num, moved, constant, history>>

\* gmp_float's eval_divide throws before it has written anything, if it is to
\* divide by zero.
DivideByZero ==
  /\ Does("eval") /\ next.op = "divides"
  /\ pc' = "throwing"
  /\ UNCHANGED <<default, num, moved, constant, stack, history>>

\* The exception leaves an assignment: its temporary and its guard are destroyed.
Unwind ==
  /\ pc = "throwing"
  /\ default' = Restored
  /\ num' = [num EXCEPT ![Len(stack)] = NoNumber]
  /\ stack' = SubSeq(stack, 1, Len(stack) - 1)
  /\ pc' = IF Len(stack) = 1 THEN "threw" ELSE pc
  /\ UNCHANGED <<moved, constant, history>>

\* The program goes on, with what the assignment has left.
Continue ==
  /\ pc \in {"returned", "threw"} /\ pc' = "idle"
  /\ call' = NoCall /\ made' = [x \in Object |-> Given(0)]
  /\ UNCHANGED <<default, num, moved, constant, stack, asked>>

Step ==
  \/ Enter \/ maybe_promote_precision \/ Compute \/ ComputeFunction \/ CopyOperand
  \/ ConstructTemporary \/ MoveTemporary \/ SwapTemporary \/ DestroyTemporary
  \/ Leave \/ DivideByZero \/ Unwind

Next ==
  \/ \E p \in Precisions : SetDefault(p)
  \/ \E x \in Number, p \in Precisions : SetPrecision(x, p)
  \/ \E x, y \in Number : CopyNumber(x, y) \/ MoveNumber(x, y)
  \/ pc = "idle" /\ \E a \in Assignments : Assign(a)
  \/ Step \/ Continue

Spec == Init /\ [][Next]_<<vars, history>>

----------------------------------------------------------------------------
(* Properties. *)

\* Type invariant
TypeOK ==
  /\ {default, asked} \subseteq Precisions
  /\ num \in [Object -> [prec : Precisions \cup {0}, room : Precisions \cup {0}]]
  /\ moved \subseteq Number
  /\ constant \in [room : Precisions \cup {0}, right : Nat, digits : Precisions \cup {0}]
  /\ pc \in {"idle", "running", "throwing", "returned", "threw"}
  /\ Len(stack) <= MaxDepth /\ (stack = <<>> <=> pc \in {"idle", "returned", "threw"})

\* However deeply assignments construct temporaries for one another, and wherever an
\* exception leaves them, afterwards the default precision is the program's choice
\* and no temporary is left.
DefaultRestored ==
  stack = <<>> => default = asked /\ \A t \in Temporary : num[t] = NoNumber

\* The number of a frame of the stack is written through a temporary, because of its
\* precision.
ByMove(i) == \E k \in DOMAIN stack[i].todo : stack[i].todo[k].run = "move"

\* The front end does not "end up chasing it's tail trying to create a variable with
\* the correct precision": the temporary that is made because a number has another
\* precision than the expression has the precision of the expression, so that it is
\* not written through a temporary of its own, and so on.
TailNotChased == \A i \in 2..Len(stack) : ~(ByMove(i - 1) /\ ByMove(i))

Computed == pc = "returned" /\ ~call.unpromoted

\* "the precision of the result is always the largest of all the arguments": this is
\* what precision() says, and what the value has room for.
LargestPrecision == Computed => num[call.on] = DefaultNumber(call.prec)

\* No operation of an expression, in the target or a temporary, is carried out with
\* fewer digits than its most precise operand was given with; nor with a constant
\* of fewer digits, unless an earlier call has chosen the room of the constant.
KeepsDigits ==
  Computed =>
    /\ made[call.on].kept
    /\ made[call.on].served \/ constant.room < made[call.on].due
=============================================================================
