---------------------- MODULE ExpressionTemplatesProofs ---------------------
(***************************************************************************)
(* An assignment computes in its target, which the expression may mention. *)
(* What it does is a sequence of calls, the first of which is replaced by  *)
(* the calls that it consists of, until they are calls of the backend.     *)
(* For every expression, of any length, and every number of temporaries:   *)
(*                                                                         *)
(* - nothing reads the target for an operand once it has been written to,  *)
(*   because each sequence is Ordered: what comes after a call that writes *)
(*   to the target Leaves it alone, also when the calls have been replaced *)
(*   (TargetNotReread);                                                    *)
(* - chains of operators, each of which has a number for an operand, make  *)
(*   no temporaries: what is left to do is Flat (NoTemporaries).           *)
(*                                                                         *)
(* The expressions are trees, of which every part is one (Tree).           *)
(***************************************************************************)
EXTENDS ExpressionTemplates, SequenceTheorems, FiniteSetTheorems, TLAPS

Sequence(l) == \E S : l \in Seq(S)

----------------------------------------------------------------------------
(* Sequences. *)

\* Two sequences are one.
LEMMA SequencesJoin ==
  ASSUME NEW a, NEW b, Sequence(a), Sequence(b)
  PROVE  /\ Sequence(a \o b) /\ Len(a) \in Nat /\ Len(b) \in Nat
         /\ Len(a \o b) = Len(a) + Len(b)
         /\ \A k \in 1..Len(a) + Len(b) :
              (a \o b)[k] = IF k <= Len(a) THEN a[k] ELSE b[k - Len(a)]
<1>1. PICK S : a \in Seq(S)
  BY DEF Sequence
<1>2. PICK T : b \in Seq(T)
  BY DEF Sequence
<1>3. a \in Seq(S \cup T) /\ b \in Seq(S \cup T)
  BY <1>1, <1>2, SeqMonotonic
<1>4. a \o b \in Seq(S \cup T)
  BY <1>3, ConcatProperties
<1> QED BY <1>3, <1>4, ConcatProperties, LenProperties DEF Sequence

\* The first element and the others
LEMMA TailOf ==
  ASSUME NEW l, Sequence(l), l # <<>>
  PROVE  /\ Sequence(Tail(l)) /\ Head(l) = l[1] /\ Len(l) \in Nat \ {0}
         /\ Len(Tail(l)) = Len(l) - 1 /\ \A k \in 1..Len(Tail(l)) : Tail(l)[k] = l[k + 1]
<1>1. PICK S : l \in Seq(S)
  BY DEF Sequence
<1> QED BY <1>1, HeadTailProperties, EmptySeq DEF Sequence

\* Short sequences
LEMMA ShortSequences ==
  /\ Sequence(<<>>) /\ Len(<<>>) = 0
  /\ \A c : Sequence(<<c>>) /\ Len(<<c>>) = 1 /\ <<c>>[1] = c
  /\ \A c, d : <<c>> \o <<d>> = <<c, d>>
  /\ \A b, c, d : (<<b>> \o <<c>>) \o <<d>> = <<b, c, d>>
<1>1. Sequence(<<>>) /\ Len(<<>>) = 0
  BY EmptySeq DEF Sequence
<1>2. \A c : <<c>> \in Seq({c}) /\ Len(<<c>>) = 1 /\ <<c>>[1] = c
  OBVIOUS
<1>3. ASSUME NEW S, NEW c \in S, NEW d \in S
      PROVE  <<c>> \o <<d>> = <<c, d>>
  <2> DEFINE u == <<c>>
             v == <<d>>
             w == <<c, d>>
  <2>1. /\ u \in Seq(S) /\ v \in Seq(S) /\ w \in Seq(S) /\ Len(u) = 1 /\ Len(v) = 1
        /\ Len(w) = 2 /\ u[1] = c /\ v[1] = d /\ w[1] = c /\ w[2] = d
    OBVIOUS
  <2> HIDE DEF u, v, w
  <2>2. /\ u \o v \in Seq(S) /\ Len(u \o v) = Len(u) + Len(v)
        /\ \A k \in 1..Len(u) + Len(v) :
             (u \o v)[k] = IF k <= Len(u) THEN u[k] ELSE v[k - Len(u)]
    BY <2>1, ConcatProperties
  <2>3. Len(u \o v) = 2 /\ \A k \in 1..2 : (u \o v)[k] = w[k]
    BY <2>1, <2>2
  <2>4. u \o v = w
    BY <2>1, <2>2, <2>3, SeqEqual
  <2> QED BY <2>4 DEF u, v, w
<1>4. ASSUME NEW S, NEW b \in S, NEW c \in S, NEW d \in S
      PROVE  <<b, c>> \o <<d>> = <<b, c, d>>
  <2> DEFINE u == <<b, c>>
             v == <<d>>
             w == <<b, c, d>>
  <2>1. /\ u \in Seq(S) /\ v \in Seq(S) /\ w \in Seq(S) /\ Len(u) = 2 /\ Len(v) = 1
        /\ Len(w) = 3 /\ u[1] = b /\ u[2] = c /\ v[1] = d /\ w[1] = b /\ w[2] = c /\ w[3] = d
    OBVIOUS
  <2> HIDE DEF u, v, w
  <2>2. /\ u \o v \in Seq(S) /\ Len(u \o v) = Len(u) + Len(v)
        /\ \A k \in 1..Len(u) + Len(v) :
             (u \o v)[k] = IF k <= Len(u) THEN u[k] ELSE v[k - Len(u)]
    BY <2>1, ConcatProperties
  <2>3. Len(u \o v) = 3 /\ \A k \in 1..3 : (u \o v)[k] = w[k]
    BY <2>1, <2>2
  <2>4. u \o v = w
    BY <2>1, <2>2, <2>3, SeqEqual
  <2> QED BY <2>4 DEF u, v, w
<1>5. \A c, d : <<c>> \o <<d>> = <<c, d>>
  <2>1. ASSUME NEW c, NEW d
        PROVE  <<c>> \o <<d>> = <<c, d>>
    <3>1. c \in {c, d} /\ d \in {c, d}
      OBVIOUS
    <3> QED BY <1>3, <3>1
  <2> QED BY <2>1
<1>6. \A b, c, d : (<<b>> \o <<c>>) \o <<d>> = <<b, c, d>>
  <2>1. ASSUME NEW b, NEW c, NEW d
        PROVE  (<<b>> \o <<c>>) \o <<d>> = <<b, c, d>>
    <3>1. b \in {b, c, d} /\ c \in {b, c, d} /\ d \in {b, c, d}
      OBVIOUS
    <3>2. <<b>> \o <<c>> = <<b, c>> /\ <<b, c>> \o <<d>> = <<b, c, d>>
      BY <1>4, <1>5, <3>1
    <3> QED BY <3>2
  <2> QED BY <2>1
<1> QED BY <1>1, <1>2, <1>5, <1>6 DEF Sequence

----------------------------------------------------------------------------
(* Expressions as trees. *)

Arithmetic    == {"plus", "minus", "multiplies", "divides", "modulus"}
ImmediateTags == {"add_immediates", "subtract_immediates", "multiply_immediates",
                  "divide_immediates", "modulus_immediates", "bitwise_and_immediates",
                  "bitwise_or_immediates", "bitwise_xor_immediates"}
Fused         == {"multiply_add", "multiply_subtract"}
OneOperand    == UnaryTags \cup {"complement_immediates"}
Operators     == BinaryTags \cup ImmediateTags \cup Fused \cup OneOperand

\* Operators that only numbers can be the operands of
OnNumbers == ImmediateTags \cup Fused \cup {"complement_immediates"}

Arity(tag) == IF tag \in OneOperand THEN 1 ELSE IF tag \in Fused THEN 3 ELSE 2

\* An operand is a number, and of a quotient this is the right one.
Linked(e) ==
  /\ e.tag \notin UnaryTags \ {"negate"}
  /\ e.tag \in BinaryTags => IsNumber(right(e)) \/ (IsNumber(left(e)) /\ e.tag \notin {"divides", "modulus"})

\* An operator and its operands; chain if it is part of a chain
Shape(e, chain) ==
  /\ e.tag \in Operators /\ Len(e.subs) = Arity(e.tag)
  /\ e.tag \in OnNumbers => \A k \in 1..Len(e.subs) : IsNumber(e.subs[k])
  /\ e.numbers = UNION {e.subs[k].numbers : k \in DOMAIN e.subs}
  /\ e.depth \in Nat \ {0}
  /\ chain => Linked(e)

IsTerminal(e) == \E x : e = terminal(x)

\* A set of expressions that contains the parts of each of them
Closed(S, chain) == \A e \in S : IsTerminal(e) \/ (e.subs \in Seq(S) /\ Shape(e, chain))

Tree(e, chain) == \E S : e \in S /\ Closed(S, chain)

\* The names of the operators
LEMMA TagNames ==
  /\ BinaryTags = Arithmetic \cup Bitwise
  /\ \A op \in BinaryTags : Immediates[op] \in ImmediateTags
  /\ \A e : IsImmediates(e) <=> e.tag \in ImmediateTags
<1>1. BinaryTags = Arithmetic \cup Bitwise
  BY DEF BinaryTags, Immediates, Arithmetic, Bitwise
<1>2. /\ Immediates["plus"] = "add_immediates" /\ Immediates["minus"] = "subtract_immediates"
      /\ Immediates["multiplies"] = "multiply_immediates"
      /\ Immediates["divides"] = "divide_immediates"
      /\ Immediates["modulus"] = "modulus_immediates"
      /\ Immediates["bitwise_and"] = "bitwise_and_immediates"
      /\ Immediates["bitwise_or"] = "bitwise_or_immediates"
      /\ Immediates["bitwise_xor"] = "bitwise_xor_immediates"
  BY DEF Immediates
<1>3. \A op \in BinaryTags : Immediates[op] \in ImmediateTags
  BY <1>1, <1>2 DEF Arithmetic, Bitwise, ImmediateTags
<1>4. \A e : IsImmediates(e) <=> e.tag \in ImmediateTags
  BY <1>1, <1>2 DEF IsImmediates, Arithmetic, Bitwise, ImmediateTags
<1> QED BY <1>1, <1>3, <1>4

\* A number as an expression
LEMMA TerminalTree ==
  ASSUME NEW x, NEW chain
  PROVE  /\ Tree(terminal(x), chain) /\ IsNumber(terminal(x)) /\ value(terminal(x)) = x
         /\ terminal(x).numbers = {x} /\ terminal(x).depth = 0
<1>1. terminal(x) \in {terminal(x)} /\ Closed({terminal(x)}, chain)
  BY DEF Closed, IsTerminal
<1>2. IsNumber(terminal(x)) /\ terminal(x).numbers = {x} /\ terminal(x).depth = 0
  BY DEF terminal, IsNumber
<1>3. value(terminal(x)) = x
  BY <1>2 DEF value
<1> QED BY <1>1, <1>2, <1>3 DEF Tree

\* What the parts of a tree are
LEMMA TreeParts ==
  ASSUME NEW e, NEW chain, Tree(e, chain)
  PROVE  /\ IsNumber(e) => IsTerminal(e)
         /\ ~IsNumber(e) =>
              /\ Shape(e, chain) /\ Sequence(e.subs) /\ Len(e.subs) \in 1..3
              /\ DOMAIN e.subs = 1..Len(e.subs)
              /\ \A k \in 1..Len(e.subs) : /\ Tree(e.subs[k], chain)
                                           /\ e.subs[k].numbers \subseteq e.numbers
<1>1. PICK S : e \in S /\ Closed(S, chain)
  BY DEF Tree
<1>2. CASE IsTerminal(e)
  BY <1>2, TerminalTree DEF IsTerminal
<1>3. CASE ~IsTerminal(e)
  <2>1. e.subs \in Seq(S) /\ Shape(e, chain)
    BY <1>1, <1>3 DEF Closed
  <2>2. DOMAIN e.subs = 1..Len(e.subs) /\ \A k \in 1..Len(e.subs) : e.subs[k] \in S
    BY <2>1, LenProperties, ElementOfSeq
  <2>3. Len(e.subs) \in 1..3
    BY <2>1 DEF Shape, Arity
  <2>4. ~IsNumber(e)
    BY <2>1, TagNames DEF Shape, IsNumber, Operators, Arithmetic, Bitwise, ImmediateTags, Fused,
      OneOperand, UnaryTags
  <2>5. \A k \in 1..Len(e.subs) : Tree(e.subs[k], chain)
    BY <1>1, <2>2 DEF Tree
  <2>6. \A k \in 1..Len(e.subs) : e.subs[k].numbers \subseteq e.numbers
    BY <2>1, <2>2 DEF Shape
  <2> QED BY <2>1, <2>2, <2>3, <2>4, <2>5, <2>6 DEF Sequence
<1> QED BY <1>2, <1>3

\* A number is a tree of any kind; every chain is a tree.
LEMMA TreeKinds ==
  ASSUME NEW e
  PROVE  /\ Tree(e, FALSE) /\ IsNumber(e) => \A chain : Tree(e, chain)
         /\ Tree(e, TRUE) => Tree(e, FALSE)
<1>1. Tree(e, FALSE) /\ IsNumber(e) => \A chain : Tree(e, chain)
  <2> SUFFICES ASSUME Tree(e, FALSE), IsNumber(e), NEW chain PROVE Tree(e, chain)
    OBVIOUS
  <2>1. PICK x : e = terminal(x)
    BY TreeParts DEF IsTerminal
  <2>2. Tree(terminal(x), chain)
    BY TerminalTree
  <2> QED BY <2>1, <2>2
<1>2. \A S : Closed(S, TRUE) => Closed(S, FALSE)
  BY DEF Closed, Shape
<1> QED BY <1>1, <1>2 DEF Tree

\* The largest of the depths of up to three operands
LEMMA LargestDepth ==
  ASSUME NEW subs, NEW n \in 1..3, \A k \in 1..n : subs[k].depth \in Nat
  PROVE  Max({subs[k].depth : k \in 1..n}) \in Nat
<1> DEFINE S == {subs[k].depth : k \in 1..n}
<1>1. PICK m \in 1..n : \A k \in 1..n : subs[m].depth >= subs[k].depth
  <2>1. CASE n = 1
    BY <2>1
  <2>2. CASE n = 2
    BY <2>2
  <2>3. CASE n = 3
    BY <2>3
  <2> QED BY <2>1, <2>2, <2>3
<1>2. subs[m].depth \in S /\ \A y \in S : subs[m].depth >= y
  BY <1>1
<1>3. Max(S) \in S
  BY <1>2 DEF Max
<1> QED BY <1>3

\* The depth of a tree
LEMMA TreeDepth ==
  ASSUME NEW e, NEW chain, Tree(e, chain)
  PROVE  e.depth \in Nat /\ (IsNumber(e) <=> e.depth = 0)
<1>1. CASE IsNumber(e)
  BY <1>1, TreeParts, TerminalTree DEF IsTerminal
<1>2. CASE ~IsNumber(e)
  BY <1>2, TreeParts DEF Shape
<1> QED BY <1>1, <1>2

\* An operator on trees
LEMMA TreeBuilt ==
  ASSUME NEW tag \in Operators, NEW subs, NEW chain,
         Sequence(subs), Len(subs) = Arity(tag),
         \A k \in 1..Len(subs) : Tree(subs[k], chain),
         tag \in OnNumbers => \A k \in 1..Len(subs) : IsNumber(subs[k]),
         chain => Linked(expression(tag, subs))
  PROVE  Tree(expression(tag, subs), chain)
<1> DEFINE e == expression(tag, subs)
           n == Len(subs)
           part(k) == CHOOSE S : subs[k] \in S /\ Closed(S, chain)
           T == UNION {part(k) : k \in 1..n}
<1>1. n \in 1..3 /\ DOMAIN subs = 1..n
  <2>1. PICK U : subs \in Seq(U)
    BY DEF Sequence
  <2>2. DOMAIN subs = 1..n
    BY <2>1, LenProperties
  <2>3. n \in 1..3
    BY DEF Arity
  <2> QED BY <2>2, <2>3
<1>2. \A k \in 1..n : subs[k] \in part(k) /\ Closed(part(k), chain)
  BY DEF Tree
<1>3. subs \in Seq(T \cup {e})
  <2>1. PICK U : subs \in Seq(U)
    BY DEF Sequence
  <2>2. \A k \in 1..n : subs[k] \in T \cup {e}
    BY <1>2
  <2>3. subs \in Seq(T \cup {e})
    BY <1>1, <2>1, <2>2
  <2> QED BY <2>3
<1>4. Closed(T, chain)
  <2>1. SUFFICES ASSUME NEW k \in 1..n, NEW d \in part(k)
                 PROVE  IsTerminal(d) \/ (d.subs \in Seq(T) /\ Shape(d, chain))
    BY DEF Closed
  <2>2. IsTerminal(d) \/ (d.subs \in Seq(part(k)) /\ Shape(d, chain))
    BY <1>2 DEF Closed
  <2>3. part(k) \subseteq T
    OBVIOUS
  <2> HIDE DEF part, T
  <2> QED BY <2>2, <2>3, SeqMonotonic
<1>5. \A k \in 1..n : subs[k].depth \in Nat
  BY TreeDepth
<1>6. /\ e.tag = tag /\ e.subs = subs
      /\ e.numbers = UNION {subs[k].numbers : k \in DOMAIN subs}
      /\ e.depth = 1 + Max({subs[k].depth : k \in DOMAIN subs})
  BY DEF expression
<1>7. e.depth \in Nat \ {0}
  <2>1. Max({subs[k].depth : k \in 1..n}) \in Nat
    BY <1>1, <1>5, LargestDepth
  <2>2. e.depth = 1 + Max({subs[k].depth : k \in 1..n})
    BY <1>1, <1>6
  <2> HIDE DEF e, n
  <2> QED BY <2>1, <2>2
<1> HIDE DEF e, T, n
<1>8. Shape(e, chain)
  BY <1>6, <1>7 DEF Shape, e
<1>9. Closed(T \cup {e}, chain)
  <2>1. \A d \in T : d.subs \in Seq(T) => d.subs \in Seq(T \cup {e})
    BY SeqMonotonic
  <2> QED BY <1>3, <1>4, <1>6, <1>8, <2>1 DEF Closed
<1> QED BY <1>9 DEF Tree, e

----------------------------------------------------------------------------
(* What the operators of et_ops.hpp build are trees, and chains if one of   *)
(* their operands is a number and the other a chain.                        *)

\* An expression that may be the operand of op in a chain, with b for the other one
Links(op, a, b) == IsNumber(b) \/ (IsNumber(a) /\ op \notin {"divides", "modulus"})

LEMMA BinaryTree ==
  ASSUME NEW op \in BinaryTags, NEW a, NEW b, NEW chain, Tree(a, chain), Tree(b, chain),
         chain => Links(op, a, b)
  PROVE  Tree(binary(op, a, b), chain)
<1> DEFINE tag == IF IsNumber(a) /\ IsNumber(b) THEN Immediates[op] ELSE op
           l == <<a, b>>
<1>1. l \in Seq({a, b}) /\ Len(l) = 2 /\ l[1] = a /\ l[2] = b /\ \A k \in 1..2 : k = 1 \/ k = 2
  OBVIOUS
<1>2. tag \in Operators /\ Arity(tag) = 2 /\ (tag \in OnNumbers => IsNumber(a) /\ IsNumber(b))
  BY TagNames DEF Operators, Arity, OnNumbers, Arithmetic, Bitwise, ImmediateTags, Fused,
     OneOperand, UnaryTags
<1>3. tag \notin UnaryTags /\ (tag \in BinaryTags => tag = op)
  BY TagNames DEF UnaryTags, Arithmetic, Bitwise, ImmediateTags
<1> HIDE DEF l, tag
<1>4. expression(tag, l).tag = tag /\ expression(tag, l).subs = l
  BY DEF expression
<1>5. chain => Linked(expression(tag, l))
  BY <1>1, <1>3, <1>4 DEF Linked, Links, left, right
<1>6. Tree(expression(tag, l), chain)
  BY <1>1, <1>2, <1>5, TreeBuilt DEF Sequence
<1> QED BY <1>6 DEF binary, tag, l

LEMMA UnaryTree ==
  ASSUME NEW op \in OneOperand, NEW a, NEW chain, Tree(a, chain),
         chain => op = "negate", op = "complement_immediates" => IsNumber(a)
  PROVE  Tree(expression(op, <<a>>), chain)
<1> DEFINE l == <<a>>
<1>1. l \in Seq({a}) /\ Len(l) = 1 /\ l[1] = a /\ \A k \in 1..1 : k = 1
  OBVIOUS
<1>2. op \in Operators /\ Arity(op) = 1 /\ (op \in OnNumbers => IsNumber(a))
  BY DEF Operators, Arity, OnNumbers, ImmediateTags, Fused, OneOperand, UnaryTags
<1>3. op \notin BinaryTags
  BY TagNames DEF Arithmetic, Bitwise, OneOperand, UnaryTags
<1> HIDE DEF l
<1>4. expression(op, l).tag = op
  BY DEF expression
<1>5. chain => Linked(expression(op, l))
  BY <1>3, <1>4 DEF Linked
<1>6. Tree(expression(op, l), chain)
  BY <1>1, <1>2, <1>5, TreeBuilt DEF Sequence
<1> QED BY <1>6 DEF l

\* A product of two numbers, and a third one
LEMMA FusedTree ==
  ASSUME NEW tag \in Fused, NEW p, NEW a, NEW chain, Tree(p, chain), IsProduct(p),
         Tree(a, chain), IsNumber(a)
  PROVE  Tree(expression(tag, p.subs \o <<a>>), chain)
<1> DEFINE l == p.subs \o <<a>>
<1>1. /\ ~IsNumber(p) /\ p.tag \in ImmediateTags /\ Arity(p.tag) = 2
  BY DEF IsProduct, IsNumber, ImmediateTags, Arity, OneOperand, UnaryTags, Fused
<1>2. /\ Sequence(p.subs) /\ Len(p.subs) = 2
      /\ \A k \in 1..2 : Tree(p.subs[k], chain) /\ IsNumber(p.subs[k])
  BY <1>1, TreeParts DEF Shape, OnNumbers
<1>3. Sequence(<<a>>) /\ Len(<<a>>) = 1 /\ <<a>>[1] = a
  BY ShortSequences
<1>4. Sequence(l) /\ Len(l) = 3 /\ l[1] = p.subs[1] /\ l[2] = p.subs[2] /\ l[3] = a
  <2> DEFINE u == p.subs
             v == <<a>>
  <2>1. Sequence(u) /\ Sequence(v) /\ Len(u) = 2 /\ Len(v) = 1 /\ v[1] = a
    BY <1>2, <1>3
  <2> HIDE DEF u, v
  <2>2. /\ Sequence(u \o v) /\ Len(u \o v) = Len(u) + Len(v)
        /\ \A k \in 1..Len(u) + Len(v) :
             (u \o v)[k] = IF k <= Len(u) THEN u[k] ELSE v[k - Len(u)]
    BY <2>1, SequencesJoin
  <2> DEFINE w == u \o v
  <2> HIDE DEF w
  <2>3. Sequence(w) /\ Len(w) = 3 /\ w[1] = u[1] /\ w[2] = u[2] /\ w[3] = v[1]
    BY <2>1, <2>2 DEF w
  <2> QED BY <2>1, <2>3 DEF u, v, w
<1> HIDE DEF l
<1>5. \A k \in 1..Len(l) : Tree(l[k], chain) /\ IsNumber(l[k])
  <2>1. \A k \in 1..3 : k = 1 \/ k = 2 \/ k = 3
    OBVIOUS
  <2> QED BY <1>2, <1>4, <2>1
<1>6. tag \in Operators /\ Arity(tag) = 3
  BY DEF Operators, Arity, Fused, OneOperand, UnaryTags
<1>7. expression(tag, l).tag = tag /\ tag \notin BinaryTags /\ tag \notin UnaryTags
  BY TagNames DEF expression, Fused, Arithmetic, Bitwise, UnaryTags
<1>8. Linked(expression(tag, l))
  BY <1>7 DEF Linked
<1>9. Tree(expression(tag, l), chain)
  BY <1>4, <1>5, <1>6, <1>8, TreeBuilt
<1> QED BY <1>9 DEF l

\* The operand of a negation
LEMMA NegatedOperand ==
  ASSUME NEW e, NEW chain, Tree(e, chain), IsNegated(e)
  PROVE  Tree(left(e), chain)
<1>1. ~IsNumber(e)
  BY DEF IsNegated, IsNumber
<1>2. Len(e.subs) \in 1..3 /\ 1 \in 1..Len(e.subs)
  BY <1>1, TreeParts
<1> QED BY <1>1, <1>2, TreeParts DEF left

LEMMA BinaryOperatorTree ==
  ASSUME NEW op \in BinaryTags, NEW a, NEW b, NEW chain, Tree(a, chain), Tree(b, chain),
         chain => Links(op, a, b)
  PROVE  Tree(operator2(op, a, b), chain)
<1>1. /\ IsNegated(a) => Tree(left(a), chain) /\ ~IsNumber(a)
      /\ IsNegated(b) => Tree(left(b), chain) /\ ~IsNumber(b)
  BY NegatedOperand DEF IsNegated, IsNumber
<1>2. {"plus", "minus", "multiplies", "divides"} \subseteq BinaryTags
  BY TagNames DEF Arithmetic
<1>3. Tree(binary(op, a, b), chain)
  BY BinaryTree
<1>4. /\ IsNumber(a) /\ IsNegated(b) /\ op # "divides" =>
           \A g \in {"plus", "minus", "multiplies"} : Tree(binary(g, a, left(b)), chain)
      /\ IsNegated(a) /\ IsNumber(b) =>
           \A g \in {"plus", "minus", "multiplies"} : Tree(binary(g, b, left(a)), chain)
      /\ IsNegatedNumber(a) /\ IsNegatedNumber(b) => Tree(binary("plus", left(a), left(b)), chain)
  <2>1. \A g \in {"plus", "minus", "multiplies"} : g \notin {"divides", "modulus"}
    OBVIOUS
  <2> QED BY <1>1, <1>2, <2>1, BinaryTree DEF Links, IsNegatedNumber
<1>5. /\ \A c : Tree(c, chain) => Tree(minus_(c), chain)
      /\ IsNumber(a) /\ IsProduct(b) => \A tag \in Fused : Tree(expression(tag, b.subs \o <<a>>), chain)
      /\ IsProduct(a) /\ IsNumber(b) => \A tag \in Fused : Tree(expression(tag, a.subs \o <<b>>), chain)
  BY UnaryTree, FusedTree DEF minus_, OneOperand, UnaryTags
<1>6. "multiply_add" \in Fused /\ "multiply_subtract" \in Fused
  BY DEF Fused
<1>7. CASE op = "plus"
  <2>1. Tree(operatorPlus(a, b), chain)
    BY <1>3, <1>4, <1>5, <1>6, <1>7 DEF operatorPlus
  <2> QED BY <1>7, <2>1 DEF operator2
<1>8. CASE op = "minus"
  <2>1. Tree(operatorMinus(a, b), chain)
    BY <1>3, <1>4, <1>5, <1>6, <1>8 DEF operatorMinus
  <2> QED BY <1>8, <2>1 DEF operator2
<1>9. CASE op = "multiplies"
  <2>1. Tree(operatorTimes(a, b), chain)
    BY <1>3, <1>4, <1>5, <1>9 DEF operatorTimes
  <2> QED BY <1>9, <2>1 DEF operator2
<1>10. CASE op = "divides"
  <2>1. IsNumber(a) /\ IsNegated(b) => Tree(binary("divides", a, left(b)), chain)
    BY <1>1, <1>2, <1>10, BinaryTree DEF Links
  <2>2. IsNegated(a) /\ IsNumber(b) => Tree(binary("divides", left(a), b), chain)
    BY <1>1, <1>2, BinaryTree DEF Links
  <2>3. Tree(operatorDivide(a, b), chain)
    BY <1>3, <1>5, <1>10, <2>1, <2>2 DEF operatorDivide
  <2> QED BY <1>10, <2>3 DEF operator2
<1>11. CASE op \notin {"plus", "minus", "multiplies", "divides"}
  BY <1>3, <1>11 DEF operator2
<1> QED BY <1>7, <1>8, <1>9, <1>10, <1>11

LEMMA UnaryOperatorTree ==
  ASSUME NEW op \in UnaryTags, NEW a, NEW chain, Tree(a, chain), chain => op = "negate"
  PROVE  Tree(operator1(op, a), chain)
<1>1. /\ op \in OneOperand /\ op # "complement_immediates"
      /\ "complement_immediates" \in OneOperand
  BY DEF OneOperand, UnaryTags
<1>2. CASE op = "bitwise_complement" /\ IsNumber(a)
  BY <1>1, <1>2, UnaryTree DEF operator1
<1>3. CASE ~(op = "bitwise_complement" /\ IsNumber(a))
  BY <1>1, <1>3, UnaryTree DEF operator1
<1> QED BY <1>2, <1>3

----------------------------------------------------------------------------
(* Sequences of calls. *)

\* A call on s, or on its temporary t, that reads only the numbers ns, the temporary and,
\* as the result so far, s
Proper(c, s, t, ns) ==
  /\ c.on \in {s, t}
  /\ c.run = "call" => c.of.numbers \subseteq ns \cup {t}
  /\ c.run = "eval" =>
       \A j \in DOMAIN c.of : c.of[j] \in ns \cup {t} \/ (j = 1 /\ c.of[j] = s /\ c.on = s)

\* A call that writes to the number x, and one that reads it only as the result so far
Writes(c, x) == c.on = x /\ c.run \in {"call", "eval", "swap"}
Leaves(c, x) ==
  /\ c.run = "call" => ~contains_self(x, c.of)
  /\ c.run = "eval" => \A j \in DOMAIN c.of : c.of[j] = x => j = 1 /\ c.on = x

Valid(c) == c.run = "call" => c.op \in Assignable /\ Tree(c.of, FALSE)

\* Of the compound assignments to x, only those use an expression that mentions x that
\* make a temporary of it, or have no expression but a number.
Careful(c, x) ==
  c.run = "call" /\ c.on = x /\ c.op # "assign" /\ contains_self(x, c.of) =>
    IsNumber(c.of) \/ c.op = "modulus" \/ (c.op = "divides" /\ kind.integer)

AllLeave(l, x)    == \A k \in 1..Len(l) : Leaves(l[k], x)
NoneWrites(l, x)  == \A k \in 1..Len(l) : ~Writes(l[k], x)

Ordered(l, x) ==
  /\ Sequence(l)
  /\ \A k \in 1..Len(l) : Valid(l[k]) /\ Careful(l[k], x)
  /\ \A j, k \in 1..Len(l) : j < k /\ Writes(l[j], x) => Leaves(l[k], x)

\* What a function called on s does with the temporary t and an expression over ns; x is
\* the target of the assignment.
Doing(l, s, t, ns, x) == Ordered(l, x) /\ \A k \in 1..Len(l) : Proper(l[k], s, t, ns)

\* Two sequences are one.
LEMMA DoingJoin ==
  ASSUME NEW a, NEW b, NEW x
  PROVE  /\ Sequence(a) /\ Sequence(b) =>
              /\ AllLeave(a, x) /\ AllLeave(b, x) => AllLeave(a \o b, x)
              /\ NoneWrites(a, x) /\ NoneWrites(b, x) => NoneWrites(a \o b, x)
         /\ Ordered(a, x) /\ Ordered(b, x) /\ (NoneWrites(a, x) \/ AllLeave(b, x)) =>
              /\ Ordered(a \o b, x)
              /\ \A s, t, ns : Doing(a, s, t, ns, x) /\ Doing(b, s, t, ns, x) =>
                               Doing(a \o b, s, t, ns, x)
<1> SUFFICES ASSUME Sequence(a), Sequence(b)
             PROVE  /\ AllLeave(a, x) /\ AllLeave(b, x) => AllLeave(a \o b, x)
                    /\ NoneWrites(a, x) /\ NoneWrites(b, x) => NoneWrites(a \o b, x)
                    /\ Ordered(a, x) /\ Ordered(b, x) /\ (NoneWrites(a, x) \/ AllLeave(b, x)) =>
                         /\ Ordered(a \o b, x)
                         /\ \A s, t, ns : Doing(a, s, t, ns, x) /\ Doing(b, s, t, ns, x) =>
                                          Doing(a \o b, s, t, ns, x)
  BY DEF Ordered
<1> DEFINE l == a \o b
           n == Len(a)
           m == Len(b)
<1>1. /\ Sequence(l) /\ n \in Nat /\ m \in Nat /\ Len(l) = n + m
      /\ \A k \in 1..n + m : l[k] = IF k <= n THEN a[k] ELSE b[k - n]
  BY SequencesJoin
<1> HIDE DEF l, n, m
<1>2. \A k \in 1..Len(l) : \/ k \in 1..n /\ l[k] = a[k]
                           \/ k > n /\ k - n \in 1..m /\ l[k] = b[k - n]
  BY <1>1
<1>3. AllLeave(a, x) /\ AllLeave(b, x) => AllLeave(l, x)
  BY <1>2 DEF AllLeave, n, m
<1>4. NoneWrites(a, x) /\ NoneWrites(b, x) => NoneWrites(l, x)
  BY <1>2 DEF NoneWrites, n, m
<1>5. ASSUME Ordered(a, x), Ordered(b, x), NoneWrites(a, x) \/ AllLeave(b, x)
      PROVE  Ordered(l, x)
  <2>1. \A k \in 1..Len(l) : Valid(l[k]) /\ Careful(l[k], x)
    BY <1>2, <1>5 DEF Ordered, n, m
  <2>2. ASSUME NEW j \in 1..Len(l), NEW k \in 1..Len(l), j < k, Writes(l[j], x)
        PROVE  Leaves(l[k], x)
    <3>1. CASE k \in 1..n
      <4>1. j \in 1..n /\ l[j] = a[j] /\ l[k] = a[k]
        BY <1>1, <1>2, <2>2, <3>1
      <4> QED BY <1>5, <2>2, <3>1, <4>1 DEF Ordered, n
    <3>2. CASE k \notin 1..n /\ j \in 1..n
      <4>1. k - n \in 1..m /\ l[k] = b[k - n] /\ l[j] = a[j]
        BY <1>1, <1>2, <2>2, <3>2
      <4> QED BY <1>5, <2>2, <3>2, <4>1 DEF NoneWrites, AllLeave, n, m
    <3>3. CASE k \notin 1..n /\ j \notin 1..n
      <4>1. /\ k - n \in 1..m /\ j - n \in 1..m /\ j - n < k - n
            /\ l[k] = b[k - n] /\ l[j] = b[j - n]
        BY <1>1, <1>2, <2>2, <3>3
      <4> QED BY <1>5, <2>2, <4>1 DEF Ordered, m
    <3> QED BY <3>1, <3>2, <3>3
  <2> QED BY <1>1, <2>1, <2>2 DEF Ordered
<1>6. ASSUME NEW s, NEW t, NEW ns, Doing(a, s, t, ns, x), Doing(b, s, t, ns, x), Ordered(l, x)
      PROVE  Doing(l, s, t, ns, x)
  BY <1>2, <1>6 DEF Doing, n, m
<1> QED BY <1>3, <1>4, <1>5, <1>6 DEF l

\* A single call
LEMMA SingleCall ==
  ASSUME NEW c, NEW x
  PROVE  /\ Sequence(<<c>>)
         /\ Leaves(c, x) => AllLeave(<<c>>, x)
         /\ ~Writes(c, x) => NoneWrites(<<c>>, x)
         /\ Valid(c) /\ Careful(c, x) => /\ Ordered(<<c>>, x)
              /\ \A s, t, ns : Proper(c, s, t, ns) => Doing(<<c>>, s, t, ns, x)
<1> DEFINE l == <<c>>
<1>1. Sequence(l) /\ Len(l) = 1 /\ l[1] = c
  BY ShortSequences
<1> HIDE DEF l
<1>2. (\A k \in 1..Len(l) : k = 1) /\ (\A j, k \in 1..Len(l) : ~(j < k))
  BY <1>1
<1> QED BY <1>1, <1>2 DEF AllLeave, NoneWrites, Ordered, Doing, l

\* Calls that read neither s nor t leave them alone.
LEMMA ProperLeaves ==
  ASSUME NEW l, NEW s, NEW t, NEW ns, NEW x, x \notin ns, x # t,
         \A k \in 1..Len(l) : Proper(l[k], s, t, ns)
  PROVE  AllLeave(l, x)
BY DEF Proper, AllLeave, Leaves, contains_self

\* The begin and the end of a scope
LEMMA ScopeCalls ==
  ASSUME NEW s, NEW t, NEW ns, NEW x, t # x
  PROVE  \A c \in {Construct(t), Destroy(t)} :
           Valid(c) /\ Careful(c, x) /\ Proper(c, s, t, ns) /\ Leaves(c, x) /\ ~Writes(c, x)
  <1>1. /\ Construct(t).run = "construct" /\ Construct(t).on = t
        /\ Destroy(t).run = "destroy" /\ Destroy(t).on = t
    BY DEF Construct, Destroy
  <1>2. ASSUME NEW c, c.run \notin {"call", "eval", "swap"}, c.on = t
        PROVE  /\ Valid(c) /\ Careful(c, x) /\ Proper(c, s, t, ns)
               /\ Leaves(c, x) /\ ~Writes(c, x)
    BY <1>2 DEF Valid, Careful, Proper, Leaves, Writes
  <1> QED BY <1>1, <1>2

\* Calls of the backend
LEMMA BackendCalls ==
  ASSUME NEW x
  PROVE  /\ \A op, r, l : Valid(Eval(op, r, l)) /\ Careful(Eval(op, r, l), x)
         /\ \A op, r, l : /\ Eval(op, r, l).run = "eval" /\ Eval(op, r, l).on = r
                         /\ Eval(op, r, l).of = l
         /\ \A y : DOMAIN <<y>> = {1} /\ <<y>>[1] = y
         /\ \A y, z : DOMAIN <<z, y>> = {1, 2} /\ <<z, y>>[1] = z /\ <<z, y>>[2] = y
<1>1. \A op, r, l : Valid(Eval(op, r, l)) /\ Careful(Eval(op, r, l), x)
  BY DEF Eval, Valid, Careful
<1>2. \A op, r, l : /\ Eval(op, r, l).run = "eval" /\ Eval(op, r, l).on = r
                    /\ Eval(op, r, l).of = l
  BY DEF Eval
<1>3. /\ \A y : DOMAIN <<y>> = {1} /\ <<y>>[1] = y
      /\ \A y, z : DOMAIN <<z, y>> = {1, 2} /\ <<z, y>>[1] = z /\ <<z, y>>[2] = y
  OBVIOUS
<1> QED BY <1>1, <1>2, <1>3

\* Longer sequences
LEMMA LongerSequences ==
  /\ \A a, b, c, d : <<a, b, c>> \o <<d>> = <<a, b, c, d>>
  /\ \A a, b, c, d, e : <<a, b, c, d>> \o <<e>> = <<a, b, c, d, e>>
<1>1. ASSUME NEW S, NEW a \in S, NEW b \in S, NEW c \in S, NEW d \in S
      PROVE  <<a, b, c>> \o <<d>> = <<a, b, c, d>>
  <2> DEFINE u == <<a, b, c>>
             v == <<d>>
             w == <<a, b, c, d>>
  <2>1. /\ u \in Seq(S) /\ v \in Seq(S) /\ w \in Seq(S) /\ Len(u) = 3 /\ Len(v) = 1
        /\ Len(w) = 4 /\ u[1] = a /\ u[2] = b /\ u[3] = c /\ v[1] = d
        /\ w[1] = a /\ w[2] = b /\ w[3] = c /\ w[4] = d
    OBVIOUS
  <2> HIDE DEF u, v, w
  <2>2. /\ u \o v \in Seq(S) /\ Len(u \o v) = Len(u) + Len(v)
        /\ \A k \in 1..Len(u) + Len(v) :
             (u \o v)[k] = IF k <= Len(u) THEN u[k] ELSE v[k - Len(u)]
    BY <2>1, ConcatProperties
  <2>3. Len(u \o v) = 4 /\ \A k \in 1..4 : (u \o v)[k] = w[k]
    BY <2>1, <2>2
  <2>4. u \o v = w
    BY <2>1, <2>2, <2>3, SeqEqual
  <2> QED BY <2>4 DEF u, v, w
<1>2. ASSUME NEW S, NEW a \in S, NEW b \in S, NEW c \in S, NEW d \in S, NEW e \in S
      PROVE  <<a, b, c, d>> \o <<e>> = <<a, b, c, d, e>>
  <2> DEFINE u == <<a, b, c, d>>
             v == <<e>>
             w == <<a, b, c, d, e>>
  <2>1. /\ u \in Seq(S) /\ v \in Seq(S) /\ w \in Seq(S) /\ Len(u) = 4 /\ Len(v) = 1
        /\ Len(w) = 5 /\ u[1] = a /\ u[2] = b /\ u[3] = c /\ u[4] = d /\ v[1] = e
        /\ w[1] = a /\ w[2] = b /\ w[3] = c /\ w[4] = d /\ w[5] = e
    OBVIOUS
  <2> HIDE DEF u, v, w
  <2>2. /\ u \o v \in Seq(S) /\ Len(u \o v) = Len(u) + Len(v)
        /\ \A k \in 1..Len(u) + Len(v) :
             (u \o v)[k] = IF k <= Len(u) THEN u[k] ELSE v[k - Len(u)]
    BY <2>1, ConcatProperties
  <2>3. Len(u \o v) = 5 /\ \A k \in 1..5 : (u \o v)[k] = w[k]
    BY <2>1, <2>2
  <2>4. u \o v = w
    BY <2>1, <2>2, <2>3, SeqEqual
  <2> QED BY <2>4 DEF u, v, w
<1>3. ASSUME NEW a, NEW b, NEW c, NEW d
      PROVE  <<a, b, c>> \o <<d>> = <<a, b, c, d>>
  <2>1. a \in {a, b, c, d} /\ b \in {a, b, c, d} /\ c \in {a, b, c, d} /\ d \in {a, b, c, d}
    OBVIOUS
  <2> QED BY <1>1, <2>1
<1>4. ASSUME NEW a, NEW b, NEW c, NEW d, NEW e
      PROVE  <<a, b, c, d>> \o <<e>> = <<a, b, c, d, e>>
  <2> DEFINE S == {a, b, c, d, e}
  <2>1. a \in S /\ b \in S /\ c \in S /\ d \in S /\ e \in S
    OBVIOUS
  <2> HIDE DEF S
  <2> QED BY <1>2, <2>1
<1> QED BY <1>3, <1>4

\* A call of do_assign or its kin
LEMMA CallDoing ==
  ASSUME NEW s, NEW t, NEW ns, NEW x, NEW f \in Assignable, NEW r \in {s, t}, NEW e,
         Tree(e, FALSE), e.numbers \subseteq ns \cup {t}, Careful(Call(f, r, e), x)
  PROVE  /\ Doing(<<Call(f, r, e)>>, s, t, ns, x)
         /\ x \notin e.numbers => AllLeave(<<Call(f, r, e)>>, x)
         /\ r # x => NoneWrites(<<Call(f, r, e)>>, x)
<1> DEFINE c == Call(f, r, e)
<1>1. c.run = "call" /\ c.op = f /\ c.on = r /\ c.of = e
  BY DEF Call
<1> HIDE DEF c
<1>2. Valid(c) /\ Careful(c, x) /\ Proper(c, s, t, ns)
  BY <1>1 DEF Valid, Proper, c
<1>3. (x \notin e.numbers => Leaves(c, x)) /\ (r # x => ~Writes(c, x))
  BY <1>1 DEF Leaves, Writes, contains_self
<1> QED BY <1>2, <1>3, SingleCall DEF c

\* Which calls are careful
LEMMA CarefulCalls ==
  ASSUME NEW r, NEW e, NEW x
  PROVE  /\ Careful(Call("assign", r, e), x)
         /\ \A f : r # x \/ x \notin e.numbers \/ IsNumber(e) \/ f = "modulus"
                     \/ (f = "divides" /\ kind.integer) => Careful(Call(f, r, e), x)
         /\ \A f : Careful(Call(f, r, e), x) /\ r = x /\ x \in e.numbers =>
                     \/ IsNumber(e) \/ f \in {"assign", "modulus"}
                     \/ (f = "divides" /\ kind.integer)
<1>1. \A f : /\ Call(f, r, e).run = "call" /\ Call(f, r, e).op = f
             /\ Call(f, r, e).on = r /\ Call(f, r, e).of = e
  BY DEF Call
<1> QED BY <1>1 DEF Careful, contains_self

\* A temporary for the expression, used by one call
LEMMA TempDoing ==
  ASSUME NEW s, NEW t, NEW ns, NEW x, t # x, NEW e, Tree(e, FALSE), e.numbers \subseteq ns,
         NEW c, Doing(<<c>>, s, t, ns, x)
  PROVE  Doing(Temp(t, e, <<c>>), s, t, ns, x)
<1> DEFINE a == <<Construct(t)>>
           b == <<Call("assign", t, e)>>
           d == <<Destroy(t)>>
           l == <<c>>
<1>1. /\ Doing(a, s, t, ns, x) /\ NoneWrites(a, x)
      /\ Doing(d, s, t, ns, x) /\ AllLeave(d, x)
  <2>1. \A k \in {Construct(t), Destroy(t)} :
          Valid(k) /\ Careful(k, x) /\ Proper(k, s, t, ns) /\ Leaves(k, x) /\ ~Writes(k, x)
    BY ScopeCalls
  <2> QED BY <2>1, SingleCall
<1>2. Doing(b, s, t, ns, x) /\ NoneWrites(b, x)
  BY CallDoing, CarefulCalls DEF Assignable
<1>3. Temp(t, e, <<c>>) = ((a \o b) \o l) \o d
  BY ShortSequences DEF Temp
<1>4. Doing(l, s, t, ns, x)
  OBVIOUS
<1> HIDE DEF a, b, d, l
<1>5. Doing(a \o b, s, t, ns, x) /\ NoneWrites(a \o b, x)
  BY <1>1, <1>2, DoingJoin DEF Doing, Ordered
<1>6. Doing((a \o b) \o l, s, t, ns, x)
  BY <1>4, <1>5, DoingJoin DEF Doing
<1>7. Doing(((a \o b) \o l) \o d, s, t, ns, x)
  BY <1>1, <1>6, DoingJoin DEF Doing
<1> QED BY <1>3, <1>7

\* Two calls, of which the second one does not read what the first one writes
LEMMA TwoCallsDoing ==
  ASSUME NEW s, NEW t, NEW ns, NEW x, NEW f \in Assignable, NEW g \in Assignable,
         NEW d, Tree(d, FALSE), d.numbers \subseteq ns,
         NEW e, Tree(e, FALSE), e.numbers \subseteq ns,
         s # x \/ x \notin e.numbers, Careful(Call(f, s, d), x)
  PROVE  Doing(<<Call(f, s, d), Call(g, s, e)>>, s, t, ns, x)
<1> DEFINE a == <<Call(f, s, d)>>
           b == <<Call(g, s, e)>>
<1>1. Doing(a, s, t, ns, x) /\ (s # x => NoneWrites(a, x))
  BY CallDoing
<1>2. Doing(b, s, t, ns, x) /\ (x \notin e.numbers => AllLeave(b, x))
  BY CallDoing, CarefulCalls
<1>3. <<Call(f, s, d), Call(g, s, e)>> = a \o b
  BY ShortSequences
<1> HIDE DEF a, b
<1>4. Doing(a \o b, s, t, ns, x)
  BY <1>1, <1>2, DoingJoin DEF Doing
<1> QED BY <1>3, <1>4

\* A negation of the result
LEMMA NegateDoing ==
  ASSUME NEW s, NEW t, NEW ns, NEW x, t # x, NEW l, Doing(l, s, t, ns, x)
  PROVE  Doing(l \o <<Negate(s)>>, s, t, ns, x)
<1> DEFINE d == <<Negate(s)>>
<1>1. Doing(d, s, t, ns, x) /\ AllLeave(d, x)
  <2>1. /\ Valid(Negate(s)) /\ Careful(Negate(s), x) /\ Proper(Negate(s), s, t, ns)
        /\ Leaves(Negate(s), x)
    BY BackendCalls DEF Negate, Proper, Leaves
  <2> QED BY <2>1, SingleCall
<1> HIDE DEF d
<1>2. Doing(l \o d, s, t, ns, x)
  BY <1>1, DoingJoin DEF Doing
<1> QED BY <1>2 DEF d

\* A call of the backend with two operands
LEMMA EvalDoing ==
  ASSUME NEW s, NEW t, NEW ns, NEW x, t # x, NEW op, NEW y \in ns \cup {t},
         NEW z \in ns \cup {s, t}
  PROVE  /\ Doing(<<Eval(op, s, <<z, y>>)>>, s, t, ns, x)
         /\ y # x /\ (z = s \/ z # x) => AllLeave(<<Eval(op, s, <<z, y>>)>>, x)
         /\ s # x => NoneWrites(<<Eval(op, s, <<z, y>>)>>, x)
<1> DEFINE c == Eval(op, s, <<z, y>>)
<1>1. /\ Valid(c) /\ Careful(c, x) /\ Proper(c, s, t, ns)
      /\ (y # x /\ (z = s \/ z # x) => Leaves(c, x))
  BY BackendCalls DEF Proper, Leaves
<1>2. s # x => ~Writes(c, x)
  BY DEF Eval, Writes
<1> HIDE DEF c
<1> QED BY <1>1, <1>2, SingleCall DEF c

\* A call of the backend with one operand
LEMMA Eval1Doing ==
  ASSUME NEW s, NEW t, NEW ns, NEW x, t # x, NEW op, NEW y \in ns \cup {t}, NEW r \in {s, t}
  PROVE  /\ Doing(<<Eval(op, r, <<y>>)>>, s, t, ns, x)
         /\ y # x => AllLeave(<<Eval(op, r, <<y>>)>>, x)
         /\ r # x => NoneWrites(<<Eval(op, r, <<y>>)>>, x)
<1> DEFINE c == Eval(op, r, <<y>>)
<1>1. /\ Valid(c) /\ Careful(c, x) /\ Proper(c, s, t, ns)
      /\ (y # x => Leaves(c, x))
  BY BackendCalls DEF Proper, Leaves
<1>2. r # x => ~Writes(c, x)
  BY DEF Eval, Writes
<1> HIDE DEF c
<1> QED BY <1>1, <1>2, SingleCall DEF c

\* A product and a sum: the summand is copied first if it is the number that is written to.
LEMMA MultiplyAddDoing ==
  ASSUME NEW s, NEW t, NEW ns, NEW x, t # x, NEW op, NEW u \in ns, NEW v \in ns, NEW y \in ns
  PROVE  Doing(eval_multiply_add(op, s, u, v, y, t), s, t, ns, x)
<1> DEFINE a == <<Construct(t)>>
           b == <<Eval("copy", t, <<y>>)>>
           m == <<Eval("multiplies", s, <<u, v>>)>>
           p == <<Eval(op, s, <<s, t>>)>>
           q == <<Eval(op, s, <<s, y>>)>>
           d == <<Destroy(t)>>
<1>1. /\ Doing(a, s, t, ns, x) /\ NoneWrites(a, x)
      /\ Doing(d, s, t, ns, x) /\ AllLeave(d, x)
  BY ScopeCalls, SingleCall
<1>2. Doing(b, s, t, ns, x) /\ NoneWrites(b, x)
  BY Eval1Doing
<1>3. Doing(m, s, t, ns, x) /\ (s # x => NoneWrites(m, x))
  BY EvalDoing
<1>4. Doing(p, s, t, ns, x) /\ AllLeave(p, x)
  BY EvalDoing
<1>5. Doing(q, s, t, ns, x) /\ (y # x => AllLeave(q, x))
  BY EvalDoing
<1>6. CASE y = s
  <2>1. eval_multiply_add(op, s, u, v, y, t) = (((a \o b) \o m) \o p) \o d
    BY <1>6, ShortSequences, LongerSequences DEF eval_multiply_add
  <2> HIDE DEF a, b, m, p, d
  <2>2. Doing(a \o b, s, t, ns, x) /\ NoneWrites(a \o b, x)
    BY <1>1, <1>2, DoingJoin DEF Doing, Ordered
  <2>3. Doing((a \o b) \o m, s, t, ns, x)
    BY <1>3, <2>2, DoingJoin DEF Doing
  <2>4. Doing(((a \o b) \o m) \o p, s, t, ns, x)
    BY <1>4, <2>3, DoingJoin DEF Doing
  <2>5. Doing((((a \o b) \o m) \o p) \o d, s, t, ns, x)
    BY <1>1, <2>4, DoingJoin DEF Doing
  <2> QED BY <2>1, <2>5
<1>7. CASE y # s
  <2>1. eval_multiply_add(op, s, u, v, y, t) = m \o q
    BY <1>7, ShortSequences DEF eval_multiply_add
  <2>2. s # x \/ y # x
    BY <1>7
  <2> HIDE DEF m, q
  <2>3. Doing(m \o q, s, t, ns, x)
    BY <1>3, <1>5, <2>2, DoingJoin DEF Doing
  <2> QED BY <2>1, <2>3
<1> QED BY <1>6, <1>7

LEMMA MultiplyAddToDoing ==
  ASSUME NEW s, NEW t, NEW ns, NEW x, t # x, NEW op, NEW u \in ns, NEW v \in ns
  PROVE  Doing(eval_multiply_add_to(op, s, u, v, t), s, t, ns, x)
<1> DEFINE a == <<Construct(t)>>
           m == <<Eval("multiplies", t, <<u, v>>)>>
           p == <<Eval(op, s, <<s, t>>)>>
           d == <<Destroy(t)>>
<1>1. /\ Doing(a, s, t, ns, x) /\ NoneWrites(a, x)
      /\ Doing(d, s, t, ns, x) /\ AllLeave(d, x)
  BY ScopeCalls, SingleCall
<1>2. Doing(m, s, t, ns, x) /\ NoneWrites(m, x)
  <2>1. LET c == Eval("multiplies", t, <<u, v>>) IN
        Valid(c) /\ Careful(c, x) /\ Proper(c, s, t, ns) /\ ~Writes(c, x)
    BY BackendCalls DEF Proper, Writes
  <2> QED BY <2>1, SingleCall
<1>3. Doing(p, s, t, ns, x)
  BY EvalDoing
<1>4. eval_multiply_add_to(op, s, u, v, t) = ((a \o m) \o p) \o d
  BY ShortSequences, LongerSequences DEF eval_multiply_add_to
<1> HIDE DEF a, m, p, d
<1>5. Doing(a \o m, s, t, ns, x) /\ NoneWrites(a \o m, x)
  BY <1>1, <1>2, DoingJoin DEF Doing, Ordered
<1>6. Doing((a \o m) \o p, s, t, ns, x)
  BY <1>3, <1>5, DoingJoin DEF Doing
<1>7. Doing(((a \o m) \o p) \o d, s, t, ns, x)
  BY <1>1, <1>6, DoingJoin DEF Doing
<1> QED BY <1>4, <1>7

\* The operands of an expression
LEMMA OperandTrees ==
  ASSUME NEW e, Tree(e, FALSE)
  PROVE  /\ IsNumber(e) => value(e) \in e.numbers /\ e.numbers = {value(e)}
         /\ ~IsNumber(e) =>
              /\ e.tag \in Operators /\ Len(e.subs) = Arity(e.tag)
              /\ Tree(left(e), FALSE) /\ left(e).numbers \subseteq e.numbers
              /\ Tree(right(e), FALSE) /\ right(e).numbers \subseteq e.numbers
              /\ IsNumber(left(e)) => value(left(e)) \in e.numbers
              /\ e.tag \in OnNumbers => \A k \in 1..Arity(e.tag) :
                                         value(e.subs[k]) \in e.numbers
<1>1. ASSUME NEW d, Tree(d, FALSE), IsNumber(d)
      PROVE  value(d) \in d.numbers /\ d.numbers = {value(d)}
  <2>1. PICK y : d = terminal(y)
    BY <1>1, TreeParts DEF IsTerminal
  <2> QED BY <2>1, TerminalTree
<1>2. ASSUME ~IsNumber(e)
      PROVE  /\ e.tag \in Operators /\ Len(e.subs) = Arity(e.tag)
             /\ Tree(left(e), FALSE) /\ left(e).numbers \subseteq e.numbers
             /\ Tree(right(e), FALSE) /\ right(e).numbers \subseteq e.numbers
             /\ e.tag \in OnNumbers => \A k \in 1..Arity(e.tag) :
                                         value(e.subs[k]) \in e.numbers
  <2>1. Shape(e, FALSE) /\ Len(e.subs) \in 1..3
    BY <1>2, TreeParts
  <2>2. \A k \in 1..Len(e.subs) : Tree(e.subs[k], FALSE) /\ e.subs[k].numbers \subseteq e.numbers
    BY <1>2, TreeParts
  <2>3. 1 \in 1..Len(e.subs) /\ Len(e.subs) \in 1..Len(e.subs)
    BY <2>1
  <2>4. e.tag \in Operators /\ Len(e.subs) = Arity(e.tag)
    BY <2>1 DEF Shape
  <2>5. e.tag \in OnNumbers => \A k \in 1..Len(e.subs) : value(e.subs[k]) \in e.numbers
    BY <1>1, <2>1, <2>2 DEF Shape
  <2> QED BY <2>2, <2>3, <2>4, <2>5 DEF left, right
<1> QED BY <1>1, <1>2

----------------------------------------------------------------------------
(* What each function does with an expression e on behalf of s; x is the    *)
(* target, which s may be.                                                  *)

\* do_assign for plus, minus and multiplies, and for the bitwise operations
LEMMA SumDoing ==
  ASSUME NEW s, NEW t, NEW x, t # x, NEW e, Tree(e, FALSE), e.tag \in BinaryTags
  PROVE  /\ Doing(assign_sum(s, e, t), s, t, e.numbers, x)
         /\ (s = x => ~(contains_self(s, left(e)) /\ contains_self(s, right(e)))) =>
              Doing(assign_bitwise(s, e), s, t, e.numbers, x)
<1> DEFINE ns == e.numbers
           a == left(e)
           b == right(e)
           both == <<Call("assign", s, a), Call(e.tag, s, b)>>
           swapped == <<Call("assign", s, b), Call(e.tag, s, a)>>
           last == IF e.tag = "minus" THEN <<Negate(s)>> ELSE <<>>
<1>1. ~IsNumber(e)
  BY TagNames DEF IsNumber, Arithmetic, Bitwise
<1>2. /\ Tree(a, FALSE) /\ Tree(b, FALSE) /\ a.numbers \subseteq ns /\ b.numbers \subseteq ns
  BY <1>1, OperandTrees
<1>3. e.tag \in Assignable /\ "assign" \in Assignable
  BY DEF Assignable
<1>4. \A f : /\ s # x \/ x \notin a.numbers => Careful(Call(f, s, a), x)
             /\ s # x \/ x \notin b.numbers => Careful(Call(f, s, b), x)
  BY CarefulCalls
<1>5. Careful(Call("assign", s, a), x) /\ Careful(Call("assign", s, b), x)
  BY CarefulCalls
<1> HIDE DEF ns, a, b
<1>6. /\ s # x \/ s \notin b.numbers => Doing(<<Call(e.tag, s, b)>>, s, t, ns, x)
      /\ s # x \/ s \notin a.numbers => Doing(<<Call(e.tag, s, a)>>, s, t, ns, x)
  <2>1. s # x \/ s \notin b.numbers => Careful(Call(e.tag, s, b), x)
    BY <1>4
  <2>2. s # x \/ s \notin a.numbers => Careful(Call(e.tag, s, a), x)
    BY <1>4
  <2>3. s # x \/ s \notin b.numbers => Doing(<<Call(e.tag, s, b)>>, s, t, ns, x)
    BY <1>2, <1>3, <2>1, CallDoing
  <2>4. s # x \/ s \notin a.numbers => Doing(<<Call(e.tag, s, a)>>, s, t, ns, x)
    BY <1>2, <1>3, <2>2, CallDoing
  <2> QED BY <2>3, <2>4
<1>7. s # x \/ s \notin b.numbers => Doing(both, s, t, ns, x)
  BY <1>2, <1>3, <1>5, TwoCallsDoing
<1>8. s # x \/ s \notin a.numbers => Doing(swapped, s, t, ns, x)
  BY <1>2, <1>3, <1>5, TwoCallsDoing
<1>9. \A l : Doing(l, s, t, ns, x) => Doing(l \o last, s, t, ns, x)
  <2>1. ASSUME NEW l, Doing(l, s, t, ns, x) PROVE l \o <<>> = l
    BY <2>1, ConcatEmptySeq DEF Doing, Ordered, Sequence
  <2> QED BY <2>1, NegateDoing
<1>10. Doing(Temp(t, e, <<Swap(s, t)>>), s, t, ns, x)
  <2>1. Valid(Swap(s, t)) /\ Careful(Swap(s, t), x) /\ Proper(Swap(s, t), s, t, ns)
    BY DEF Swap, Valid, Careful, Proper
  <2>2. Doing(<<Swap(s, t)>>, s, t, ns, x)
    BY <2>1, SingleCall
  <2> QED BY <2>2, TempDoing DEF ns
<1> HIDE DEF last, both, swapped
<1>11. Doing(assign_sum(s, e, t), s, t, ns, x)
  <2>1. \/ s \in a.numbers /\ s \in b.numbers /\ assign_sum(s, e, t) = Temp(t, e, <<Swap(s, t)>>)
        \/ s \notin b.numbers /\ assign_sum(s, e, t) = <<Call(e.tag, s, b)>>
        \/ s \notin a.numbers /\ assign_sum(s, e, t) = <<Call(e.tag, s, a)>> \o last
        \/ s \notin b.numbers /\ assign_sum(s, e, t) = both
        \/ s \notin a.numbers /\ assign_sum(s, e, t) = swapped \o last
    BY DEF assign_sum, is_self, contains_self, a, b, both, swapped, last
  <2> QED BY <1>6, <1>7, <1>8, <1>9, <1>10, <2>1
<1>12. ASSUME s = x => ~(contains_self(s, left(e)) /\ contains_self(s, right(e)))
       PROVE  Doing(assign_bitwise(s, e), s, t, ns, x)
  <2>1. \/ s \in a.numbers /\ assign_bitwise(s, e) = <<Call(e.tag, s, b)>>
        \/ s \in b.numbers /\ assign_bitwise(s, e) = <<Call(e.tag, s, a)>>
        \/ s \notin b.numbers /\ assign_bitwise(s, e) = both
        \/ s \notin a.numbers /\ assign_bitwise(s, e) = swapped
        \/ s \in a.numbers /\ s \in b.numbers /\ assign_bitwise(s, e) = swapped
    BY DEF assign_bitwise, is_self, contains_self, a, b, both, swapped
  <2>2. s = x => ~(s \in a.numbers /\ s \in b.numbers)
    BY <1>12 DEF contains_self, a, b
  <2> QED BY <1>6, <1>7, <1>8, <2>1, <2>2
<1> QED BY <1>11, <1>12 DEF ns

\* do_assign for divides and modulus
LEMMA QuotientDoing ==
  ASSUME NEW s, NEW t, NEW x, t # x, NEW e, Tree(e, FALSE), e.tag \in {"divides", "modulus"},
         s = x => ~Overlooked(s, e)
  PROVE  Doing(assign_quotient(s, e, t), s, t, e.numbers, x)
<1> DEFINE ns == e.numbers
           a == left(e)
           b == right(e)
           both == <<Call("assign", s, a), Call(e.tag, s, b)>>
<1>1. ~IsNumber(e) /\ e.tag \in Assignable /\ "assign" \in Assignable
  BY TagNames DEF IsNumber, Assignable, Arithmetic
<1>2. /\ Tree(a, FALSE) /\ Tree(b, FALSE) /\ a.numbers \subseteq ns /\ b.numbers \subseteq ns
  BY <1>1, OperandTrees
<1>3. is_self(s, a) => Doing(<<Call(e.tag, s, b)>>, s, t, ns, x)
  <2>1. is_self(s, a) =>
          s # x \/ x \notin b.numbers \/ e.tag = "modulus" \/ (e.tag = "divides" /\ kind.integer)
    BY DEF Overlooked, is_self, contains_self
  <2>2. is_self(s, a) => Careful(Call(e.tag, s, b), x)
    BY <2>1, CarefulCalls
  <2> HIDE DEF ns, a, b
  <2> QED BY <1>1, <1>2, <2>2, CallDoing
<1>4. s \notin b.numbers => Doing(both, s, t, ns, x)
  <2>1. Careful(Call("assign", s, a), x)
    BY CarefulCalls
  <2> HIDE DEF ns, a, b
  <2> QED BY <1>1, <1>2, <2>1, TwoCallsDoing
<1>5. Doing(Temp(t, e, <<Swap(s, t)>>), s, t, ns, x)
  <2>1. Valid(Swap(s, t)) /\ Careful(Swap(s, t), x) /\ Proper(Swap(s, t), s, t, ns)
    BY DEF Swap, Valid, Careful, Proper
  <2>2. Doing(<<Swap(s, t)>>, s, t, ns, x)
    BY <2>1, SingleCall
  <2> QED BY <2>2, TempDoing
<1>6. \/ is_self(s, a) /\ assign_quotient(s, e, t) = <<Call(e.tag, s, b)>>
      \/ assign_quotient(s, e, t) = Temp(t, e, <<Swap(s, t)>>)
      \/ s \notin b.numbers /\ assign_quotient(s, e, t) = both
  BY DEF assign_quotient, contains_self
<1> HIDE DEF ns, a, b, both
<1>7. Doing(assign_quotient(s, e, t), s, t, ns, x)
  BY <1>3, <1>4, <1>5, <1>6
<1> QED BY <1>7 DEF ns

\* do_assign
LEMMA AssignDoing ==
  ASSUME NEW s, NEW t, NEW x, t # x, NEW e, Tree(e, FALSE), s = x => ~Overlooked(s, e)
  PROVE  Doing(do_assign(s, e, t), s, t, e.numbers, x)
<1> DEFINE ns == e.numbers
           v(k) == value(e.subs[k])
<1>0. IsImmediates(e) <=> e.tag \in ImmediateTags
  BY TagNames
<1>1. CASE IsNumber(e)
  <2>1. do_assign(s, e, t) = IF is_self(s, e) THEN <<>> ELSE <<Eval("copy", s, <<value(e)>>)>>
    BY <1>0, <1>1 DEF do_assign, IsNumber, IsNegated, Bitwise,
        ImmediateTags
  <2>2. Doing(<<>>, s, t, ns, x)
    BY ShortSequences DEF Doing, Ordered
  <2>3. value(e) \in ns
    BY <1>1, OperandTrees
  <2>4. Doing(<<Eval("copy", s, <<value(e)>>)>>, s, t, ns, x)
    BY <2>3, Eval1Doing
  <2> QED BY <2>1, <2>2, <2>4
<1>2. CASE ~IsNumber(e)
  <2>1. /\ e.tag \in Operators /\ Len(e.subs) = Arity(e.tag)
        /\ Tree(left(e), FALSE) /\ left(e).numbers \subseteq ns
        /\ IsNumber(left(e)) => value(left(e)) \in ns
    BY <1>2, OperandTrees
  <2>2. e.tag \in OnNumbers => \A k \in 1..Arity(e.tag) : v(k) \in ns
    BY <1>2, OperandTrees
  <2>3. IsNumber(left(e)) => v(1) \in ns
    BY <2>1 DEF left
  <2>4. /\ ImmediateTags \cap Fused = {} /\ ImmediateTags \cap BinaryTags = {}
        /\ ImmediateTags \cap OneOperand = {} /\ Fused \cap BinaryTags = {}
        /\ BinaryTags \cap OneOperand = {}
    BY TagNames DEF ImmediateTags, Fused, OneOperand, UnaryTags, Arithmetic, Bitwise
  <2>5. CASE e.tag \in ImmediateTags
    <3>1. Arity(e.tag) = 2 /\ e.tag \in OnNumbers
      BY <2>4, <2>5 DEF Arity, OnNumbers
    <3>2. v(1) \in ns /\ v(2) \in ns
      BY <2>2, <3>1
    <3>3. Doing(<<Eval(OperationOf(e.tag), s, <<v(1), v(2)>>)>>, s, t, ns, x)
      BY <3>2, EvalDoing
    <3>4. do_assign(s, e, t) = <<Eval(OperationOf(e.tag), s, <<v(1), v(2)>>)>>
      BY <1>0, <2>5 DEF do_assign, IsNumber, IsNegated, Bitwise,
          ImmediateTags
    <3> QED BY <3>3, <3>4
  <2>6. CASE e.tag \in Fused
    <3>1. Arity(e.tag) = 3 /\ e.tag \in OnNumbers
      BY <2>4, <2>6 DEF Arity, OnNumbers, Fused, OneOperand, UnaryTags
    <3>2. v(1) \in ns /\ v(2) \in ns /\ v(3) \in ns
      BY <2>2, <3>1
    <3>3. \A op : Doing(eval_multiply_add(op, s, v(1), v(2), v(3), t), s, t, ns, x)
      BY <3>2, MultiplyAddDoing
    <3>4. e.tag \notin ImmediateTags
      BY <2>4, <2>6
    <3>5. \E op : do_assign(s, e, t) = eval_multiply_add(op, s, v(1), v(2), v(3), t)
      <4>1. e.tag = "multiply_add" \/ e.tag = "multiply_subtract"
        BY <2>6 DEF Fused
      <4> QED BY <1>0, <4>1 DEF do_assign, IsNumber, IsNegated, Bitwise,
            ImmediateTags
    <3> QED BY <3>3, <3>5
  <2>7. CASE e.tag \in OneOperand
    <3>1. /\ ~IsImmediates(e) /\ e.tag \notin {"multiply_add", "multiply_subtract"}
          /\ e.tag \notin {"plus", "minus", "multiplies", "divides", "modulus"} \cup Bitwise
      BY <2>4, <2>7, TagNames DEF Fused, Arithmetic, Bitwise, OneOperand, UnaryTags
    <3>2. CASE e.tag = "negate"
      <4>1. do_assign(s, e, t) = <<Call("assign", s, left(e)), Negate(s)>>
        BY <1>0, <3>2 DEF do_assign, IsNumber, IsNegated, Bitwise,
            ImmediateTags
      <4>2. Doing(<<Call("assign", s, left(e))>>, s, t, ns, x)
        BY <2>1, CallDoing, CarefulCalls DEF Assignable
      <4>3. Doing(<<Call("assign", s, left(e))>> \o <<Negate(s)>>, s, t, ns, x)
        BY <4>2, NegateDoing
      <4> QED BY <4>1, <4>3, ShortSequences
    <3>3. CASE e.tag = "complement_immediates"
      <4>1. do_assign(s, e, t) = <<Eval("bitwise_complement", s, <<v(1)>>)>>
        BY <1>0, <3>3 DEF do_assign, IsNumber, IsNegated, Bitwise,
            ImmediateTags
      <4>2. v(1) \in ns
        <5>1. e.tag \in OnNumbers /\ Arity(e.tag) = 1
          BY <3>3 DEF OnNumbers, Arity, OneOperand
        <5> QED BY <2>2, <5>1
      <4>3. Doing(<<Eval("bitwise_complement", s, <<v(1)>>)>>, s, t, ns, x)
        <5> HIDE DEF v
        <5> QED BY <4>2, Eval1Doing
      <4> QED BY <4>1, <4>3
    <3>4. CASE e.tag \in {"bitwise_complement", "shift_left", "function"}
      <4>1. do_assign(s, e, t) = IF IsNumber(left(e)) THEN <<Eval(e.tag, s, <<v(1)>>)>>
                                 ELSE Temp(t, left(e), <<Eval(e.tag, s, <<t>>)>>)
        BY <1>0, <3>4 DEF do_assign, IsNumber, IsNegated, Bitwise,
            ImmediateTags
      <4>2. IsNumber(left(e)) => Doing(<<Eval(e.tag, s, <<v(1)>>)>>, s, t, ns, x)
        <5> HIDE DEF v
        <5> QED BY <2>3, Eval1Doing
      <4>3. Doing(<<Eval(e.tag, s, <<t>>)>>, s, t, ns, x)
        BY Eval1Doing
      <4>4. Doing(Temp(t, left(e), <<Eval(e.tag, s, <<t>>)>>), s, t, ns, x)
        BY <2>1, <4>3, TempDoing
      <4> QED BY <4>1, <4>2, <4>4
    <3> QED BY <2>7, <3>2, <3>3, <3>4 DEF OneOperand, UnaryTags
  <2>8. CASE e.tag \in BinaryTags
    <3>1. /\ ~IsImmediates(e) /\ e.tag \notin {"multiply_add", "multiply_subtract"}
          /\ ~IsNegated(e)
      BY <2>4, <2>8, TagNames DEF Fused, IsNegated, OneOperand, UnaryTags
    <3>2. CASE e.tag \in {"plus", "minus", "multiplies"}
      <4>1. do_assign(s, e, t) = assign_sum(s, e, t)
        BY <1>0, <3>2 DEF do_assign, IsNumber, IsNegated, Bitwise,
            ImmediateTags
      <4> QED BY <2>8, <4>1, SumDoing
    <3>3. CASE e.tag \in {"divides", "modulus"}
      <4>1. do_assign(s, e, t) = assign_quotient(s, e, t)
        BY <1>0, <3>3 DEF do_assign, IsNumber, IsNegated, Bitwise,
            ImmediateTags
      <4> QED BY <3>3, <4>1, QuotientDoing
    <3>4. CASE e.tag \in Bitwise
      <4>1. do_assign(s, e, t) = assign_bitwise(s, e)
        BY <1>0, <3>4 DEF do_assign, IsNumber, IsNegated, Bitwise,
            ImmediateTags
      <4>2. s = x => ~(contains_self(s, left(e)) /\ contains_self(s, right(e)))
        BY <3>4 DEF Overlooked
      <4> QED BY <2>8, <4>1, <4>2, SumDoing
    <3> QED BY <2>8, <3>2, <3>3, <3>4, TagNames DEF Arithmetic
  <2> QED BY <2>1, <2>5, <2>6, <2>7, <2>8 DEF Operators
<1> QED BY <1>1, <1>2

\* The functions for the compound assignments
LEMMA ApplyDoing ==
  ASSUME NEW s, NEW t, NEW x, t # x, NEW e, Tree(e, FALSE), NEW f \in BinaryTags,
         Careful(Call(f, s, e), x)
  PROVE  Doing(Body(f, s, e, t), s, t, e.numbers, x)
<1> DEFINE ns == e.numbers
           l == Body(f, s, e, t)
           exact == s # x \/ x \notin ns
<1>1. f \in Assignable /\ \A g \in Arithmetic : g \in Assignable
  BY TagNames DEF Assignable
<1>2. /\ ~IsNumber(e) => /\ Tree(left(e), FALSE) /\ left(e).numbers \subseteq ns
                         /\ Tree(right(e), FALSE) /\ right(e).numbers \subseteq ns
      /\ IsNumber(e) => value(e) \in ns
  BY OperandTrees
<1>3. exact \/ IsNumber(e) \/ f = "modulus" \/ (f = "divides" /\ kind.integer)
  <2>1. f # "assign"
    BY TagNames DEF Arithmetic, Bitwise
  <2> QED BY <2>1, CarefulCalls
<1> HIDE DEF ns
<1>4. \A g : \A y \in ns \cup {t} : Doing(InPlace(g, s, y), s, t, ns, x)
  BY EvalDoing DEF InPlace
<1>5. \A g : Doing(Unknown(g, s, e, t), s, t, ns, x)
  <2> SUFFICES ASSUME NEW g PROVE Doing(Unknown(g, s, e, t), s, t, ns, x)
    OBVIOUS
  <2>1. Doing(<<Eval(g, s, <<s, t>>)>>, s, t, ns, x)
    BY EvalDoing
  <2>2. Doing(Temp(t, e, <<Eval(g, s, <<s, t>>)>>), s, t, ns, x)
    BY <2>1, TempDoing DEF ns
  <2> QED BY <2>2 DEF Unknown, InPlace
<1>6. ASSUME ~IsNumber(e), exact, NEW g \in Assignable, NEW h \in Assignable
      PROVE  Doing(Both(g, h, s, e), s, t, ns, x)
  <2>1. Careful(Call(g, s, left(e)), x)
    BY <1>2, <1>6, CarefulCalls
  <2>2. s # x \/ x \notin right(e).numbers
    BY <1>2, <1>6
  <2>3. Doing(<<Call(g, s, left(e)), Call(h, s, right(e))>>, s, t, ns, x)
    BY <1>2, <1>6, <2>1, <2>2, TwoCallsDoing
  <2> QED BY <2>3 DEF Both
<1>7. ASSUME ~IsNumber(e), NEW g \in Assignable, exact \/ (g = "divides" /\ kind.integer)
      PROVE  /\ Doing(<<Call(g, s, left(e))>>, s, t, ns, x)
             /\ Doing(<<Call(g, s, left(e)), Negate(s)>>, s, t, ns, x)
  <2>1. Careful(Call(g, s, left(e)), x)
    BY <1>2, <1>7, CarefulCalls
  <2>2. Doing(<<Call(g, s, left(e))>>, s, t, ns, x)
    BY <1>2, <1>7, <2>1, CallDoing
  <2>3. Doing(<<Call(g, s, left(e))>> \o <<Negate(s)>>, s, t, ns, x)
    BY <2>2, NegateDoing
  <2> QED BY <2>2, <2>3, ShortSequences
<1> DEFINE Known ==
      \/ IsNumber(e) /\ \E g : l = InPlace(g, s, value(e))
      \/ \E g : l = Unknown(g, s, e, t)
      \/ ~IsNumber(e) /\ exact /\ \E g, h \in Assignable : l = Both(g, h, s, e)
      \/ /\ ~IsNumber(e)
         /\ \E g \in Assignable :
              /\ exact \/ (g = "divides" /\ kind.integer)
              /\ l = <<Call(g, s, left(e))>> \/ l = <<Call(g, s, left(e)), Negate(s)>>
<1>8. Known => Doing(l, s, t, ns, x)
  BY <1>2, <1>4, <1>5, <1>6, <1>7
<1>9. CASE f = "plus"
  <2>1. l = do_add(s, e, t)
    BY <1>9 DEF Body, Bitwise
  <2>2. Known
    BY <1>1, <1>3, <1>9, <2>1 DEF do_add, IsNumber, IsNegated, Arithmetic
  <2> QED BY <1>8, <2>2 DEF ns
<1>10. CASE f = "minus"
  <2>1. l = do_subtract(s, e, t)
    BY <1>10 DEF Body, Bitwise
  <2>2. Known
    BY <1>1, <1>3, <1>10, <2>1 DEF do_subtract, IsNumber, IsNegated, Arithmetic
  <2> QED BY <1>8, <2>2 DEF ns
<1>11. CASE f = "multiplies"
  <2>1. l = do_multiplies(s, e, t)
    BY <1>11 DEF Body, Bitwise
  <2>2. Known
    BY <1>1, <1>3, <1>11, <2>1 DEF do_multiplies, IsNumber, IsNegated, Arithmetic
  <2> QED BY <1>8, <2>2 DEF ns
<1>12. CASE f = "divides"
  <2>1. l = do_divide(s, e, t)
    BY <1>12 DEF Body, Bitwise
  <2>2. Known
    BY <1>1, <1>3, <1>12, <2>1 DEF do_divide, IsNumber, IsNegated, Arithmetic
  <2> QED BY <1>8, <2>2 DEF ns
<1>13. CASE f = "modulus"
  <2>1. l = do_modulus(s, e, t)
    BY <1>13 DEF Body, Bitwise
  <2>2. Known
    BY <2>1 DEF do_modulus
  <2> QED BY <1>8, <2>2 DEF ns
<1>14. CASE f \in Bitwise
  <2>1. l = do_bitwise(f, s, e, t)
    BY <1>14 DEF Body, Bitwise
  <2>2. Known
    BY <1>1, <1>3, <1>14, <2>1 DEF do_bitwise, IsNumber, Bitwise
  <2> QED BY <1>8, <2>2 DEF ns
<1> QED BY <1>9, <1>10, <1>11, <1>12, <1>13, <1>14, TagNames DEF Arithmetic

\* Every call, replaced by the calls that it consists of
LEMMA BodyDoing ==
  ASSUME NEW s, NEW t, NEW x, t # x, NEW e, Tree(e, FALSE), NEW f \in Assignable,
         Careful(Call(f, s, e), x), f = "assign" /\ s = x => ~Overlooked(s, e)
  PROVE  Doing(Body(f, s, e, t), s, t, e.numbers, x)
<1>1. CASE f = "assign"
  <2>1. Body(f, s, e, t) = do_assign(s, e, t)
    BY <1>1 DEF Body, Bitwise
  <2> QED BY <1>1, <2>1, AssignDoing
<1>2. CASE f \in BinaryTags
  BY <1>2, ApplyDoing
<1> QED BY <1>1, <1>2 DEF Assignable

\* The statement
LEMMA OperatorDoing ==
  ASSUME NEW s, NEW t, t # s, NEW e, Tree(e, FALSE), NEW f \in Assignable
  PROVE  Doing(operator_assign(f, s, e, t), s, t, e.numbers, s)
<1> DEFINE ns == e.numbers
           l == operator_assign(f, s, e, t)
<1>1. /\ e.numbers \subseteq ns
      /\ f = "assign" \/ IsNumber(e) \/ ~contains_self(s, e) =>
           Doing(<<Call(f, s, e)>>, s, t, ns, s)
  <2>1. f = "assign" \/ IsNumber(e) \/ ~contains_self(s, e) => Careful(Call(f, s, e), s)
    BY CarefulCalls DEF contains_self
  <2> QED BY <2>1, CallDoing
<1>2. IsProduct(e) => Doing(eval_multiply_add_to(f, s, value(left(e)), value(right(e)), t),
                            s, t, ns, s)
  <2>1. SUFFICES ASSUME IsProduct(e)
                 PROVE  Doing(eval_multiply_add_to(f, s, value(left(e)), value(right(e)), t),
                              s, t, ns, s)
    OBVIOUS
  <2>2. ~IsNumber(e) /\ e.tag \in OnNumbers /\ Arity(e.tag) = 2
    BY <2>1 DEF IsProduct, IsNumber, OnNumbers, ImmediateTags, Arity, OneOperand, UnaryTags, Fused
  <2>3. Len(e.subs) = 2 /\ \A k \in 1..2 : value(e.subs[k]) \in ns
    BY <2>2, OperandTrees
  <2>4. value(left(e)) \in ns /\ value(right(e)) \in ns
    BY <2>3 DEF left, right
  <2> QED BY <2>4, MultiplyAddToDoing
<1>3. Doing(Temp(t, e, <<Call(f, s, terminal(t))>>), s, t, ns, s)
  <2>1. Tree(terminal(t), FALSE) /\ terminal(t).numbers = {t} /\ IsNumber(terminal(t))
    BY TerminalTree
  <2>2. Careful(Call(f, s, terminal(t)), s)
    BY <2>1, CarefulCalls
  <2>3. Doing(<<Call(f, s, terminal(t))>>, s, t, ns, s)
    BY <2>1, <2>2, CallDoing
  <2> QED BY <2>3, TempDoing
<1> QED BY <1>1, <1>2, <1>3 DEF operator_assign

----------------------------------------------------------------------------
(* The invariant.                                                           *)

\* A part of the expression is a tree, and a chain is one in which every operator has a
\* number for an operand.
Part(o) == o.chain \in BOOLEAN /\ Tree(o.expr, FALSE) /\ (o.chain => Tree(o.expr, TRUE))

Parts == Sequence(operands) /\ \A k \in 1..Len(operands) : Part(operands[k])

NothingDone ==
  status = "writing" => live = {} /\ written = {} /\ ~exposed /\ made = 0 /\ calls = <<>>

\* No call that is still to be done reads the target after another one has written to it,
\* or if it has been written to.
CallsOrdered ==
  ~exposed => Ordered(calls, target) /\ (target \in written => AllLeave(calls, target))

Inv == kind \in Kinds /\ target \in Number /\ Parts /\ NothingDone /\ CallsOrdered

\* The operands that are left and a new one
LEMMA PartsAppend ==
  ASSUME NEW l, Sequence(l), \A k \in 1..Len(l) : Part(l[k]), NEW o, Part(o),
         NEW n \in Nat, n <= Len(l)
  PROVE  /\ Sequence(Append(SubSeq(l, 1, n), o))
         /\ \A k \in 1..Len(Append(SubSeq(l, 1, n), o)) : Part(Append(SubSeq(l, 1, n), o)[k])
<1>1. PICK S : l \in Seq(S)
  BY DEF Sequence
<1> DEFINE T == {p \in S \cup {o} : Part(p)}
           m == SubSeq(l, 1, n)
<1>2. /\ m \in Seq(S) /\ Len(m) = n /\ \A k \in 1..n : m[k] = l[k]
  BY <1>1
<1>3. \A k \in 1..n : m[k] \in T
  BY <1>1, <1>2
<1>4. o \in T
  OBVIOUS
<1>5. \A p \in T : Part(p)
  OBVIOUS
<1> HIDE DEF T, m
<1>6. m \in Seq(T)
  BY <1>2, <1>3
<1>7. Append(m, o) \in Seq(T)
  BY <1>4, <1>6
<1>8. \A k \in 1..Len(Append(m, o)) : Append(m, o)[k] \in T
  BY <1>7
<1> QED BY <1>5, <1>7, <1>8 DEF Sequence, m

LEMMA AppendAtEnd ==
  ASSUME NEW l, Sequence(l), \A k \in 1..Len(l) : Part(l[k]), NEW o, Part(o)
  PROVE  Sequence(Append(l, o)) /\ \A k \in 1..Len(Append(l, o)) : Part(Append(l, o)[k])
<1> DEFINE n == Len(l)
           m == SubSeq(l, 1, n)
<1>1. n \in Nat /\ n <= Len(l) /\ m = l
  BY DEF Sequence
<1> HIDE DEF n
<1>2. Sequence(Append(m, o)) /\ \A k \in 1..Len(Append(m, o)) : Part(Append(m, o)[k])
  BY <1>1, PartsAppend
<1> HIDE DEF m
<1> QED BY <1>1, <1>2

\* What the operators make of such parts
LEMMA PartsCombined ==
  ASSUME NEW op \in BinaryTags, NEW a, NEW b, NEW means, Part(a), Part(b)
  PROVE  Part(Operand(operator2(op, a.expr, b.expr), means,
                \/ a.chain /\ IsNumber(b.expr)
                \/ b.chain /\ IsNumber(a.expr) /\ op \notin {"divides", "modulus"}))
<1> DEFINE e == operator2(op, a.expr, b.expr)
           chain == \/ a.chain /\ IsNumber(b.expr)
                    \/ b.chain /\ IsNumber(a.expr) /\ op \notin {"divides", "modulus"}
<1>1. Tree(e, FALSE)
  BY BinaryOperatorTree DEF Part
<1>2. chain => Tree(a.expr, TRUE) /\ Tree(b.expr, TRUE) /\ Links(op, a.expr, b.expr)
  BY TreeKinds DEF Part, Links
<1>3. chain => Tree(e, TRUE)
  BY <1>2, BinaryOperatorTree
<1>4. chain \in BOOLEAN
  BY DEF Part
<1> HIDE DEF e, chain
<1> QED BY <1>1, <1>3, <1>4 DEF Part, Operand, e, chain

LEMMA PartModified ==
  ASSUME NEW op \in UnaryTags, NEW a, NEW means, Part(a)
  PROVE  Part(Operand(operator1(op, a.expr), means, a.chain /\ op = "negate"))
<1> DEFINE e == operator1(op, a.expr)
           chain == a.chain /\ op = "negate"
<1>1. Tree(e, FALSE)
  BY UnaryOperatorTree DEF Part
<1>2. chain => Tree(e, TRUE)
  BY UnaryOperatorTree DEF Part
<1>3. chain \in BOOLEAN
  BY DEF Part
<1> HIDE DEF e, chain
<1> QED BY <1>1, <1>2, <1>3 DEF Part, Operand, e, chain

\* Writing an operator
LEMMA PartsNext ==
  ASSUME Parts, [Next]_<<vars, history>>
  PROVE  Parts'
<1>1. ASSUME NEW x \in Number, Name(x)
      PROVE  Parts'
  <2>1. Part(Operand(terminal(x), val[x], TRUE))
    BY TerminalTree DEF Part, Operand
  <2> QED BY <1>1, <2>1, AppendAtEnd DEF Name, Parts
<1>2. ASSUME NEW op \in BinaryTags, Combine(op)
      PROVE  Parts'
  <2> DEFINE n == Len(operands)
             a == operands[n - 1]
             b == Last(operands)
             o == Operand(operator2(op, a.expr, b.expr), Evaluate2(op, a.means, b.means),
                    \/ a.chain /\ IsNumber(b.expr)
                    \/ b.chain /\ IsNumber(a.expr) /\ op \notin {"divides", "modulus"})
  <2>1. n \in Nat /\ n >= 2
    BY <1>2 DEF Parts, Sequence, Combine
  <2>2. Part(a) /\ Part(b)
    BY <2>1 DEF Parts, Last
  <2>3. Part(o)
    BY <2>2, PartsCombined
  <2>4. operands' = Append(SubSeq(operands, 1, n - 2), o)
    BY <1>2 DEF Combine
  <2> HIDE DEF o
  <2> QED BY <2>1, <2>3, <2>4, PartsAppend DEF Parts
<1>3. ASSUME NEW op \in UnaryTags, Modify(op)
      PROVE  Parts'
  <2> DEFINE n == Len(operands)
             a == Last(operands)
             o == Operand(operator1(op, a.expr), Evaluate1(op, a.means),
                          a.chain /\ op = "negate")
  <2>1. n \in Nat /\ n >= 1
    BY <1>3 DEF Parts, Sequence, Modify
  <2>2. Part(a)
    BY <2>1 DEF Parts, Last
  <2>3. Part(o)
    BY <2>2, PartModified
  <2>4. operands' = Append(SubSeq(operands, 1, n - 1), o)
    BY <1>3 DEF Modify, Front
  <2> HIDE DEF o
  <2> QED BY <2>1, <2>3, <2>4, PartsAppend DEF Parts
<1>4. ASSUME NEW f, Assign(f)
      PROVE  Parts'
  BY <1>4 DEF Assign, Parts
<1>5. CASE Step
  BY <1>5 DEF Step, Parts
<1>6. CASE Finished
  BY <1>6 DEF Finished, vars, Parts
<1>7. CASE UNCHANGED <<vars, history>>
  BY <1>7 DEF vars, Parts
<1> QED BY <1>1, <1>2, <1>3, <1>4, <1>5, <1>6, <1>7 DEF Next

\* The first call and the others
LEMMA OrderedTail ==
  ASSUME NEW l, NEW x, Ordered(l, x), l # <<>>
  PROVE  /\ Valid(Head(l)) /\ Careful(Head(l), x) /\ Ordered(Tail(l), x)
         /\ Writes(Head(l), x) => AllLeave(Tail(l), x)
         /\ AllLeave(l, x) => Leaves(Head(l), x) /\ AllLeave(Tail(l), x)
<1> DEFINE d == Tail(l)
<1>1. /\ Sequence(d) /\ Head(l) = l[1] /\ Len(l) \in Nat \ {0}
      /\ Len(d) = Len(l) - 1 /\ \A k \in 1..Len(d) : d[k] = l[k + 1]
  BY TailOf DEF Ordered
<1> HIDE DEF d
<1>2. 1 \in 1..Len(l) /\ \A k \in 1..Len(d) : k + 1 \in 1..Len(l) /\ 1 < k + 1
  BY <1>1
<1>3. Valid(Head(l)) /\ Careful(Head(l), x)
  BY <1>1, <1>2 DEF Ordered
<1>4. \A k \in 1..Len(d) : Valid(d[k]) /\ Careful(d[k], x)
  BY <1>1, <1>2 DEF Ordered
<1>5. ASSUME NEW j \in 1..Len(d), NEW k \in 1..Len(d), j < k, Writes(d[j], x)
      PROVE  Leaves(d[k], x)
  <2>1. j + 1 < k + 1 /\ j + 1 \in 1..Len(l) /\ k + 1 \in 1..Len(l)
    BY <1>1, <1>2, <1>5
  <2>2. d[j] = l[j + 1] /\ d[k] = l[k + 1]
    BY <1>1
  <2> QED BY <1>5, <2>1, <2>2 DEF Ordered
<1>6. Ordered(d, x)
  BY <1>1, <1>4, <1>5 DEF Ordered
<1>7. Writes(Head(l), x) => AllLeave(d, x)
  BY <1>1, <1>2 DEF Ordered, AllLeave
<1>8. AllLeave(l, x) => Leaves(Head(l), x) /\ AllLeave(d, x)
  BY <1>1, <1>2 DEF AllLeave
<1> QED BY <1>3, <1>6, <1>7, <1>8 DEF d

\* A call, replaced
LEMMA OrderedEnter ==
  ASSUME NEW l, NEW x, Ordered(l, x), l # <<>>, NEW t, t # x, Head(l).run = "call",
         Head(l).op = "assign" => ~Overlooked(Head(l).on, Head(l).of)
  PROVE  LET c == Head(l)
             m == Body(c.op, c.on, c.of, t) \o Tail(l)
         IN  Ordered(m, x) /\ (AllLeave(l, x) => AllLeave(m, x))
<1> DEFINE c == Head(l)
           a == Body(c.op, c.on, c.of, t)
           b == Tail(l)
<1>1. /\ Valid(c) /\ Careful(c, x) /\ Ordered(b, x)
      /\ Writes(c, x) => AllLeave(b, x)
      /\ AllLeave(l, x) => Leaves(c, x) /\ AllLeave(b, x)
  BY OrderedTail
<1>2. c.op \in Assignable /\ Tree(c.of, FALSE)
  BY <1>1 DEF Valid
<1>3. Careful(Call(c.op, c.on, c.of), x)
  BY <1>1 DEF Careful, Call
<1>4. Doing(a, c.on, t, c.of.numbers, x)
  <2> DEFINE s == c.on
             e == c.of
             f == c.op
  <2>1. /\ f \in Assignable /\ Tree(e, FALSE) /\ Careful(Call(f, s, e), x)
        /\ f = "assign" => ~Overlooked(s, e)
    BY <1>2, <1>3
  <2> HIDE DEF s, e, f
  <2>2. Doing(Body(f, s, e, t), s, t, e.numbers, x)
    BY <2>1, BodyDoing
  <2> QED BY <2>2 DEF s, e, f
<1>5. c.on # x => NoneWrites(a, x)
  BY <1>4 DEF Doing, Proper, NoneWrites, Writes
<1>6. c.on = x => AllLeave(b, x)
  BY <1>1 DEF Writes
<1>7. AllLeave(l, x) => AllLeave(a, x)
  <2>1. AllLeave(l, x) => x \notin c.of.numbers
    BY <1>1 DEF Leaves, contains_self
  <2> QED BY <1>4, <2>1, ProperLeaves DEF Doing
<1> HIDE DEF a, b, c
<1>8. Ordered(a \o b, x)
  BY <1>1, <1>4, <1>5, <1>6, DoingJoin DEF Doing
<1>9. AllLeave(l, x) => AllLeave(a \o b, x)
  BY <1>1, <1>4, <1>7, DoingJoin DEF Doing, Ordered
<1> QED BY <1>8, <1>9 DEF a, b, c

\* A fresh temporary is not a number of the program.
LEMMA FreshTemporary ==
  ASSUME Temporary \ live # {}, target \in Number
  PROVE  Fresh # target
<1>1. Fresh \in Temporary
  BY DEF Fresh
<1> QED BY <1>1, KindsAssumption

\* The calls that are left are ordered in the next state, too.
LEMMA OrderedNext ==
  ASSUME kind' = kind, target' = target,
         Ordered(calls', target), target \in written' => AllLeave(calls', target)
  PROVE  CallsOrdered'
<1>1. \A k \in 1..Len(calls') : Careful(calls'[k], target)
  BY DEF Ordered
<1>2. \A k \in 1..Len(calls') : Careful(calls[k], target)'
  BY <1>1 DEF Careful
<1> QED BY <1>2 DEF CallsOrdered, Ordered

LEMMA InvInit ==
  ASSUME Init
  PROVE  Inv
<1>1. kind \in Kinds /\ target \in Number
  BY DEF Init
<1>2. Parts
  BY ShortSequences DEF Init, Parts
<1>3. NothingDone
  BY DEF Init, NothingDone
<1>4. CallsOrdered
  BY ShortSequences DEF Init, CallsOrdered, Ordered
<1> QED BY <1>1, <1>2, <1>3, <1>4 DEF Inv

\* The assignment begins.
LEMMA CallsBegin ==
  ASSUME Inv, NEW f \in Assignable, Assign(f)
  PROVE  CallsOrdered'
<1> DEFINE e == operands[1].expr
           l == operator_assign(f, target, e, Fresh)
<1>1. live = {} /\ written = {} /\ target \in Number
  BY DEF Inv, NothingDone, Assign
<1>2. Tree(e, FALSE)
  <2>1. Len(operands) = 1
    BY DEF Assign
  <2>2. Part(operands[1])
    BY <2>1 DEF Inv, Parts
  <2> QED BY <2>2 DEF Part
<1>3. Temporary \ live # {}
  BY <1>1, KindsAssumption DEF Temporary
<1>4. Fresh # target
  BY <1>1, <1>3, FreshTemporary
<1>5. Ordered(l, target)
  <2> DEFINE t == Fresh
  <2>1. t # target
    BY <1>4
  <2> HIDE DEF t, e
  <2>2. Doing(operator_assign(f, target, e, t), target, t, e.numbers, target)
    BY <1>2, <2>1, OperatorDoing
  <2> QED BY <2>2 DEF Doing, t
<1>6. kind' = kind /\ target' = target /\ written' = {} /\ calls' = l
  BY <1>1 DEF Assign, history
<1> HIDE DEF l
<1> QED BY <1>5, <1>6, OrderedNext

\* It goes on.
LEMMA CallsGoOn ==
  ASSUME Inv, Step
  PROVE  CallsOrdered'
<1> DEFINE c == Head(calls)
           rest == Tail(calls)
<1>1. kind' = kind /\ target' = target
  BY DEF Step
<1>2. CASE exposed'
  BY <1>2 DEF CallsOrdered
<1>3. CASE ~exposed' /\ calls = <<>>
  <2>1. calls' = calls /\ written' = written /\ exposed' = exposed
    BY <1>3, ShortSequences DEF Step, Enter, Compute, Throw, BeginScope, EndScope, Exchange, history
  <2> QED BY <1>1, <1>3, <2>1, OrderedNext DEF Inv, CallsOrdered
<1>4. CASE ~exposed' /\ calls # <<>>
  <2>1. ~exposed
    BY <1>4 DEF Step, Enter, Compute, Throw, BeginScope, EndScope, Exchange, history
  <2>2. /\ Ordered(calls, target) /\ (target \in written => AllLeave(calls, target))
    BY <2>1 DEF Inv, CallsOrdered
  <2>3. /\ Ordered(rest, target) /\ (Writes(c, target) => AllLeave(rest, target))
        /\ (target \in written => AllLeave(rest, target))
    BY <1>4, <2>2, OrderedTail
  <2> HIDE DEF c, rest
  <2>4. CASE Enter
    <3>1. /\ c.run = "call" /\ Temporary \ live # {} /\ written' = written
          /\ calls' = Body(c.op, c.on, c.of, Fresh) \o rest
          /\ c.op = "assign" => ~Overlooked(c.on, c.of)
      BY <1>4, <2>4 DEF Enter, c, rest
    <3>2. Fresh # target
      BY <3>1, FreshTemporary DEF Inv
    <3>3. Ordered(calls', target) /\ (AllLeave(calls, target) => AllLeave(calls', target))
      BY <1>4, <2>2, <3>1, <3>2, OrderedEnter DEF c, rest
    <3> QED BY <1>1, <2>2, <3>1, <3>3, OrderedNext
  <2>5. CASE Compute
    <3>1. calls' = rest /\ c.run = "eval" /\ written' = written \cup {c.on}
      BY <2>5 DEF Compute, c, rest
    <3> QED BY <1>1, <2>3, <3>1, OrderedNext DEF Writes
  <2>6. CASE Throw
    <3>1. calls' = <<>>
      BY <2>6 DEF Throw
    <3>2. Ordered(calls', target) /\ AllLeave(calls', target)
      BY <3>1, ShortSequences DEF Ordered, AllLeave
    <3> QED BY <1>1, <3>2, OrderedNext
  <2>7. CASE BeginScope \/ EndScope
    <3>1. calls' = rest /\ written' = written
      BY <2>7 DEF BeginScope, EndScope, history, rest
    <3> QED BY <1>1, <2>3, <3>1, OrderedNext
  <2>8. CASE Exchange
    <3>1. calls' = rest /\ c.run = "swap" /\ written' = written \cup {c.on}
      BY <2>8 DEF Exchange, c, rest
    <3> QED BY <1>1, <2>3, <3>1, OrderedNext DEF Writes
  <2> QED BY <1>4, <2>4, <2>5, <2>6, <2>7, <2>8 DEF Step
<1> QED BY <1>2, <1>3, <1>4

LEMMA InvNext ==
  ASSUME Inv, [Next]_<<vars, history>>
  PROVE  Inv'
<1>1. Parts'
  BY PartsNext DEF Inv
<1>2. kind' = kind /\ target' = target
  BY DEF Next, Name, Combine, Modify, Assign, Step, Finished, vars
<1>3. (kind \in Kinds /\ target \in Number)'
  BY <1>2 DEF Inv
<1>4. ASSUME UNCHANGED <<target, kind, status, live, written, exposed, made, calls>>
      PROVE  NothingDone' /\ CallsOrdered'
  <2>1. NothingDone'
    BY <1>4 DEF Inv, NothingDone
  <2>2. CallsOrdered'
    <3>1. CASE exposed
      BY <1>4, <3>1 DEF CallsOrdered
    <3>2. CASE ~exposed
      BY <1>4, <3>2, OrderedNext DEF Inv, CallsOrdered
    <3> QED BY <3>1, <3>2
  <2> QED BY <2>1, <2>2
<1>5. NothingDone' /\ CallsOrdered'
  <2>1. ASSUME NEW x \in Number, Name(x)
        PROVE  NothingDone' /\ CallsOrdered'
    BY <1>4, <2>1 DEF Name, history
  <2>2. ASSUME NEW op, Combine(op)
        PROVE  NothingDone' /\ CallsOrdered'
    BY <1>4, <2>2 DEF Combine, history
  <2>3. ASSUME NEW op, Modify(op)
        PROVE  NothingDone' /\ CallsOrdered'
    BY <1>4, <2>3 DEF Modify, history
  <2>4. ASSUME NEW f \in kind.assigns, Assign(f)
        PROVE  NothingDone' /\ CallsOrdered'
    <3>1. f \in Assignable
      BY <2>4, KindsAssumption DEF Inv
    <3>2. NothingDone'
      BY <2>4 DEF Assign, NothingDone
    <3> QED BY <2>4, <3>1, <3>2, CallsBegin
  <2>5. CASE Step
    <3>1. status' # "writing"
      BY <2>5 DEF Step, Enter, Compute, Throw, BeginScope, EndScope, Exchange
    <3>2. NothingDone'
      BY <3>1 DEF NothingDone
    <3> QED BY <2>5, <3>2, CallsGoOn
  <2>6. CASE Finished
    BY <1>4, <2>6 DEF Finished, vars, history
  <2>7. CASE UNCHANGED <<vars, history>>
    BY <1>4, <2>7 DEF vars, history
  <2> QED BY <2>1, <2>2, <2>3, <2>4, <2>5, <2>6, <2>7 DEF Next
<1> QED BY <1>1, <1>3, <1>5 DEF Inv

\* Once the target has been written to, nothing that is still to be done reads it for an
\* operand of the expression, unless one of the branches of Overlooked was taken.
THEOREM TargetIsNotReread == Spec => []TargetNotReread
<1>1. Init => Inv
  BY InvInit
<1>2. Inv /\ [Next]_<<vars, history>> => Inv'
  BY InvNext
<1>3. Inv => TargetNotReread
  <2> SUFFICES ASSUME Inv, target \in written, ~exposed, NEW k \in DOMAIN calls
               PROVE  LET c == calls[k] IN
                      /\ c.run = "call" => ~contains_self(target, c.of)
                      /\ c.run = "eval" =>
                           \A j \in DOMAIN c.of : c.of[j] = target => j = 1 /\ c.on = target
    BY DEF TargetNotReread
  <2>1. Sequence(calls) /\ AllLeave(calls, target)
    BY DEF Inv, CallsOrdered, Ordered
  <2>2. k \in 1..Len(calls)
    BY <2>1 DEF Sequence
  <2> QED BY <2>1, <2>2 DEF AllLeave, Leaves
<1> QED BY <1>1, <1>2, <1>3, PTL DEF Spec

----------------------------------------------------------------------------
(* Chains.                                                                  *)

\* A call that makes no temporary, and no such call, where x is the target, which a chain
\* does not mention: one of the backend, one that assigns a chain, one that applies a number
Flat(c, x) ==
  \/ c.run = "eval"
  \/ /\ c.run = "call" /\ Tree(c.of, TRUE)
     /\ \/ c.op = "assign" /\ c.on = x /\ x \notin c.of.numbers
        \/ c.op \in BinaryTags /\ IsNumber(c.of)

AllFlat(l, x) == Sequence(l) /\ \A k \in 1..Len(l) : Flat(l[k], x)

\* Sequences of flat calls
LEMMA FlatSequences ==
  ASSUME NEW x
  PROVE  /\ AllFlat(<<>>, x)
         /\ \A c : Flat(c, x) => AllFlat(<<c>>, x)
         /\ \A c, d : Flat(c, x) /\ Flat(d, x) => AllFlat(<<c, d>>, x)
         /\ \A a, b : AllFlat(a, x) /\ AllFlat(b, x) => AllFlat(a \o b, x)
<1>1. AllFlat(<<>>, x)
  BY ShortSequences DEF AllFlat
<1>2. ASSUME NEW c, Flat(c, x)
      PROVE  AllFlat(<<c>>, x)
  <2> DEFINE l == <<c>>
  <2>1. Sequence(l) /\ Len(l) = 1 /\ l[1] = c
    BY ShortSequences
  <2> HIDE DEF l
  <2>2. AllFlat(l, x)
    BY <1>2, <2>1 DEF AllFlat
  <2> QED BY <2>2 DEF l
<1>3. ASSUME NEW a, NEW b, AllFlat(a, x), AllFlat(b, x)
      PROVE  AllFlat(a \o b, x)
  <2> DEFINE l == a \o b
             n == Len(a)
             m == Len(b)
  <2>1. /\ Sequence(l) /\ n \in Nat /\ m \in Nat /\ Len(l) = n + m
        /\ \A k \in 1..n + m : l[k] = IF k <= n THEN a[k] ELSE b[k - n]
    BY <1>3, SequencesJoin DEF AllFlat
  <2> HIDE DEF l, n, m
  <2>2. \A k \in 1..Len(l) : \/ k \in 1..n /\ l[k] = a[k]
                             \/ k - n \in 1..m /\ l[k] = b[k - n]
    BY <2>1
  <2>3. AllFlat(l, x)
    BY <1>3, <2>1, <2>2 DEF AllFlat, n, m
  <2> QED BY <2>3 DEF l
<1>4. ASSUME NEW c, NEW d, Flat(c, x), Flat(d, x)
      PROVE  AllFlat(<<c, d>>, x)
  <2>1. AllFlat(<<c>> \o <<d>>, x)
    BY <1>2, <1>3, <1>4
  <2> QED BY <2>1, ShortSequences
<1> QED BY <1>1, <1>2, <1>3, <1>4

\* Calls of the backend are flat, and so are these of do_assign and its kin.
LEMMA FlatCalls ==
  ASSUME NEW x, NEW e, Tree(e, TRUE)
  PROVE  /\ \A op, s, l : Flat(Eval(op, s, l), x)
         /\ x \notin e.numbers => Flat(Call("assign", x, e), x)
         /\ IsNumber(e) => \A s : \A op \in BinaryTags : Flat(Call(op, s, e), x)
<1>1. \A op, s, l : Flat(Eval(op, s, l), x)
  BY DEF Eval, Flat
<1>2. \A op, s : /\ Call(op, s, e).run = "call" /\ Call(op, s, e).op = op
                 /\ Call(op, s, e).on = s /\ Call(op, s, e).of = e
  BY DEF Call
<1> QED BY <1>1, <1>2 DEF Flat

\* Assigning a chain
LEMMA AssignFlat ==
  ASSUME NEW x, NEW e, Tree(e, TRUE), x \notin e.numbers, NEW t
  PROVE  AllFlat(do_assign(x, e, t), x)
<1> DEFINE v(k) == value(e.subs[k])
           l == do_assign(x, e, t)
<1>1. IsImmediates(e) <=> e.tag \in ImmediateTags
  BY TagNames
<1>2. \A op, s, m : Flat(Eval(op, s, m), x)
  BY FlatCalls
<1>3. \A op, s, m : AllFlat(<<Eval(op, s, m)>>, x)
  <2> SUFFICES ASSUME NEW op, NEW s, NEW m PROVE AllFlat(<<Eval(op, s, m)>>, x)
    OBVIOUS
  <2>1. Flat(Eval(op, s, m), x)
    BY <1>2
  <2> QED BY <2>1, FlatSequences
<1>4. CASE IsNumber(e)
  <2>1. l = IF is_self(x, e) THEN <<>> ELSE <<Eval("copy", x, <<value(e)>>)>>
    BY <1>1, <1>4 DEF do_assign, IsNumber, IsNegated, Bitwise, ImmediateTags
  <2>2. AllFlat(<<>>, x)
    BY FlatSequences
  <2> QED BY <1>3, <2>1, <2>2
<1>5. CASE ~IsNumber(e)
  <2>1. /\ Tree(e, FALSE) /\ e.tag \in Operators /\ Len(e.subs) = Arity(e.tag)
        /\ left(e).numbers \subseteq e.numbers /\ right(e).numbers \subseteq e.numbers
        /\ e.tag \in OnNumbers => \A k \in 1..Arity(e.tag) : v(k) \in e.numbers
    BY <1>5, TreeKinds, OperandTrees
  <2>2. Linked(e)
    BY <1>5, TreeParts DEF Shape
  <2>3. Tree(left(e), TRUE) /\ Tree(right(e), TRUE)
    <3>1. Len(e.subs) \in 1..3 /\ \A k \in 1..Len(e.subs) : Tree(e.subs[k], TRUE)
      BY <1>5, TreeParts
    <3>2. 1 \in 1..Len(e.subs) /\ Len(e.subs) \in 1..Len(e.subs)
      BY <3>1
    <3> QED BY <3>1, <3>2 DEF left, right
  <2>4. x \notin left(e).numbers /\ x \notin right(e).numbers
    BY <2>1
  <2>5. /\ Flat(Call("assign", x, left(e)), x) /\ Flat(Call("assign", x, right(e)), x)
        /\ \A op \in BinaryTags : /\ IsNumber(left(e)) => Flat(Call(op, x, left(e)), x)
                                  /\ IsNumber(right(e)) => Flat(Call(op, x, right(e)), x)
    BY <2>3, <2>4, FlatCalls
  <2>6. /\ left(e).depth \in Nat /\ (IsNumber(left(e)) <=> left(e).depth = 0)
        /\ right(e).depth \in Nat /\ (IsNumber(right(e)) <=> right(e).depth = 0)
    BY <2>3, TreeDepth
  <2>7. CASE e.tag \in ImmediateTags
    <3>1. l = <<Eval(OperationOf(e.tag), x, <<v(1), v(2)>>)>>
      BY <1>1, <2>7 DEF do_assign, IsNumber, IsNegated, Bitwise, ImmediateTags
    <3> QED BY <1>3, <3>1
  <2>8. CASE e.tag \in Fused
    <3>1. \E op : l = eval_multiply_add(op, x, v(1), v(2), v(3), t)
      <4>1. e.tag = "multiply_add" \/ e.tag = "multiply_subtract"
        BY <2>8 DEF Fused
      <4> QED BY <1>1, <4>1 DEF do_assign, IsNumber, IsNegated, Bitwise, ImmediateTags
    <3>2. v(3) # x
      <4>1. e.tag \in OnNumbers /\ Arity(e.tag) = 3
        BY <2>8 DEF OnNumbers, Arity, Fused, OneOperand, UnaryTags
      <4> QED BY <2>1, <4>1
    <3>3. \E f, g, m, p : l = <<Eval(f, x, m), Eval(g, x, p)>>
      <4> HIDE DEF v, l
      <4> QED BY <3>1, <3>2 DEF eval_multiply_add
    <3> QED BY <1>2, <3>3, FlatSequences
  <2>9. CASE e.tag \in OneOperand
    <3>1. e.tag = "negate" \/ e.tag = "complement_immediates"
      BY <2>2, <2>9 DEF Linked, OneOperand
    <3>2. CASE e.tag = "negate"
      <4>1. l = <<Call("assign", x, left(e)), Negate(x)>>
        BY <1>1, <3>2 DEF do_assign, IsNumber, IsNegated, Bitwise, ImmediateTags
      <4>2. Flat(Negate(x), x)
        BY <1>2 DEF Negate
      <4> QED BY <2>5, <4>1, <4>2, FlatSequences
    <3>3. CASE e.tag = "complement_immediates"
      <4>1. l = <<Eval("bitwise_complement", x, <<v(1)>>)>>
        BY <1>1, <3>3 DEF do_assign, IsNumber, IsNegated, Bitwise, ImmediateTags
      <4> QED BY <1>3, <4>1
    <3> QED BY <3>1, <3>2, <3>3
  <2>10. CASE e.tag \in BinaryTags
    <3> DEFINE a == left(e)
               b == right(e)
               both == <<Call("assign", x, a), Call(e.tag, x, b)>>
               swapped == <<Call("assign", x, b), Call(e.tag, x, a)>>
               last == IF e.tag = "minus" THEN <<Negate(x)>> ELSE <<>>
    <3>1. IsNumber(b) \/ (IsNumber(a) /\ e.tag \notin {"divides", "modulus"})
      BY <2>2, <2>10 DEF Linked
    <3>2. ~contains_self(x, a) /\ ~contains_self(x, b) /\ ~is_self(x, a) /\ ~is_self(x, b)
      BY <2>4 DEF contains_self, is_self
    <3>3. /\ IsNumber(b) => AllFlat(both, x)
          /\ IsNumber(a) => AllFlat(swapped, x)
      BY <2>5, <2>10, FlatSequences
    <3>4. AllFlat(last, x)
      BY <1>2, FlatSequences DEF Negate
    <3>5. CASE e.tag \in {"plus", "minus", "multiplies"}
      <4>1. l = assign_sum(x, e, t)
        BY <1>1, <3>5 DEF do_assign, IsNumber, IsNegated, Bitwise, ImmediateTags
      <4>2. l = IF a.depth >= b.depth THEN both ELSE swapped \o last
        BY <3>2, <4>1 DEF assign_sum
      <4>3. a.depth >= b.depth \/ IsNumber(a)
        BY <2>6, <3>1
      <4>4. a.depth >= b.depth => IsNumber(b)
        BY <2>6, <3>1
      <4> HIDE DEF a, b, both, swapped, last, l
      <4>5. AllFlat(l, x)
        BY <3>3, <3>4, <4>2, <4>3, <4>4, FlatSequences
      <4> QED BY <4>5 DEF l
    <3>6. CASE e.tag \in {"divides", "modulus"}
      <4>1. l = assign_quotient(x, e, t)
        BY <1>1, <3>6 DEF do_assign, IsNumber, IsNegated, Bitwise, ImmediateTags
      <4>2. l = both
        BY <3>2, <4>1 DEF assign_quotient
      <4> QED BY <3>1, <3>3, <3>6, <4>2
    <3>7. CASE e.tag \in Bitwise
      <4>1. l = assign_bitwise(x, e)
        BY <1>1, <3>7 DEF do_assign, IsNumber, IsNegated, Bitwise, ImmediateTags
      <4>2. l = IF a.depth >= b.depth THEN both ELSE swapped
        BY <3>2, <4>1 DEF assign_bitwise
      <4>3. a.depth >= b.depth \/ IsNumber(a)
        BY <2>6, <3>1
      <4>4. a.depth >= b.depth => IsNumber(b)
        BY <2>6, <3>1
      <4> HIDE DEF a, b, both, swapped, last, l
      <4>5. AllFlat(l, x)
        BY <3>3, <4>2, <4>3, <4>4
      <4> QED BY <4>5 DEF l
    <3> QED BY <2>10, <3>5, <3>6, <3>7, TagNames DEF Arithmetic
  <2> QED BY <2>1, <2>7, <2>8, <2>9, <2>10 DEF Operators
<1> QED BY <1>4, <1>5

\* Applying a number
LEMMA ApplyFlat ==
  ASSUME NEW x, NEW s, NEW e, IsNumber(e), NEW f \in BinaryTags, NEW t
  PROVE  AllFlat(Body(f, s, e, t), x)
<1>1. e.tag = "terminal"
  BY DEF IsNumber
<1>2. \E op, r : Body(f, s, e, t) = <<Eval(op, s, <<s, r>>)>>
  BY <1>1, TagNames DEF Body, do_add, do_subtract, do_multiplies, do_divide, do_modulus,
     do_bitwise, InPlace, IsNumber, IsNegated, Arithmetic, Bitwise
<1>3. \A op, r, l : Flat(Eval(op, r, l), x)
  BY DEF Eval, Flat
<1>4. PICK op, r : Body(f, s, e, t) = <<Eval(op, s, <<s, r>>)>>
  BY <1>2
<1>5. Flat(Eval(op, s, <<s, r>>), x)
  BY <1>3
<1>6. AllFlat(<<Eval(op, s, <<s, r>>)>>, x)
  BY <1>5, FlatSequences
<1> QED BY <1>4, <1>6

\* A chain is assigned to a number that it does not mention.
ChainAssigned ==
  /\ status # "writing" /\ statement = "assign"
  /\ operands[1].chain /\ ~contains_self(target, operands[1].expr)

CallsFlat == ChainAssigned => made = 0 /\ AllFlat(calls, target)

\* The first call and the others
LEMMA FlatTail ==
  ASSUME NEW l, NEW x, AllFlat(l, x), l # <<>>
  PROVE  Flat(Head(l), x) /\ AllFlat(Tail(l), x)
<1> DEFINE d == Tail(l)
<1>1. /\ Sequence(d) /\ Head(l) = l[1] /\ Len(l) \in Nat \ {0}
      /\ Len(d) = Len(l) - 1 /\ \A k \in 1..Len(d) : d[k] = l[k + 1]
  BY TailOf DEF AllFlat
<1> HIDE DEF d
<1>2. 1 \in 1..Len(l) /\ \A k \in 1..Len(d) : k + 1 \in 1..Len(l)
  BY <1>1
<1> QED BY <1>1, <1>2 DEF AllFlat, d

\* A call, replaced
LEMMA FlatEnter ==
  ASSUME NEW c, NEW x, Flat(c, x), c.run = "call", NEW t
  PROVE  AllFlat(Body(c.op, c.on, c.of, t), x)
<1>1. CASE c.op = "assign" /\ c.on = x /\ x \notin c.of.numbers
  <2> DEFINE e == c.of
  <2>1. Tree(e, TRUE) /\ x \notin e.numbers
    BY <1>1 DEF Flat
  <2>2. Body(c.op, c.on, c.of, t) = do_assign(x, e, t)
    BY <1>1 DEF Body, Bitwise
  <2> HIDE DEF e
  <2>3. AllFlat(do_assign(x, e, t), x)
    BY <2>1, AssignFlat
  <2> QED BY <2>2, <2>3
<1>2. CASE c.op \in BinaryTags /\ IsNumber(c.of)
  BY <1>2, ApplyFlat
<1> QED BY <1>1, <1>2 DEF Flat

LEMMA FlatNext ==
  ASSUME Inv, CallsFlat, [Next]_<<vars, history>>
  PROVE  CallsFlat'
<1>1. ASSUME UNCHANGED <<status, statement, operands, target, made, calls>>
      PROVE  CallsFlat'
  BY <1>1 DEF CallsFlat, ChainAssigned
<1>2. ASSUME status' = "writing"
      PROVE  CallsFlat'
  BY <1>2 DEF CallsFlat, ChainAssigned
<1>3. ASSUME NEW x \in Number, Name(x)
      PROVE  CallsFlat'
  BY <1>2, <1>3 DEF Name
<1>4. ASSUME NEW op, Combine(op)
      PROVE  CallsFlat'
  BY <1>2, <1>4 DEF Combine
<1>5. ASSUME NEW op, Modify(op)
      PROVE  CallsFlat'
  BY <1>2, <1>5 DEF Modify
<1>6. ASSUME NEW f, Assign(f)
      PROVE  CallsFlat'
  <2> SUFFICES ASSUME ChainAssigned'
               PROVE  made' = 0 /\ AllFlat(calls', target')
    BY DEF CallsFlat
  <2> DEFINE e == operands[1].expr
             c == Call("assign", target, e)
  <2>1. /\ made' = 0 /\ target' = target /\ operands' = operands /\ f = "assign"
        /\ calls' = operator_assign(f, target, e, Fresh)
    BY <1>6 DEF Assign, Inv, NothingDone, ChainAssigned, history
  <2>2. operands[1].chain /\ target \notin e.numbers
    BY <2>1 DEF ChainAssigned, contains_self
  <2>3. Len(operands) = 1
    BY <1>6 DEF Assign
  <2>4. Part(operands[1])
    BY <2>3 DEF Inv, Parts
  <2>5. Tree(e, TRUE)
    BY <2>2, <2>4 DEF Part
  <2>6. calls' = <<c>>
    BY <2>1 DEF operator_assign
  <2> HIDE DEF e
  <2>7. Flat(c, target)
    BY <2>2, <2>5, FlatCalls
  <2>8. AllFlat(<<c>>, target)
    BY <2>7, FlatSequences
  <2> QED BY <2>1, <2>6, <2>8
<1>7. CASE Step
  <2> SUFFICES ASSUME ChainAssigned'
               PROVE  made' = 0 /\ AllFlat(calls', target')
    BY DEF CallsFlat
  <2>1. ChainAssigned /\ target' = target
    BY <1>7 DEF Step, ChainAssigned
  <2>2. made = 0 /\ AllFlat(calls, target)
    BY <2>1 DEF CallsFlat
  <2>3. CASE calls = <<>>
    <3>1. calls' = calls /\ made' = made
      BY <1>7, <2>2, <2>3, ShortSequences DEF Step, history, Enter, Compute, Throw, BeginScope,
        EndScope, Exchange, AllFlat
    <3> QED BY <2>1, <2>2, <3>1
  <2>4. CASE calls # <<>>
    <3> DEFINE c == Head(calls)
    <3>1. Flat(c, target) /\ AllFlat(Tail(calls), target)
      BY <2>2, <2>4, FlatTail
    <3>2. c.run \in {"call", "eval"}
      BY <3>1 DEF Flat
    <3>3. CASE Enter
      <4>1. calls' = Body(c.op, c.on, c.of, Fresh) \o Tail(calls) /\ made' = made /\ c.run = "call"
        BY <3>3 DEF Enter
      <4> HIDE DEF c
      <4>2. AllFlat(Body(c.op, c.on, c.of, Fresh), target)
        BY <3>1, <4>1, FlatEnter
      <4>3. AllFlat(calls', target)
        BY <3>1, <4>1, <4>2, FlatSequences
      <4> QED BY <2>1, <2>2, <4>1, <4>3
    <3>4. CASE Compute
      <4>1. calls' = Tail(calls) /\ made' = made
        BY <3>4 DEF Compute
      <4> QED BY <2>1, <2>2, <3>1, <4>1
    <3>5. CASE Throw
      <4>1. calls' = <<>> /\ made' = made
        BY <3>5 DEF Throw, history
      <4> QED BY <2>1, <2>2, <4>1, FlatSequences
    <3>6. ~BeginScope /\ ~EndScope /\ ~Exchange
      BY <3>2 DEF BeginScope, EndScope, Exchange
    <3> QED BY <1>7, <2>4, <3>3, <3>4, <3>5, <3>6 DEF Step
  <2> QED BY <2>3, <2>4
<1>8. CASE Finished
  BY <1>1, <1>8 DEF Finished, vars, history
<1>9. CASE UNCHANGED <<vars, history>>
  BY <1>1, <1>9 DEF vars, history
<1> QED BY <1>3, <1>4, <1>5, <1>6, <1>7, <1>8, <1>9 DEF Next

\* No temporary is made when a chain of operators, each of which has a number for an operand,
\* is assigned to a number that it does not mention, whatever its length.
THEOREM ChainsNeedNoTemporaries == Spec => []NoTemporaries
<1>1. Init => Inv /\ CallsFlat
  <2>1. Init => CallsFlat
    BY DEF Init, CallsFlat, ChainAssigned
  <2> QED BY <2>1, InvInit
<1>2. Inv /\ CallsFlat /\ [Next]_<<vars, history>> => (Inv /\ CallsFlat)'
  BY InvNext, FlatNext
<1>3. Inv /\ CallsFlat => NoTemporaries
  BY DEF CallsFlat, ChainAssigned, NoTemporaries, Assigning
<1> QED BY <1>1, <1>2, <1>3, PTL DEF Spec
=============================================================================
