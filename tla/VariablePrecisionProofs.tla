----------------------- MODULE VariablePrecisionProofs ----------------------
(***************************************************************************)
(* The default precision, the temporaries of an assignment, and the        *)
(* precision of its result, for every set of numbers and precisions, every *)
(* expression and every depth.                                             *)
(*                                                                         *)
(* That the destructor of each temporary is still to run is a fact about   *)
(* what every function of number.hpp leaves to do (Orderly); that the      *)
(* guards restore the default is one about the chain of their precisions   *)
(* (Chained).  The third invariant, PInv, says which numbers the running   *)
(* assignments may still read (Sound), and that the calls they have left   *)
(* to do give their targets the precision of their guards (Exact).         *)
(***************************************************************************)
EXTENDS VariablePrecision, SequenceTheorems, FiniteSetTheorems, TLAPS

Sequence(s) == \E S : s \in Seq(S)

\* What the i-th of the running assignments writes to
Target(i) == IF i = 1 THEN Number ELSE {i - 1}

\* A call that it makes names no other number and no other temporary.
Item(c, i) ==
  \/ c.run \in {"call", "eval", "promote", "copy"} /\ c.on \in Target(i)
  \/ c.run \in {"move", "swap"} /\ c.on \in Target(i) /\ c.of = i
  \/ c.run \in {"construct", "destroy"} /\ c.on = i

Uses(c)     == c.run \in {"construct", "move", "swap"}
Destroys(s) == \E k \in 1..Len(s) : s[k].run = "destroy"

\* After each use of its temporary the temporary is destroyed.
Orderly(s, i) ==
  /\ Sequence(s)
  /\ \A k \in 1..Len(s) : Item(s[k], i)
  /\ \A k \in 1..Len(s) : Uses(s[k]) => \E j \in k+1..Len(s) : s[j].run = "destroy"

----------------------------------------------------------------------------
(* Sequences of calls. *)

\* Two sequences of calls are one.
LEMMA SequencesJoin ==
  ASSUME NEW a, NEW b, Sequence(a), Sequence(b)
  PROVE  /\ Sequence(a \o b) /\ Len(a) \in Nat /\ Len(b) \in Nat
         /\ Len(a \o b) = Len(a) + Len(b)
         /\ \A k \in 1..Len(a) + Len(b) :
              (a \o b)[k] = IF k <= Len(a) THEN a[k] ELSE b[k - Len(a)]
<1>1. PICK S : a \in Seq(S)
  BY DEF Sequence
<1>2. PICK T : b \in Seq(T)
  BY DEF Sequence
<1>3. a \in Seq(S \cup T) /\ b \in Seq(S \cup T)
  BY <1>1, <1>2, SeqMonotonic
<1>4. a \o b \in Seq(S \cup T)
  BY <1>3, ConcatProperties
<1> QED BY <1>3, <1>4, ConcatProperties, LenProperties DEF Sequence

\* What follows in order, in order
LEMMA OrderlyJoin ==
  ASSUME NEW a, NEW b, NEW i, Orderly(a, i), Orderly(b, i)
  PROVE  Orderly(a \o b, i) /\ (Destroys(a) \/ Destroys(b) => Destroys(a \o b))
<1> DEFINE n == Len(a)
           c == a \o b
<1>1. /\ Sequence(c) /\ n \in Nat /\ Len(b) \in Nat /\ Len(c) = n + Len(b)
      /\ \A k \in 1..n + Len(b) : c[k] = IF k <= n THEN a[k] ELSE b[k - n]
  BY SequencesJoin DEF Orderly
<1> HIDE DEF n, c
<1>2. \A k \in 1..n : k \in 1..Len(c) /\ c[k] = a[k]
  BY <1>1
<1>3. \A k \in 1..Len(b) : n + k \in 1..Len(c) /\ c[n + k] = b[k]
  <2>1. TAKE k \in 1..Len(b)
  <2>2. n + k \in 1..n + Len(b) /\ ~(n + k <= n) /\ (n + k) - n = k
    BY <1>1
  <2> QED BY <1>1, <2>2
<1>4. \A k \in 1..Len(c) : k \in 1..n \/ \E j \in 1..Len(b) : k = n + j
  <2>1. TAKE k \in 1..Len(c)
  <2>2. CASE k <= n
    BY <1>1, <2>2
  <2>3. CASE ~(k <= n)
    <3>1. k - n \in 1..Len(b) /\ k = n + (k - n)
      BY <1>1, <2>3
    <3> QED BY <3>1
  <2> QED BY <2>2, <2>3
<1>5. \A k \in 1..Len(c) : Item(c[k], i)
  BY <1>2, <1>3, <1>4 DEF Orderly, n
<1>6. ASSUME NEW k \in 1..Len(c), Uses(c[k])
      PROVE  \E j \in k+1..Len(c) : c[j].run = "destroy"
  <2>1. CASE k \in 1..n
    <3>1. PICK j \in k+1..n : a[j].run = "destroy"
      BY <1>2, <1>6, <2>1 DEF Orderly, n
    <3>2. j \in k+1..Len(c) /\ c[j] = a[j]
      BY <1>1, <1>2, <2>1
    <3> QED BY <3>1, <3>2
  <2>2. ASSUME NEW l \in 1..Len(b), k = n + l
        PROVE  \E j \in k+1..Len(c) : c[j].run = "destroy"
    <3>1. PICK j \in l+1..Len(b) : b[j].run = "destroy"
      BY <1>3, <1>6, <2>2 DEF Orderly
    <3>2. j \in 1..Len(b) /\ n + j \in k+1..Len(c)
      BY <1>1, <2>2
    <3> QED BY <1>3, <3>1, <3>2
  <2> QED BY <1>4, <2>1, <2>2
<1>7. Destroys(a) \/ Destroys(b) => Destroys(c)
  BY <1>2, <1>3 DEF Destroys, n
<1> QED BY <1>1, <1>5, <1>6, <1>7 DEF Orderly, c

\* The first of the calls has been made.
LEMMA OrderlyTail ==
  ASSUME NEW s, NEW i, Orderly(s, i), s # <<>>
  PROVE  /\ Item(Head(s), i) /\ Orderly(Tail(s), i)
         /\ Uses(Head(s)) => Destroys(Tail(s))
         /\ Destroys(s) /\ Head(s).run # "destroy" => Destroys(Tail(s))
<1>1. PICK S : s \in Seq(S)
  BY DEF Orderly, Sequence
<1> DEFINE b == Tail(s)
<1>2. /\ Head(s) = s[1] /\ b \in Seq(S) /\ Len(s) \in Nat \ {0} /\ Len(b) = Len(s) - 1
      /\ \A k \in 1..Len(b) : b[k] = s[k + 1]
  BY <1>1, HeadTailProperties, EmptySeq
<1> HIDE DEF b
<1>3. \A k \in 2..Len(s) : k - 1 \in 1..Len(b) /\ b[k - 1] = s[k]
  BY <1>2
<1>4. \A k \in 1..Len(b) : Item(b[k], i)
  BY <1>2 DEF Orderly
<1>5. ASSUME NEW k \in 1..Len(b), Uses(b[k])
      PROVE  \E j \in k+1..Len(b) : b[j].run = "destroy"
  <2>1. k + 1 \in 1..Len(s) /\ b[k] = s[k + 1]
    BY <1>2
  <2>2. PICK j \in k+2..Len(s) : s[j].run = "destroy"
    BY <1>5, <2>1 DEF Orderly
  <2>3. j \in 2..Len(s) /\ j - 1 \in k+1..Len(b)
    BY <1>2, <2>2
  <2> QED BY <1>3, <2>2, <2>3
<1>6. Uses(Head(s)) => Destroys(b)
  BY <1>2, <1>3 DEF Orderly, Destroys
<1>7. Destroys(s) /\ Head(s).run # "destroy" => Destroys(b)
  BY <1>2, <1>3 DEF Destroys
<1> QED BY <1>2, <1>4, <1>5, <1>6, <1>7 DEF Orderly, Sequence, b

\* No call is in order.
LEMMA OrderlyNone == \A i : Orderly(<<>>, i) /\ ~Destroys(<<>>)
BY EmptySeq DEF Orderly, Sequence, Destroys

\* One call that is no use of the temporary
LEMMA OrderlyOne ==
  ASSUME NEW i, NEW c, Item(c, i), ~Uses(c)
  PROVE  Orderly(<<c>>, i) /\ (c.run = "destroy" => Destroys(<<c>>))
<1> DEFINE s == <<c>>
<1>1. s \in Seq({c}) /\ Len(s) = 1 /\ s[1] = c
  OBVIOUS
<1> HIDE DEF s
<1>2. \A k \in 1..1 : s[k] = c
  BY <1>1
<1>3. Orderly(s, i)
  BY <1>1, <1>2 DEF Orderly, Sequence
<1>4. c.run = "destroy" => Destroys(s)
  BY <1>1 DEF Destroys
<1> QED BY <1>3, <1>4 DEF s

\* Two such calls
LEMMA OrderlyTwo ==
  ASSUME NEW i, NEW c, NEW d, Item(c, i), Item(d, i), ~Uses(c), ~Uses(d)
  PROVE  Orderly(<<c, d>>, i)
<1> DEFINE s == <<c, d>>
<1>1. s \in Seq({c, d}) /\ Len(s) = 2 /\ s[1] = c /\ s[2] = d
  OBVIOUS
<1> HIDE DEF s
<1>2. \A k \in 1..2 : s[k] = c \/ s[k] = d
  BY <1>1
<1>3. Orderly(s, i)
  BY <1>1, <1>2 DEF Orderly, Sequence
<1> QED BY <1>3 DEF s

\* A use of the temporary between its constructor and its destructor
LEMMA OrderlyUse ==
  ASSUME NEW i, NEW s, Sequence(s), Len(s) = 3, Item(s[1], i), Item(s[2], i),
         Item(s[3], i), s[3].run = "destroy"
  PROVE  Orderly(s, i)
<1>1. ~Uses(s[3]) /\ \A k \in 1..3 : k = 1 \/ k = 2 \/ k = 3
  BY DEF Uses
<1>2. \A k \in 1..3 : Item(s[k], i)
  BY <1>1
<1>3. \A k \in 1..3 : Uses(s[k]) => 3 \in k+1..3
  BY <1>1
<1> QED BY <1>2, <1>3 DEF Orderly

----------------------------------------------------------------------------
(* What the functions leave to do. *)

\* The calls that the functions consist of, one by one
LEMMA Items ==
  ASSUME NEW t, NEW s \in Target(t)
  PROVE  /\ \A f, e : Item(Call(f, s, e), t) /\ ~Uses(Call(f, s, e))
         /\ \A op, xs : Item(Eval(op, s, xs), t) /\ ~Uses(Eval(op, s, xs))
         /\ Item(Promote(s), t) /\ ~Uses(Promote(s))
         /\ \A x : Item(Copy(s, x), t) /\ ~Uses(Copy(s, x))
         /\ \A e : Item(Construct(t, e), t)
         /\ Item(MoveFrom(s, t), t) /\ Item(SwapWith(s, t), t)
         /\ Item(Destroy(t), t) /\ Destroy(t).run = "destroy"
BY DEF Call, Eval, Promote, Copy, Construct, MoveFrom, SwapWith, Destroy, Item, Uses

\* self_type temp(e)
LEMMA TempOrderly ==
  ASSUME NEW t, NEW s \in Target(t), NEW e, NEW c, Item(c, t)
  PROVE  Orderly(Temp(t, e, <<c>>), t)
<1> DEFINE a == <<Construct(t, e)>>
           b == <<c>>
           d == <<Destroy(t)>>
<1>1. /\ a \in Seq({Construct(t, e)}) /\ b \in Seq({c}) /\ d \in Seq({Destroy(t)})
      /\ Len(a) = 1 /\ a[1] = Construct(t, e)
      /\ Len(b) = 1 /\ b[1] = c
      /\ Len(d) = 1 /\ d[1] = Destroy(t)
  BY SMT
<1>2. Temp(t, e, <<c>>) = (a \o b) \o d
  BY DEF Temp
<1> HIDE DEF a, b, d
<1>3. Sequence(a) /\ Sequence(b) /\ Sequence(d)
  BY <1>1 DEF Sequence
<1>4. /\ Sequence(a \o b) /\ Len(a \o b) = 2
      /\ (a \o b)[1] = Construct(t, e) /\ (a \o b)[2] = c
  <2>1. Sequence(a \o b) /\ Len(a \o b) = Len(a) + Len(b)
        /\ \A k \in 1..Len(a) + Len(b) :
             (a \o b)[k] = IF k <= Len(a) THEN a[k] ELSE b[k - Len(a)]
    BY <1>3, SequencesJoin
  <2>2. 1 \in 1..Len(a) + Len(b) /\ 2 \in 1..Len(a) + Len(b) /\ 2 - Len(a) = 1
    BY <1>1
  <2> QED BY <1>1, <2>1, <2>2
<1>5. /\ Sequence((a \o b) \o d) /\ Len((a \o b) \o d) = 3
      /\ ((a \o b) \o d)[1] = Construct(t, e) /\ ((a \o b) \o d)[2] = c
      /\ ((a \o b) \o d)[3] = Destroy(t)
  BY <1>1, <1>3, <1>4, SequencesJoin
<1> QED BY <1>2, <1>5, Items, OrderlyUse

\* A promotion, before what needs it
LEMMA PromoteOrderly ==
  ASSUME NEW t, NEW s \in Target(t), NEW b, Orderly(b, t)
  PROVE  Orderly(<<Promote(s)>> \o b, t)
BY Items, OrderlyOne, OrderlyJoin

\* The parts that several functions share
LEMMA PartsOrderly ==
  ASSUME NEW t, NEW s \in Target(t)
  PROVE  /\ Orderly(<<>>, t)
         /\ \A f, e : Orderly(<<Call(f, s, e)>>, t)
         /\ \A x : Orderly(<<Copy(s, x)>>, t)
         /\ \A op, xs : Orderly(<<Eval(op, s, xs)>>, t) /\ Orderly(Operate(op, s, xs), t)
         /\ \A f, g, e : Orderly(Both(f, g, s, e), t)
         /\ \A f, g, d, e : Orderly(<<Call(f, s, d), Call(g, s, e)>>, t)
         /\ \A f, e : Orderly(<<Promote(s), Call(f, s, e)>>, t)
         /\ \A e : Orderly(Temp(t, e, <<SwapWith(s, t)>>), t)
         /\ \A f, e, g : Orderly(Temp(t, e, <<Call(f, s, g)>>), t)
         /\ \A e, op, xs : Orderly(<<Promote(s)>> \o Temp(t, e, <<Eval(op, s, xs)>>), t)
         /\ \A f, e : Orderly(Unknown(f, s, e, t), t)
         /\ \A op, e : Orderly(UnknownFactor(op, s, e, t), t)
         /\ \A e : Orderly(ByTemporary(s, e, t), t)
<1>1. Orderly(<<>>, t)
  BY OrderlyNone
<1>2. /\ \A f, e : Orderly(<<Call(f, s, e)>>, t)
      /\ \A x : Orderly(<<Copy(s, x)>>, t)
      /\ \A op, xs : Orderly(<<Eval(op, s, xs)>>, t)
  BY Items, OrderlyOne
<1>3. /\ \A op, xs : Orderly(Operate(op, s, xs), t)
      /\ \A f, g, e : Orderly(Both(f, g, s, e), t)
      /\ \A f, g, d, e : Orderly(<<Call(f, s, d), Call(g, s, e)>>, t)
      /\ \A f, e : Orderly(<<Promote(s), Call(f, s, e)>>, t)
  BY Items, OrderlyTwo DEF Operate, Both
<1>4. /\ \A e : Orderly(Temp(t, e, <<SwapWith(s, t)>>), t)
      /\ \A f, e, g : Orderly(Temp(t, e, <<Call(f, s, g)>>), t)
      /\ \A e, op, xs : Orderly(Temp(t, e, <<Eval(op, s, xs)>>), t)
  BY Items, TempOrderly
<1>5. \A e, op, xs : Orderly(<<Promote(s)>> \o Temp(t, e, <<Eval(op, s, xs)>>), t)
  BY <1>4, PromoteOrderly
<1>6. /\ \A f, e : Orderly(Unknown(f, s, e, t), t)
      /\ \A op, e : Orderly(UnknownFactor(op, s, e, t), t)
  BY <1>4, <1>5 DEF Unknown, UnknownFactor
<1>7. \A e : Orderly(ByTemporary(s, e, t), t)
  <2>1. TAKE e
  <2> DEFINE b == <<Construct(t, e), MoveFrom(s, t), Destroy(t)>>
  <2>2. /\ b \in Seq({Construct(t, e), MoveFrom(s, t), Destroy(t)}) /\ Len(b) = 3
        /\ b[1] = Construct(t, e) /\ b[2] = MoveFrom(s, t) /\ b[3] = Destroy(t)
    OBVIOUS
  <2>3. ByTemporary(s, e, t) = b
    BY DEF ByTemporary
  <2> HIDE DEF b
  <2> QED BY <2>2, <2>3, Items, OrderlyUse DEF Sequence
<1> QED BY <1>1, <1>2, <1>3, <1>4, <1>5, <1>6, <1>7

\* The functions of number.hpp, whatever the expression
LEMMA BodyOrderly ==
  ASSUME NEW f, NEW e, NEW t, NEW s \in Target(t)
  PROVE  Orderly(Body(f, s, e, t), t)
<1>1. Orderly(do_assign(s, e, t), t)
  <2>1. Orderly(assign_sum(s, e, t), t)
    BY PartsOrderly DEF assign_sum
  <2>2. Orderly(assign_quotient(s, e, t), t)
    BY PartsOrderly DEF assign_quotient
  <2> QED BY <2>1, <2>2, PartsOrderly DEF do_assign
<1>2. Orderly(do_add(s, e, t), t)
  BY PartsOrderly DEF do_add
<1>3. Orderly(do_subtract(s, e, t), t)
  BY PartsOrderly DEF do_subtract
<1>4. Orderly(do_multiplies(s, e, t), t)
  BY PartsOrderly DEF do_multiplies
<1>5. Orderly(do_divide(s, e, t), t)
  BY PartsOrderly DEF do_divide
<1> QED BY <1>1, <1>2, <1>3, <1>4, <1>5 DEF Body

\* The assignment operators
LEMMA AssignmentOrderly ==
  ASSUME NEW f, NEW e, NEW t, NEW s \in Target(t), NEW other
  PROVE  Orderly(operator_assign(f, s, e, t, other), t)
BY PartsOrderly DEF operator_assign

----------------------------------------------------------------------------
(* The stack. *)

IsFrame(r) == r = [old |-> r.old, new |-> r.new, todo |-> r.todo]

\* Each assignment leaves orderly calls, and those that have made another to
\* construct their temporary will destroy it.
Stacked(st) ==
  /\ Sequence(st)
  /\ \A i \in 1..Len(st) : IsFrame(st[i]) /\ Orderly(st[i].todo, i)
  /\ \A i \in 1..Len(st) : i < Len(st) => Destroys(st[i].todo)

\* Each guard gives back what the one before it has chosen, the first what the
\* program has chosen: d is the default now, a what was asked for.
Chained(st, d, a) ==
  /\ st = <<>> => d = a
  /\ st # <<>> => st[1].old = a /\ st[Len(st)].new = d
  /\ \A i, j \in 1..Len(st) : j = i + 1 => st[j].old = st[i].new

\* A temporary that exists will be destroyed.
Owned(st, ns) ==
  /\ ns = [x \in Object |-> ns[x]]
  /\ \A t \in Temporary :
       ns[t] = NoNumber \/ (t \in 1..Len(st) /\ Destroys(st[t].todo))

IInv ==
  /\ Stacked(stack)
  /\ Chained(stack, default, asked)
  /\ Owned(stack, num)
  /\ stack = <<>> <=> pc \in {"idle", "returned", "threw"}

\* The last assignment makes its first call, which stands for the calls cs.
Advanced(st, cs) == [st EXCEPT ![Len(st)].todo = cs \o Tail(@)]

\* The length of a sequence
LEMMA SequenceLength ==
  ASSUME NEW s, Sequence(s)
  PROVE  Len(s) \in Nat /\ (s # <<>> => Len(s) \in 1..Len(s))
BY LenProperties, EmptySeq DEF Sequence

\* The calls of a frame are exchanged.
LEMMA FrameExcept ==
  ASSUME NEW r, NEW x, NEW y, NEW z, NEW s, r = [old |-> x, new |-> y, todo |-> z]
  PROVE  [r EXCEPT !.todo = s] = [old |-> x, new |-> y, todo |-> s]
OBVIOUS

\* Only the last frame has changed.
LEMMA AdvancedStack ==
  ASSUME NEW st, NEW cs, Stacked(st), st # <<>>, st[Len(st)].todo # <<>>,
         Orderly(cs, Len(st))
  PROVE  LET n == Len(st)
             su == Advanced(st, cs)
             c == Head(st[n].todo)
         IN /\ Stacked(su) /\ Len(su) = n /\ n \in 1..n /\ su # <<>>
            /\ \A i \in 1..n : i # n => su[i] = st[i]
            /\ su[n].old = st[n].old /\ su[n].new = st[n].new
            /\ Item(c, n) /\ (Uses(c) => Destroys(su[n].todo))
            /\ Destroys(st[n].todo) /\ c.run # "destroy" => Destroys(su[n].todo)
<1> DEFINE n == Len(st)
           su == Advanced(st, cs)
           r == st[n]
           s == cs \o Tail(r.todo)
           q == [old |-> r.old, new |-> r.new, todo |-> s]
           c == Head(r.todo)
<1>1. PICK S : st \in Seq(S)
  BY DEF Stacked, Sequence
<1>2. n \in Nat /\ n \in 1..n /\ st \in Seq(S \cup {q}) /\ DOMAIN st = 1..n
  BY <1>1, SequenceLength, SeqMonotonic, LenProperties DEF Stacked
<1>3. IsFrame(r) /\ Orderly(r.todo, n)
  BY <1>2 DEF Stacked
<1>4. su = [st EXCEPT ![n] = q]
  <2>1. [r EXCEPT !.todo = s] = q
    <3>1. r = [old |-> r.old, new |-> r.new, todo |-> r.todo]
      BY <1>3 DEF IsFrame
    <3> HIDE DEF r, s
    <3> QED BY <3>1, FrameExcept
  <2>2. su = [st EXCEPT ![n] = [r EXCEPT !.todo = s]]
    BY DEF Advanced
  <2> QED BY <2>1, <2>2
<1>5. /\ Item(c, n) /\ Orderly(Tail(r.todo), n)
      /\ Uses(c) => Destroys(Tail(r.todo))
      /\ Destroys(r.todo) /\ c.run # "destroy" => Destroys(Tail(r.todo))
  BY <1>3, OrderlyTail
<1>6. Orderly(s, n) /\ (Destroys(Tail(r.todo)) => Destroys(s))
  BY <1>5, OrderlyJoin
<1>7. /\ su \in Seq(S \cup {q}) /\ Len(su) = n
      /\ \A i \in 1..n : su[i] = IF i = n THEN q ELSE st[i]
  BY <1>2, <1>4, ExceptSeq
<1>8. q.old = r.old /\ q.new = r.new /\ q.todo = s /\ IsFrame(q)
  BY DEF IsFrame
<1> HIDE DEF su, q, s
<1>9. Stacked(su)
  <2>1. ASSUME NEW i \in 1..n
        PROVE  IsFrame(su[i]) /\ Orderly(su[i].todo, i)
               /\ (i < n => Destroys(su[i].todo))
    <3>1. CASE i = n
      <4>1. su[n] = q /\ q.todo = s /\ IsFrame(q) /\ Orderly(s, n)
        BY <1>2, <1>6, <1>7, <1>8
      <4>2. ~(n < n)
        BY <1>2
      <4> HIDE DEF n
      <4> QED BY <3>1, <4>1, <4>2
    <3>2. CASE i # n
      BY <1>7, <3>2 DEF Stacked
    <3> QED BY <3>1, <3>2
  <2> HIDE DEF n
  <2> QED BY <1>7, <2>1 DEF Stacked, Sequence
<1> HIDE DEF n
<1>10. su # <<>>
  BY <1>2, <1>7, EmptySeq
<1> QED BY <1>2, <1>5, <1>6, <1>7, <1>8, <1>9, <1>10 DEF su, n

\* No call of the last assignment touches another temporary than its own and the one
\* that it writes to, which the assignment before it will destroy.
LEMMA AdvancedOwned ==
  ASSUME NEW st, NEW cs, Stacked(st), st # <<>>, st[Len(st)].todo # <<>>,
         Orderly(cs, Len(st)), NEW ns, Owned(st, ns), NEW nu,
         nu = [x \in Object |-> nu[x]], Head(st[Len(st)].todo).run # "destroy",
         \A t \in Temporary : \/ nu[t] = ns[t] \/ t \in Target(Len(st))
                              \/ t = Len(st) /\ Uses(Head(st[Len(st)].todo))
  PROVE  Owned(Advanced(st, cs), nu)
<1> DEFINE n == Len(st)
           su == Advanced(st, cs)
           c == Head(st[n].todo)
<1>1. /\ Len(su) = n /\ n \in 1..n /\ n \in Nat
      /\ \A i \in 1..n : i # n => su[i] = st[i]
      /\ Uses(c) => Destroys(su[n].todo)
      /\ Destroys(st[n].todo) /\ c.run # "destroy" => Destroys(su[n].todo)
  BY AdvancedStack, SequenceLength DEF Stacked
<1>2. ASSUME NEW t \in Temporary
      PROVE  nu[t] = NoNumber \/ (t \in 1..n /\ Destroys(su[t].todo))
  <2>1. CASE t = n /\ Uses(c)
    BY <1>1, <2>1
  <2>2. CASE t \in Target(n)
    <3>1. n # 1 /\ t = n - 1
      BY <2>2, PrecisionAssumption DEF Target, Temporary
    <3>2. t \in 1..n /\ t < n /\ t # n
      BY <1>1, <3>1 DEF Temporary
    <3>3. Destroys(st[t].todo)
      BY <3>2 DEF Stacked
    <3> QED BY <1>1, <3>2, <3>3
  <2>3. CASE nu[t] = ns[t]
    BY <1>1, <2>3 DEF Owned
  <2> QED BY <2>1, <2>2, <2>3
<1> HIDE DEF su, n
<1> QED BY <1>1, <1>2 DEF Owned, su, n

\* The guards are what they were.
LEMMA AdvancedChained ==
  ASSUME NEW st, NEW cs, Stacked(st), st # <<>>, st[Len(st)].todo # <<>>,
         Orderly(cs, Len(st)), NEW d, NEW a, Chained(st, d, a)
  PROVE  Chained(Advanced(st, cs), d, a)
<1> DEFINE n == Len(st)
           su == Advanced(st, cs)
<1>1. /\ Len(su) = n /\ n \in 1..n /\ su # <<>>
      /\ \A i \in 1..n : i # n => su[i] = st[i]
      /\ su[n].old = st[n].old /\ su[n].new = st[n].new
  BY AdvancedStack
<1>2. \A i \in 1..n : su[i].old = st[i].old /\ su[i].new = st[i].new
  BY <1>1
<1>3. 1 \in 1..n
  BY <1>1
<1> HIDE DEF su
<1> QED BY <1>1, <1>2, <1>3 DEF Chained, su

\* An assignment begins, with a guard of its own.
LEMMA PushedStack ==
  ASSUME NEW st, Stacked(st), st # <<>> => Destroys(st[Len(st)].todo),
         NEW d, NEW a, Chained(st, d, a), NEW cs, Orderly(cs, Len(st) + 1),
         NEW p, NEW r, r = [old |-> d, new |-> p, todo |-> cs]
  PROVE  /\ Stacked(Append(st, r)) /\ Chained(Append(st, r), p, a)
         /\ Len(Append(st, r)) = Len(st) + 1 /\ Append(st, r) # <<>>
         /\ \A i \in 1..Len(st) : Append(st, r)[i] = st[i]
<1> DEFINE n == Len(st)
           su == Append(st, r)
<1>1. PICK S : st \in Seq(S)
  BY DEF Stacked, Sequence
<1>2. st \in Seq(S \cup {r}) /\ n \in Nat /\ (st # <<>> => n \in 1..n) /\ (st = <<>> => n = 0)
  BY <1>1, SequenceLength, SeqMonotonic, EmptySeq DEF Stacked
<1>3. /\ su \in Seq(S \cup {r}) /\ Len(su) = n + 1 /\ su[n + 1] = r
      /\ \A i \in 1..n : su[i] = st[i]
  BY <1>2, AppendProperties
<1>4. su # <<>>
  BY <1>2, <1>3, EmptySeq
<1>5. r.old = d /\ r.new = p /\ r.todo = cs /\ IsFrame(r)
  BY DEF IsFrame
<1> HIDE DEF su
<1>6. \A i \in 1..n + 1 : i = n + 1 \/ (i \in 1..n /\ su[i] = st[i])
  BY <1>2, <1>3
<1>7. Stacked(su)
  <2>1. ASSUME NEW i \in 1..n + 1
        PROVE  IsFrame(su[i]) /\ Orderly(su[i].todo, i)
               /\ (i < n + 1 => Destroys(su[i].todo))
    BY <1>2, <1>3, <1>5, <1>6 DEF Stacked
  <2> QED BY <1>3, <2>1 DEF Stacked, Sequence
<1>8. Chained(su, p, a)
  <2>1. su[1].old = a
    <3>1. CASE st = <<>>
      BY <1>2, <1>3, <1>5, <3>1 DEF Chained
    <3>2. CASE st # <<>>
      <4>1. 1 \in 1..n
        BY <1>2, <3>2
      <4> QED BY <1>3, <3>2, <4>1 DEF Chained
    <3> QED BY <3>1, <3>2
  <2>2. ASSUME NEW i \in 1..n + 1, NEW j \in 1..n + 1, j = i + 1
        PROVE  su[j].old = su[i].new
    <3>1. i \in 1..n /\ su[i] = st[i]
      BY <1>2, <1>6, <2>2
    <3>2. CASE j = n + 1
      <4>1. i = n /\ st # <<>>
        BY <1>2, <2>2, <3>1, <3>2
      <4> QED BY <1>3, <1>5, <3>1, <3>2, <4>1 DEF Chained
    <3>3. CASE j \in 1..n
      BY <1>3, <2>2, <3>1, <3>3 DEF Chained
    <3> QED BY <1>6, <3>2, <3>3
  <2> QED BY <1>2, <1>3, <1>4, <1>5, <2>1, <2>2 DEF Chained
<1> QED BY <1>3, <1>4, <1>7, <1>8 DEF su

\* An assignment ends, by return or by an exception: its guard restores the default.
LEMMA PoppedStack ==
  ASSUME NEW st, Stacked(st), st # <<>>, NEW d, NEW a, Chained(st, d, a)
  PROVE  LET n == Len(st)
             su == SubSeq(st, 1, n - 1)
             r == st[n]
         IN /\ Stacked(su) /\ Len(su) = n - 1 /\ n \in Nat /\ (su = <<>> <=> n = 1)
            /\ Chained(su, IF r.new # r.old THEN r.old ELSE d, a)
            /\ \A i \in 1..n - 1 : su[i] = st[i]
<1> DEFINE n == Len(st)
           su == SubSeq(st, 1, n - 1)
           e == IF st[n].new # st[n].old THEN st[n].old ELSE d
<1>1. PICK S : st \in Seq(S)
  BY DEF Stacked, Sequence
<1>2. n \in Nat \ {0} /\ n \in 1..n /\ st \in [1..n -> S]
  BY <1>1, LenProperties, EmptySeq
<1>3. su \in Seq(S) /\ Len(su) = n - 1 /\ \A i \in 1..n - 1 : su[i] = st[i]
  <2>1. \A i \in 1..n - 1 : st[i] \in S
    BY <1>2
  <2>2. 1 \in Int /\ n - 1 \in Int /\ (n - 1) - 1 + 1 = n - 1
        /\ (1 <= n - 1 \/ n - 1 = 0)
    BY <1>2
  <2>3. /\ su \in Seq(S)
        /\ Len(su) = IF 1 <= n - 1 THEN (n - 1) - 1 + 1 ELSE 0
        /\ \A i \in 1..(n - 1) - 1 + 1 : su[i] = st[1 + i - 1]
    BY <2>1, <2>2, SubSeqProperties
  <2> QED BY <2>2, <2>3
<1>4. su = <<>> <=> n = 1
  BY <1>2, <1>3, EmptySeq, SMTT(60)
<1>5. e = st[n].old
  BY DEF Chained
<1> HIDE DEF su, e, n
<1>6. \A i \in 1..n - 1 : i \in 1..n /\ i < n
  BY <1>2
<1>7. Stacked(su)
  <2>1. ASSUME NEW i \in 1..n - 1
        PROVE  IsFrame(su[i]) /\ Orderly(su[i].todo, i) /\ Destroys(su[i].todo)
    BY <1>3, <1>6 DEF Stacked, n
  <2> QED BY <1>3, <2>1 DEF Stacked, Sequence
<1>8. Chained(su, e, a)
  <2>1. CASE n = 1
    <3>1. 1..n - 1 = {}
      BY <2>1
    <3> QED BY <1>3, <1>4, <1>5, <2>1, <3>1 DEF Chained, n
  <2>2. CASE n # 1
    <3>1. 1 \in 1..n - 1 /\ n - 1 \in 1..n - 1 /\ n = (n - 1) + 1
      BY <1>2, <2>2
    <3>2. su[1].old = a /\ su[n - 1].new = e
      BY <1>2, <1>3, <1>5, <1>6, <3>1 DEF Chained, n
    <3> QED BY <1>3, <1>4, <1>6, <2>2, <3>2 DEF Chained, n
  <2> QED BY <2>1, <2>2
<1> QED BY <1>2, <1>3, <1>4, <1>7, <1>8 DEF su, e, n

----------------------------------------------------------------------------
(* The steps. *)

\* The program runs no assignment: one begins.
LEMMA AssignKeeps ==
  ASSUME IInv, NEW a \in Assignments, Assign(a)
  PROVE  IInv'
<1> DEFINE p == guard_precision(a.op, a.on, a.of)
           cs == operator_assign(a.op, a.on, a.of, 1, p # num[a.on].prec)
           r == [old |-> default, new |-> p, todo |-> cs]
<1>1. stack = <<>> /\ stack' = <<r>> /\ default' = p /\ asked' = asked /\ num' = num
      /\ pc' = "running"
  BY DEF Assign, IInv, Guarded
<1>2. Orderly(cs, 1)
  BY AssignmentOrderly, PrecisionAssumption DEF Target
<1> HIDE DEF cs, p
<1>3. Stacked(stack) /\ Chained(stack, default, asked)
  BY DEF IInv
<1>4. <<r>> = Append(stack, r) /\ Len(stack) + 1 = 1 /\ Len(stack) = 0
  BY <1>1
<1>5. /\ Stacked(stack') /\ Chained(stack', p, asked) /\ stack' # <<>>
  <2>1. /\ Stacked(Append(stack, r)) /\ Chained(Append(stack, r), p, asked)
        /\ Append(stack, r) # <<>>
    <3>1. (stack # <<>> => Destroys(stack[Len(stack)].todo)) /\ Orderly(cs, Len(stack) + 1)
      BY <1>1, <1>2, <1>4
    <3> QED BY <1>3, <3>1, PushedStack
  <2> HIDE DEF r
  <2> QED BY <1>1, <1>4, <2>1
<1>6. Owned(stack', num')
  BY <1>1, <1>4 DEF IInv, Owned
<1> QED BY <1>1, <1>5, <1>6 DEF IInv

\* The last assignment makes a call that changes no number but its target, and for a
\* move or a swap the temporary that is destroyed next.
LEMMA CallKeeps ==
  ASSUME IInv, pc = "running", top.todo # <<>>, next.run # "destroy",
         NEW cs, Orderly(cs, Len(stack)), stack' = Then(cs),
         default' = default, asked' = asked, pc' \in {"running", "throwing"},
         num' = [x \in Object |-> num'[x]],
         \A t \in Temporary : \/ num'[t] = num[t] \/ t \in Target(Len(stack))
                              \/ t = Len(stack) /\ Uses(next)
  PROVE  IInv'
<1>1. stack # <<>> /\ stack' = Advanced(stack, cs) /\ stack[Len(stack)].todo # <<>>
      /\ Stacked(stack)
  BY DEF IInv, Then, Advanced, top
<1>2. Stacked(stack') /\ stack' # <<>>
  BY <1>1, AdvancedStack
<1>3. Chained(stack', default', asked')
  BY <1>1, AdvancedChained DEF IInv
<1>4. Owned(stack', num')
  BY <1>1, AdvancedOwned DEF IInv, next, top
<1> QED BY <1>2, <1>3, <1>4 DEF IInv

\* What the next call of the last assignment may name
LEMMA NextItem ==
  ASSUME IInv, pc = "running", top.todo # <<>>
  PROVE  Item(next, Len(stack)) /\ stack # <<>> /\ Len(stack) \in 1..Len(stack)
         /\ Len(stack) \in Nat /\ num = [x \in Object |-> num[x]]
         /\ Orderly(<<>>, Len(stack))
<1>1. stack # <<>> /\ Len(stack) \in 1..Len(stack) /\ Len(stack) \in Nat
  BY SequenceLength DEF IInv, Stacked
<1>2. Orderly(top.todo, Len(stack))
  BY <1>1 DEF IInv, Stacked, top
<1> QED BY <1>1, <1>2, OrderlyTail, OrderlyNone DEF next, IInv, Owned

\* The calls that write to the target
LEMMA EvaluateKeeps ==
  ASSUME IInv,
         \/ Enter \/ maybe_promote_precision \/ Compute \/ ComputeFunction \/ CopyOperand
  PROVE  IInv'
<1>1. pc = "running" /\ pc' = pc /\ top.todo # <<>> /\ default' = default /\ asked' = asked
      /\ next.run \in {"call", "promote", "eval", "copy"}
  BY DEF Enter, maybe_promote_precision, Compute, ComputeFunction, CopyOperand, Does, history
<1>2. next.on \in Target(Len(stack))
  BY <1>1, NextItem DEF Item
<1>3. PICK cs : stack' = Then(cs) /\ Orderly(cs, Len(stack))
  <2>1. CASE Enter
    BY <1>2, <2>1, BodyOrderly DEF Enter
  <2>2. CASE ~Enter
    BY <1>1, <2>2, NextItem
       DEF maybe_promote_precision, Compute, ComputeFunction, CopyOperand
  <2> QED BY <2>1, <2>2
<1>4. /\ num' = [x \in Object |-> num'[x]]
      /\ \A t \in Temporary : num'[t] = num[t] \/ t = next.on
  <2>1. num' = num \/ \E v : num' = [num EXCEPT ![next.on] = v]
    BY DEF Enter, maybe_promote_precision, Compute, ComputeFunction, CopyOperand
  <2> QED BY <1>1, <2>1, NextItem DEF Object
<1> QED BY <1>1, <1>2, <1>3, <1>4, CallKeeps

\* The temporary's value becomes the target's.
LEMMA TransferKeeps ==
  ASSUME IInv, MoveTemporary \/ SwapTemporary
  PROVE  IInv'
<1>1. pc = "running" /\ pc' = pc /\ top.todo # <<>> /\ default' = default /\ asked' = asked
      /\ next.run \in {"move", "swap"} /\ stack' = Then(<<>>)
  BY DEF MoveTemporary, SwapTemporary, Does
<1>2. next.on \in Target(Len(stack)) /\ next.of = Len(stack) /\ Uses(next)
  BY <1>1, NextItem DEF Item, Uses
<1>3. /\ num' = [x \in Object |-> num'[x]]
      /\ \A t \in Temporary : num'[t] = num[t] \/ t = next.on \/ t = next.of
  <2>1. CASE MoveTemporary
    BY <1>1, <2>1, NextItem DEF MoveTemporary, Moved, Object
  <2>2. CASE SwapTemporary
    BY <1>1, <2>2, NextItem DEF SwapTemporary, Object
  <2> QED BY <2>1, <2>2
<1> QED BY <1>1, <1>2, <1>3, NextItem, CallKeeps

\* The temporary is made, and assigned to.
LEMMA ConstructKeeps ==
  ASSUME IInv, ConstructTemporary
  PROVE  IInv'
<1> DEFINE t == next.on
           n == Len(stack)
           p == guard_precision("assign", t, next.of)
           new == DefaultNumber(default)
           cs == operator_assign("assign", t, next.of, n + 1, p # new.prec)
           r == [old |-> default, new |-> p, todo |-> cs]
           su == Advanced(stack, <<>>)
<1>1. pc = "running" /\ pc' = pc /\ top.todo # <<>> /\ asked' = asked /\ default' = p
      /\ next.run = "construct" /\ num' = [num EXCEPT ![t] = new]
      /\ stack' = Append(su, r)
  BY DEF ConstructTemporary, Does, Guarded, Then, Advanced
<1>2. /\ Item(next, n) /\ stack # <<>> /\ n \in Nat /\ n \in 1..n
      /\ num = [x \in Object |-> num[x]] /\ Orderly(<<>>, n)
      /\ stack[n].todo # <<>> /\ Stacked(stack)
  BY <1>1, NextItem DEF top, IInv
<1>3. t = n /\ Uses(next)
  BY <1>1, <1>2 DEF Item, Uses
<1>4. Stacked(su) /\ Len(su) = n /\ su # <<>> /\ Destroys(su[n].todo)
  BY <1>2, <1>3, AdvancedStack DEF next, top
<1>5. Chained(su, default, asked)
  BY <1>2, AdvancedChained DEF IInv
<1>6. Owned(su, num')
  <2>1. num' = [x \in Object |-> num'[x]] /\ \A x \in Temporary : num'[x] = num[x] \/ x = t
    BY <1>1, <1>2 DEF Object
  <2>2. \A x \in Temporary :
        num'[x] = num[x] \/ x \in Target(n) \/ (x = n /\ Uses(Head(stack[n].todo)))
    BY <1>3, <2>1 DEF next, top
  <2>3. Owned(stack, num) /\ Head(stack[n].todo).run # "destroy"
    BY <1>1 DEF IInv, next, top
  <2> QED BY <1>2, <2>1, <2>2, <2>3, AdvancedOwned
<1>7. Orderly(cs, Len(su) + 1)
  <2>1. t \in Target(n + 1)
    BY <1>2, <1>3 DEF Target
  <2> QED BY <1>4, <2>1, AssignmentOrderly
<1> HIDE DEF su, cs, p
<1>8. /\ Stacked(stack') /\ Chained(stack', p, asked) /\ stack' # <<>>
      /\ Len(stack') = n + 1 /\ \A i \in 1..n : stack'[i] = su[i]
  BY <1>1, <1>4, <1>5, <1>7, PushedStack
<1>9. Owned(stack', num')
  <2>1. \A i \in 1..n : i \in 1..n + 1
    BY <1>2
  <2> QED BY <1>4, <1>6, <1>8, <2>1 DEF Owned
<1> QED BY <1>1, <1>8, <1>9 DEF IInv

\* The temporary is destroyed.
LEMMA DestroyKeeps ==
  ASSUME IInv, DestroyTemporary
  PROVE  IInv'
<1> DEFINE n == Len(stack)
<1>1. pc = "running" /\ pc' = pc /\ top.todo # <<>> /\ default' = default /\ asked' = asked
      /\ next.run = "destroy" /\ num' = [num EXCEPT ![next.on] = NoNumber]
      /\ stack' = Advanced(stack, <<>>)
  BY DEF DestroyTemporary, Does, history, Then, Advanced
<1>2. /\ Item(next, n) /\ stack # <<>> /\ n \in Nat /\ n \in 1..n
      /\ num = [x \in Object |-> num[x]] /\ Orderly(<<>>, n)
      /\ stack[n].todo # <<>> /\ Stacked(stack)
  BY <1>1, NextItem DEF top, IInv
<1>3. next.on = n
  BY <1>1, <1>2 DEF Item
<1>4. Stacked(stack') /\ Len(stack') = n /\ stack' # <<>>
      /\ \A i \in 1..n : i # n => stack'[i] = stack[i]
  BY <1>1, <1>2, AdvancedStack
<1>5. Chained(stack', default', asked')
  BY <1>1, <1>2, AdvancedChained DEF IInv
<1>6. Owned(stack', num')
  <2>1. num' = [x \in Object |-> num'[x]]
        /\ \A x \in Temporary : num'[x] = IF x = n THEN NoNumber ELSE num[x]
    BY <1>1, <1>2, <1>3 DEF Object
  <2> QED BY <1>4, <2>1 DEF IInv, Owned
<1> QED BY <1>1, <1>4, <1>5, <1>6 DEF IInv

\* An assignment ends, or an exception leaves it.
LEMMA EndKeeps ==
  ASSUME IInv, Leave \/ Unwind
  PROVE  IInv'
<1> DEFINE n == Len(stack)
           su == SubSeq(stack, 1, n - 1)
<1>1. /\ stack # <<>> /\ stack' = su /\ asked' = asked
      /\ default' = IF stack[n].new # stack[n].old THEN stack[n].old ELSE default
      /\ n = 1 => pc' \in {"returned", "threw"}
      /\ n # 1 => pc' \in {"running", "throwing"}
  BY DEF Leave, Unwind, IInv, Restored, top, history
<1>2. /\ Stacked(su) /\ Len(su) = n - 1 /\ n \in Nat /\ (su = <<>> <=> n = 1)
      /\ Chained(su, default', asked) /\ \A i \in 1..n - 1 : su[i] = stack[i]
  BY <1>1, PoppedStack DEF IInv
<1>3. /\ num' = [x \in Object |-> num'[x]]
      /\ \A t \in Temporary : \/ num'[t] = NoNumber
                              \/ num'[t] = num[t] /\ (t = n => ~Destroys(stack[n].todo))
  <2>1. CASE Leave
    <3>1. num' = num /\ stack[n].todo = <<>>
      BY <2>1 DEF Leave, top
    <3> QED BY <3>1, OrderlyNone DEF IInv, Owned
  <2>2. CASE Unwind
    <3>1. num' = [num EXCEPT ![n] = NoNumber]
      BY <2>2 DEF Unwind
    <3> QED BY <3>1 DEF IInv, Owned, Object
  <2> QED BY <2>1, <2>2
<1> HIDE DEF su, n
<1>4. Owned(su, num')
  <2>1. ASSUME NEW t \in Temporary, num'[t] # NoNumber
        PROVE  t \in 1..n - 1 /\ Destroys(su[t].todo)
    <3>1. t \in 1..n /\ Destroys(stack[t].todo) /\ t # n
      BY <1>3, <2>1 DEF IInv, Owned, n
    <3>2. t \in 1..n - 1
      BY <1>2, <3>1
    <3> QED BY <1>2, <3>1, <3>2
  <2> QED BY <1>2, <1>3, <2>1 DEF Owned
<1> QED BY <1>1, <1>2, <1>4 DEF IInv

\* What the program does between its assignments leaves the temporaries alone.
LEMMA ProgramKeeps ==
  ASSUME IInv,
         \/ \E p \in Precisions : SetDefault(p)
         \/ \E x \in Number, p \in Precisions : SetPrecision(x, p)
         \/ \E x, y \in Number : CopyNumber(x, y) \/ MoveNumber(x, y)
         \/ Continue \/ DivideByZero \/ UNCHANGED <<vars, history>>
  PROVE  IInv'
<1>1. /\ stack' = stack
      /\ pc \in {"idle", "returned", "threw"} <=> pc' \in {"idle", "returned", "threw"}
      /\ \/ default' = default /\ asked' = asked
         \/ stack = <<>> /\ default' = asked'
  <2>1. ASSUME NEW p \in Precisions, SetDefault(p)
        PROVE  stack' = stack /\ pc' = pc /\ stack = <<>> /\ default' = asked'
    BY <2>1 DEF SetDefault, IInv
  <2>2. ASSUME NEW x \in Number, NEW p \in Precisions, SetPrecision(x, p)
        PROVE  stack' = stack /\ pc' = pc /\ default' = default /\ asked' = asked
    BY <2>2 DEF SetPrecision, history
  <2>3. ASSUME NEW x \in Number, NEW y \in Number, CopyNumber(x, y) \/ MoveNumber(x, y)
        PROVE  stack' = stack /\ pc' = pc /\ default' = default /\ asked' = asked
    BY <2>3 DEF CopyNumber, MoveNumber, history
  <2>4. CASE UNCHANGED <<vars, history>>
    BY <2>4 DEF vars, history
  <2>5. ASSUME Continue \/ DivideByZero
        PROVE  /\ stack' = stack /\ default' = default /\ asked' = asked
               /\ \/ pc' = "idle" /\ pc \in {"returned", "threw"}
                  \/ pc' = "throwing" /\ pc = "running"
    BY <2>5 DEF Continue, DivideByZero, Does, history
  <2> QED BY <2>1, <2>2, <2>3, <2>4, <2>5
<1>2. /\ num' = [x \in Object |-> num'[x]] /\ \A t \in Temporary : num'[t] = num[t]
  <2>1. \/ num' = num \/ \E x \in Number : \E v : num' = [num EXCEPT ![x] = v]
        \/ \E x, y \in Number : num' = Moved(x, y)
    BY DEF SetDefault, SetPrecision, CopyNumber, MoveNumber, Continue, DivideByZero, vars
  <2> QED BY <2>1, PrecisionAssumption DEF IInv, Owned, Object, Temporary, Moved
<1>3. Stacked(stack') /\ Owned(stack', num')
  BY <1>1, <1>2 DEF IInv, Owned
<1>4. Chained(stack', default', asked')
  BY <1>1, EmptySeq DEF IInv, Chained
<1> QED BY <1>1, <1>3, <1>4 DEF IInv

\* At the start
LEMMA InitHolds == Init => IInv
<1> SUFFICES ASSUME Init PROVE IInv
  OBVIOUS
<1>1. stack = <<>> /\ Len(stack) = 0 /\ pc = "idle" /\ default = asked
  BY DEF Init
<1>2. Stacked(stack) /\ Chained(stack, default, asked)
  BY <1>1, EmptySeq DEF Stacked, Chained, Sequence
<1>3. Owned(stack, num)
  BY PrecisionAssumption DEF Init, Owned, Object, Temporary
<1> QED BY <1>1, <1>2, <1>3 DEF IInv

\* Every step preserves the invariant.
LEMMA NextKeeps == IInv /\ [Next]_<<vars, history>> => IInv'
<1> SUFFICES ASSUME IInv, [Next]_<<vars, history>> PROVE IInv'
  OBVIOUS
<1>1. CASE \E a \in Assignments : Assign(a)
  BY <1>1, AssignKeeps
<1>2. CASE Step /\ ~DivideByZero
  BY <1>2, EvaluateKeeps, TransferKeeps, ConstructKeeps, DestroyKeeps, EndKeeps DEF Step
<1> QED BY <1>1, <1>2, ProgramKeeps DEF Next, Step

\* However deeply assignments construct temporaries for one another, for every
\* expression, and wherever an exception leaves them: when the outermost has ended, the
\* default precision is the one that the program has chosen, and no temporary is left.
THEOREM DefaultIsRestored == Spec => []DefaultRestored
<1>1. IInv => DefaultRestored
  <2>1. Len(<<>>) = 0 /\ 1..0 = {}
    OBVIOUS
  <2> QED BY <2>1 DEF IInv, Chained, Owned, DefaultRestored
<1> QED BY <1>1, InitHolds, NextKeeps, PTL DEF Spec

----------------------------------------------------------------------------
(* Why operator= of a number with another precision, which constructs a    *)
(* temporary whose operator= may construct a temporary, ends.  The guard   *)
(* has chosen the precision of the expression before the temporary is      *)
(* constructed, so that the temporary has it.  The invariant says in which *)
(* of four states each of the running assignments can be.                  *)

\* A call that is given a part of the program's expressions, or a temporary
Simple(c) ==
  /\ c.run # "move"
  /\ c.run = "call" => c.of \in Expression \/ IsNumber(c.of)
  /\ c.run = "construct" => c.of \in Expression

\* There is nothing to move, ...
Plain(s) == Sequence(s) /\ \A k \in 1..Len(s) : Simple(s[k])

\* ... the temporary is complete and is moved from next, ...
Moves(s) == Sequence(s) /\ Len(s) = 2 /\ s[1].run = "move" /\ s[2].run = "destroy"

\* ... or it is still to be constructed from an expression of these numbers.
Constructs(s, numbers) ==
  /\ Sequence(s) /\ Len(s) = 3
  /\ s[1].run = "construct" /\ s[1].of \in Expression /\ s[1].of.numbers = numbers
  /\ s[2].run = "move" /\ s[3].run = "destroy"

\* Then the guard has chosen the precision of that expression, and nothing has
\* changed it.
Begins(s) == \E ns \in SUBSET Number : Constructs(s, ns) /\ Largest(ns) = default

\* ... which is so after the step.
BeginsNow(s) == \E ns \in SUBSET Number : Constructs(s, ns) /\ Largest(ns)' = default'

\* One that moves waits for one that does not.
TInv ==
  /\ \A i \in 1..Len(stack) :
       Plain(stack[i].todo) \/ Moves(stack[i].todo) \/ (i = Len(stack) /\ Begins(stack[i].todo))
  /\ \A i, j \in 1..Len(stack) : j = i + 1 => Plain(stack[i].todo) \/ Plain(stack[j].todo)

----------------------------------------------------------------------------
(* Sequences of calls. *)

\* Two plain sequences are one.
LEMMA PlainJoin ==
  ASSUME NEW a, NEW b, Plain(a), Plain(b)
  PROVE  Plain(a \o b)
<1> DEFINE n == Len(a)
           c == a \o b
<1>1. /\ Sequence(c) /\ n \in Nat /\ Len(b) \in Nat /\ Len(c) = n + Len(b)
      /\ \A k \in 1..n + Len(b) : c[k] = IF k <= n THEN a[k] ELSE b[k - n]
  BY SequencesJoin DEF Plain
<1>2. (\A k \in 1..n : Simple(a[k])) /\ (\A k \in 1..Len(b) : Simple(b[k]))
  BY DEF Plain
<1> HIDE DEF n, c
<1>3. ASSUME NEW k \in 1..Len(c)
      PROVE  Simple(c[k])
  <2>1. CASE k <= n
    <3>1. k \in 1..n /\ c[k] = a[k]
      BY <1>1, <2>1
    <3> QED BY <1>2, <3>1
  <2>2. CASE ~(k <= n)
    <3>1. k - n \in 1..Len(b) /\ c[k] = b[k - n]
      BY <1>1, <2>2
    <3> QED BY <1>2, <3>1
  <2> QED BY <2>1, <2>2
<1> QED BY <1>1, <1>3 DEF Plain, c

\* The first call has been made.
LEMMA TailOf ==
  ASSUME NEW s, Sequence(s), s # <<>>
  PROVE  /\ Sequence(Tail(s)) /\ Head(s) = s[1] /\ Len(s) \in Nat \ {0}
         /\ Len(Tail(s)) = Len(s) - 1 /\ \A k \in 1..Len(Tail(s)) : Tail(s)[k] = s[k + 1]
<1>1. PICK S : s \in Seq(S)
  BY DEF Sequence
<1> QED BY <1>1, HeadTailProperties, EmptySeq DEF Sequence

\* What is left after the first call
LEMMA AfterCall ==
  ASSUME NEW s, s # <<>>
  PROVE  /\ Plain(s) => Plain(Tail(s)) /\ Simple(Head(s))
         /\ Moves(s) => Plain(Tail(s)) /\ Head(s).run = "move"
         /\ \A ns : Constructs(s, ns) =>
              /\ Moves(Tail(s)) /\ Head(s).run = "construct"
              /\ Head(s).of \in Expression /\ Head(s).of.numbers = ns
<1> DEFINE b == Tail(s)
<1>1. ASSUME Sequence(s)
      PROVE  /\ Sequence(b) /\ Head(s) = s[1] /\ Len(s) \in Nat \ {0}
             /\ Len(b) = Len(s) - 1 /\ \A k \in 1..Len(b) : b[k] = s[k + 1]
  BY <1>1, TailOf
<1> HIDE DEF b
<1>2. ASSUME Plain(s)
      PROVE  Plain(b) /\ Simple(Head(s))
  <2>1. \A k \in 1..Len(b) : k + 1 \in 1..Len(s) /\ b[k] = s[k + 1]
    BY <1>1, <1>2 DEF Plain
  <2>2. 1 \in 1..Len(s) /\ Head(s) = s[1] /\ Sequence(b)
    BY <1>1, <1>2 DEF Plain
  <2> QED BY <1>2, <2>1, <2>2 DEF Plain
<1>3. ASSUME Moves(s)
      PROVE  Plain(b) /\ Head(s).run = "move"
  <2>1. Sequence(b) /\ Len(b) = 1 /\ b[1] = s[2] /\ Head(s) = s[1]
    BY <1>1, <1>3 DEF Moves
  <2>2. Simple(b[1]) /\ \A k \in 1..1 : k = 1
    BY <1>3, <2>1 DEF Moves, Simple
  <2>3. Plain(b)
    BY <2>1, <2>2 DEF Plain
  <2> QED BY <1>3, <2>1, <2>3 DEF Moves
<1>4. ASSUME NEW ns, Constructs(s, ns)
      PROVE  Moves(b) /\ Head(s) = s[1]
  <2>1. Sequence(b) /\ Len(b) = 2 /\ b[1] = s[2] /\ b[2] = s[3] /\ Head(s) = s[1]
    BY <1>1, <1>4 DEF Constructs
  <2> QED BY <1>4, <2>1 DEF Constructs, Moves
<1> QED BY <1>2, <1>3, <1>4 DEF Constructs, b

\* A frame that is plain has no move, and neither is empty.
LEMMA Apart ==
  ASSUME NEW s
  PROVE  /\ Plain(s) => \A k \in DOMAIN s : s[k].run # "move"
         /\ Moves(s) => s # <<>>
         /\ \A ns : Constructs(s, ns) => s # <<>>
<1>1. ASSUME Plain(s), NEW k \in DOMAIN s
      PROVE  s[k].run # "move"
  <2>1. DOMAIN s = 1..Len(s)
    BY <1>1, LenProperties DEF Plain, Sequence
  <2> QED BY <1>1, <2>1 DEF Plain, Simple
<1>2. Len(<<>>) = 0
  OBVIOUS
<1> QED BY <1>1, <1>2 DEF Moves, Constructs

----------------------------------------------------------------------------
(* What the functions leave to do. *)

\* Short sequences
LEMMA PlainFew ==
  /\ Plain(<<>>)
  /\ \A c : Simple(c) => Plain(<<c>>)
  /\ \A c, d : Simple(c) /\ Simple(d) => Plain(<<c, d>>)
<1>1. Plain(<<>>)
  BY EmptySeq DEF Plain, Sequence
<1>2. ASSUME NEW c, Simple(c)
      PROVE  Plain(<<c>>)
  <2> DEFINE s == <<c>>
  <2>1. s \in Seq({c}) /\ Len(s) = 1 /\ \A k \in 1..1 : s[k] = c
    OBVIOUS
  <2> HIDE DEF s
  <2>2. Plain(s)
    BY <1>2, <2>1 DEF Plain, Sequence
  <2> QED BY <2>2 DEF s
<1>3. ASSUME NEW c, NEW d, Simple(c), Simple(d)
      PROVE  Plain(<<c, d>>)
  <2> DEFINE s == <<c, d>>
  <2>1. s \in Seq({c, d}) /\ Len(s) = 2 /\ s[1] = c /\ s[2] = d
    OBVIOUS
  <2> HIDE DEF s
  <2>2. \A k \in 1..2 : s[k] = c \/ s[k] = d
    BY <2>1
  <2>3. Plain(s)
    BY <1>3, <2>1, <2>2 DEF Plain, Sequence
  <2> QED BY <2>3 DEF s
<1> QED BY <1>1, <1>2, <1>3

\* The calls that the functions consist of
LEMMA SimpleCalls ==
  ASSUME NEW s, NEW t
  PROVE  /\ \A f, e : e \in Expression \/ IsNumber(e) => Simple(Call(f, s, e))
         /\ \A f : Simple(Call(f, s, terminal(t)))
         /\ \A op, xs : Simple(Eval(op, s, xs))
         /\ Simple(Promote(s))
         /\ \A x : Simple(Copy(s, x))
         /\ \A e \in Expression : Simple(Construct(t, e))
         /\ Simple(SwapWith(s, t)) /\ Simple(Destroy(t))
<1>1. \A e, f : Call(f, s, e).run = "call" /\ Call(f, s, e).of = e
  BY DEF Call
<1>2. IsNumber(terminal(t))
  BY DEF IsNumber, terminal
<1>3. \A op, xs : Eval(op, s, xs).run = "eval"
  BY DEF Eval
<1>4. /\ Promote(s).run = "promote" /\ \A x : Copy(s, x).run = "copy"
      /\ SwapWith(s, t).run = "swap" /\ Destroy(t).run = "destroy"
  BY DEF Promote, Copy, SwapWith, Destroy
<1>5. \A e : Construct(t, e).run = "construct" /\ Construct(t, e).of = e
  BY DEF Construct
<1> QED BY <1>1, <1>2, <1>3, <1>4, <1>5 DEF Simple

\* self_type temp(e)
LEMMA TempPlain ==
  ASSUME NEW t, NEW e \in Expression, NEW c, Simple(c)
  PROVE  Plain(Temp(t, e, <<c>>))
<1>1. Simple(Construct(t, e)) /\ Simple(Destroy(t))
  BY SimpleCalls
<1>2. Plain(<<Construct(t, e)>>) /\ Plain(<<c>>) /\ Plain(<<Destroy(t)>>)
  BY <1>1, PlainFew
<1>3. Plain(<<Construct(t, e)>> \o <<c>>)
  BY <1>2, PlainJoin
<1>4. Plain((<<Construct(t, e)>> \o <<c>>) \o <<Destroy(t)>>)
  BY <1>2, <1>3, PlainJoin
<1> QED BY <1>4 DEF Temp

\* The parts that several functions share
LEMMA PartsPlain ==
  ASSUME NEW t, NEW s
  PROVE  /\ Plain(<<>>)
         /\ \A f, e : e \in Expression \/ IsNumber(e) => Plain(<<Call(f, s, e)>>)
         /\ \A x : Plain(<<Copy(s, x)>>)
         /\ \A op, xs : Plain(<<Eval(op, s, xs)>>) /\ Plain(Operate(op, s, xs))
         /\ \A f, g : \A d, e \in Expression : Plain(<<Call(f, s, d), Call(g, s, e)>>)
         /\ \A f : \A e \in Expression : Plain(<<Promote(s), Call(f, s, e)>>)
         /\ \A e \in Expression : Plain(Temp(t, e, <<SwapWith(s, t)>>))
         /\ \A f : \A e \in Expression : Plain(Temp(t, e, <<Call(f, s, terminal(t))>>))
         /\ \A op, xs : \A e \in Expression :
              Plain(<<Promote(s)>> \o Temp(t, e, <<Eval(op, s, xs)>>))
         /\ \A f : \A e \in Expression : Plain(Unknown(f, s, e, t))
         /\ \A op : \A e \in Expression : Plain(UnknownFactor(op, s, e, t))
<1>1. /\ Plain(<<>>)
      /\ \A f, e : e \in Expression \/ IsNumber(e) => Plain(<<Call(f, s, e)>>)
      /\ \A x : Plain(<<Copy(s, x)>>)
      /\ \A op, xs : Plain(<<Eval(op, s, xs)>>)
      /\ Plain(<<Promote(s)>>)
  BY SimpleCalls, PlainFew
<1>2. /\ \A op, xs : Plain(Operate(op, s, xs))
      /\ \A f, g : \A d, e \in Expression : Plain(<<Call(f, s, d), Call(g, s, e)>>)
      /\ \A f : \A e \in Expression : Plain(<<Promote(s), Call(f, s, e)>>)
  BY SimpleCalls, PlainFew DEF Operate
<1>3. /\ \A e \in Expression : Plain(Temp(t, e, <<SwapWith(s, t)>>))
      /\ \A f : \A e \in Expression : Plain(Temp(t, e, <<Call(f, s, terminal(t))>>))
      /\ \A op, xs : \A e \in Expression : Plain(Temp(t, e, <<Eval(op, s, xs)>>))
  BY SimpleCalls, TempPlain
<1>4. \A op, xs : \A e \in Expression :
        Plain(<<Promote(s)>> \o Temp(t, e, <<Eval(op, s, xs)>>))
  BY <1>1, <1>3, PlainJoin
<1>5. /\ \A f : \A e \in Expression : Plain(Unknown(f, s, e, t))
      /\ \A op : \A e \in Expression : Plain(UnknownFactor(op, s, e, t))
  BY <1>3, <1>4 DEF Unknown, UnknownFactor
<1> QED BY <1>1, <1>2, <1>3, <1>4, <1>5

\* The operands of an expression of the program are expressions of the program.
LEMMA OperandsInExpression ==
  ASSUME NEW e \in Expression
  PROVE  e.numbers \subseteq Number
         /\ (~IsNumber(e) => left(e) \in Expression /\ right(e) \in Expression)
<1>1. ASSUME ~IsNumber(e)
      PROVE  e.subs[1] \in Expression /\ e.subs[Len(e.subs)] \in Expression
  <2>1. e.subs \in Seq(Expression) /\ e.subs # <<>>
    BY <1>1, ExpressionAssumption
  <2>2. Len(e.subs) \in Nat \ {0}
    BY <2>1, EmptySeq, LenProperties
  <2>3. 1 \in 1..Len(e.subs) /\ Len(e.subs) \in 1..Len(e.subs)
    BY <2>2
  <2> QED BY <2>1, <2>3, ElementOfSeq
<1> QED BY <1>1, ExpressionAssumption DEF left, right

\* The functions of number.hpp, for a number or an expression of the program
LEMMA BodyPlain ==
  ASSUME NEW f, NEW s, NEW t, NEW e, e \in Expression \/ IsNumber(e)
  PROVE  Plain(Body(f, s, e, t))
<1>1. CASE IsNumber(e)
  <2>1. Plain(do_assign(s, e, t))
    BY <1>1, PartsPlain DEF do_assign, IsNumber, IsNegated
  <2>2. Plain(do_add(s, e, t)) /\ Plain(do_subtract(s, e, t))
    BY <1>1, PartsPlain DEF do_add, do_subtract, IsNumber, IsNegated
  <2>3. Plain(do_multiplies(s, e, t)) /\ Plain(do_divide(s, e, t))
    BY <1>1, PartsPlain DEF do_multiplies, do_divide, IsNumber, IsNegated
  <2> QED BY <2>1, <2>2, <2>3 DEF Body
<1>2. CASE ~IsNumber(e)
  <2>1. e \in Expression /\ left(e) \in Expression /\ right(e) \in Expression
    BY <1>2, OperandsInExpression
  <2>2. \A g, h : Plain(Both(g, h, s, e))
    BY <2>1, PartsPlain DEF Both
  <2>3. Plain(do_assign(s, e, t))
    <3>1. Plain(assign_sum(s, e, t))
      BY <2>1, <2>2, PartsPlain DEF assign_sum
    <3>2. Plain(assign_quotient(s, e, t))
      BY <2>1, <2>2, PartsPlain DEF assign_quotient
    <3> QED BY <1>2, <2>1, <3>1, <3>2, PartsPlain DEF do_assign
  <2>4. Plain(do_add(s, e, t))
    BY <1>2, <2>1, <2>2, PartsPlain DEF do_add
  <2>5. Plain(do_subtract(s, e, t))
    BY <1>2, <2>1, <2>2, PartsPlain DEF do_subtract
  <2>6. Plain(do_multiplies(s, e, t))
    BY <1>2, <2>1, <2>2, PartsPlain DEF do_multiplies
  <2>7. Plain(do_divide(s, e, t))
    BY <1>2, <2>1, <2>2, PartsPlain DEF do_divide
  <2> QED BY <2>3, <2>4, <2>5, <2>6, <2>7 DEF Body
<1> QED BY <1>1, <1>2

----------------------------------------------------------------------------
(* The assignment operators. *)

\* The numbers of an expression of one or two operands
LEMMA ExpressionNumbers ==
  ASSUME NEW tag
  PROVE  /\ \A a : expression(tag, <<a>>).numbers = a.numbers
         /\ \A a, b : expression(tag, <<a, b>>).numbers = a.numbers \cup b.numbers
<1>1. ASSUME NEW a
      PROVE  expression(tag, <<a>>).numbers = a.numbers
  <2>1. DOMAIN <<a>> = {1} /\ <<a>>[1] = a
    OBVIOUS
  <2> QED BY <2>1 DEF expression
<1>2. ASSUME NEW a, NEW b
      PROVE  expression(tag, <<a, b>>).numbers = a.numbers \cup b.numbers
  <2>1. DOMAIN <<a, b>> = {1, 2} /\ <<a, b>>[1] = a /\ <<a, b>>[2] = b
    OBVIOUS
  <2> QED BY <2>1 DEF expression
<1> QED BY <1>1, <1>2

\* The numbers of a product to which a number is added
LEMMA ProductNumbers ==
  ASSUME NEW e \in Expression, IsProduct(e), NEW tag, NEW s
  PROVE  expression(tag, e.subs \o <<terminal(s)>>).numbers = {s} \cup e.numbers
<1> DEFINE n == Len(e.subs)
           c == e.subs \o <<terminal(s)>>
<1>1. e.subs \in Seq(Expression) /\ e.numbers = UNION {e.subs[k].numbers : k \in DOMAIN e.subs}
  BY ExpressionAssumption DEF IsProduct, IsNumber
<1>2. n \in Nat /\ DOMAIN e.subs = 1..n
  BY <1>1, LenProperties
<1>3. /\ DOMAIN c = 1..n + 1 /\ c[n + 1] = terminal(s)
      /\ \A k \in 1..n : c[k] = e.subs[k]
  <2>1. Sequence(e.subs) /\ Sequence(<<terminal(s)>>) /\ Len(<<terminal(s)>>) = 1
        /\ <<terminal(s)>>[1] = terminal(s)
    <3>1. <<terminal(s)>> \in Seq({terminal(s)})
      OBVIOUS
    <3> QED BY <1>1, <3>1 DEF Sequence
  <2>2. /\ Sequence(c) /\ Len(c) = n + 1
        /\ \A k \in 1..n + 1 : c[k] = IF k <= n THEN e.subs[k] ELSE <<terminal(s)>>[k - n]
    BY <2>1, SequencesJoin
  <2>3. DOMAIN c = 1..n + 1
    BY <2>2, LenProperties DEF Sequence
  <2> HIDE DEF n, c
  <2>4. n + 1 \in 1..n + 1 /\ ~(n + 1 <= n) /\ (n + 1) - n = 1
        /\ \A k \in 1..n : k \in 1..n + 1 /\ k <= n
    BY <1>2
  <2> QED BY <2>1, <2>2, <2>3, <2>4
<1>4. UNION {c[k].numbers : k \in DOMAIN c}
      = terminal(s).numbers \cup UNION {e.subs[k].numbers : k \in DOMAIN e.subs}
  <2> HIDE DEF n, c
  <2>1. 1..n + 1 = 1..n \cup {n + 1}
    BY <1>2
  <2> QED BY <1>2, <1>3, <2>1
<1>5. terminal(s).numbers = {s}
  BY DEF terminal
<1>6. expression(tag, c).numbers = UNION {c[k].numbers : k \in DOMAIN c}
  BY DEF expression
<1> QED BY <1>1, <1>4, <1>5, <1>6

\* x op e for a number e, or x + e and x - e for a product of two
LEMMA OperandNumbers ==
  ASSUME NEW f, NEW s, NEW e \in Expression,
         IsNumber(e) \/ (f \in {"plus", "minus"} /\ IsProduct(e))
  PROVE  operator2(f, terminal(s), e).numbers = {s} \cup e.numbers
<1> DEFINE a == terminal(s)
<1>1. IsNumber(a) /\ ~IsProduct(a) /\ ~IsNegated(a) /\ ~IsNegatedNumber(a) /\ a.numbers = {s}
  BY DEF terminal, IsNumber, IsProduct, IsNegated, IsNegatedNumber
<1>2. CASE IsNumber(e)
  <2>1. ~IsProduct(e) /\ ~IsNegated(e)
    BY <1>2 DEF IsNumber, IsProduct, IsNegated
  <2>2. \A op : binary(op, a, e).numbers = {s} \cup e.numbers
    BY <1>1, ExpressionNumbers DEF binary
  <2> HIDE DEF a
  <2>3. /\ operatorPlus(a, e) = binary("plus", a, e) /\ operatorMinus(a, e) = binary("minus", a, e)
        /\ operatorTimes(a, e) = binary("multiplies", a, e)
        /\ operatorDivide(a, e) = binary("divides", a, e)
    BY <1>1, <2>1 DEF operatorPlus, operatorMinus, operatorTimes, operatorDivide
  <2>4. \E op : operator2(f, a, e) = binary(op, a, e)
    BY <2>3 DEF operator2
  <2> QED BY <2>2, <2>4 DEF a
<1>3. CASE f \in {"plus", "minus"} /\ IsProduct(e)
  <2>1. ~IsNumber(e) /\ ~IsNegated(e)
    BY <1>3 DEF IsNumber, IsProduct, IsNegated
  <2>2. operatorPlus(a, e) = expression("multiply_add", e.subs \o <<a>>)
    BY <1>1, <1>3, <2>1 DEF operatorPlus
  <2>3. operatorMinus(a, e) = minus_(expression("multiply_subtract", e.subs \o <<a>>))
    BY <1>1, <1>3, <2>1 DEF operatorMinus
  <2>4. \A tag : expression(tag, e.subs \o <<a>>).numbers = {s} \cup e.numbers
    BY <1>3, ProductNumbers
  <2>5. operatorMinus(a, e).numbers = {s} \cup e.numbers
    BY <2>3, <2>4, ExpressionNumbers DEF minus_
  <2> QED BY <1>3, <2>2, <2>4, <2>5 DEF operator2
<1> QED BY <1>2, <1>3

\* number t(e), moved to its target
LEMMA ByTemporaryConstructs ==
  ASSUME NEW s, NEW e \in Expression, NEW t
  PROVE  Constructs(ByTemporary(s, e, t), e.numbers)
<1> DEFINE b == <<Construct(t, e), MoveFrom(s, t), Destroy(t)>>
<1>1. /\ b \in Seq({Construct(t, e), MoveFrom(s, t), Destroy(t)}) /\ Len(b) = 3
      /\ b[1] = Construct(t, e) /\ b[2] = MoveFrom(s, t) /\ b[3] = Destroy(t)
  OBVIOUS
<1>2. b = ByTemporary(s, e, t)
  BY DEF ByTemporary
<1>3. /\ Construct(t, e).run = "construct" /\ Construct(t, e).of = e
      /\ MoveFrom(s, t).run = "move" /\ Destroy(t).run = "destroy"
  BY DEF Construct, MoveFrom, Destroy
<1> HIDE DEF b
<1> QED BY <1>1, <1>2, <1>3 DEF Constructs, Sequence

\* The assignment operators construct a temporary to move from only if the precision
\* is another one, from all the numbers that it was chosen by.
LEMMA AssignmentPlain ==
  ASSUME NEW f, NEW s, NEW t, NEW other, NEW e \in Expression,
         f # "assign" => operator2(f, terminal(s), e) \in Expression
  PROVE  \/ Plain(operator_assign(f, s, e, t, other))
         \/ other /\ Constructs(operator_assign(f, s, e, t, other),
                               IF f = "assign" THEN e.numbers ELSE {s} \cup e.numbers)
<1> DEFINE body == operator_assign(f, s, e, t, other)
<1>1. CASE f = "assign"
  <2>1. body = IF other THEN ByTemporary(s, e, t) ELSE <<Call("assign", s, e)>>
    BY <1>1 DEF operator_assign
  <2> HIDE DEF body
  <2>2. Plain(<<Call("assign", s, e)>>) /\ Constructs(ByTemporary(s, e, t), e.numbers)
    BY PartsPlain, ByTemporaryConstructs
  <2>3. CASE other
    BY <1>1, <2>1, <2>2, <2>3 DEF body
  <2>4. CASE ~other
    BY <1>1, <2>1, <2>2, <2>4 DEF body
  <2> QED BY <2>3, <2>4
<1>2. CASE f # "assign" /\ (IsNumber(e) \/ (f \in {"plus", "minus"} /\ IsProduct(e)))
  <2> DEFINE w == operator2(f, terminal(s), e)
  <2>1. w \in Expression /\ w.numbers = {s} \cup e.numbers
    BY <1>2, OperandNumbers
  <2>2. \/ other /\ body = ByTemporary(s, w, t)
        \/ body = <<Call(f, s, e)>> \/ body = <<Eval(f, s, {s} \cup e.numbers)>>
    BY <1>2 DEF operator_assign
  <2> HIDE DEF w, body
  <2>3. Constructs(ByTemporary(s, w, t), w.numbers)
    BY <2>1, ByTemporaryConstructs
  <2>4. Plain(<<Call(f, s, e)>>) /\ Plain(<<Eval(f, s, {s} \cup e.numbers)>>)
    BY PartsPlain
  <2> QED BY <1>2, <2>1, <2>2, <2>3, <2>4 DEF body
<1>3. CASE f # "assign" /\ ~(IsNumber(e) \/ (f \in {"plus", "minus"} /\ IsProduct(e)))
  <2>1. \/ body = Temp(t, e, <<Call(f, s, terminal(t))>>) \/ body = <<Call(f, s, e)>>
    BY <1>3 DEF operator_assign
  <2> HIDE DEF body
  <2>2. Plain(Temp(t, e, <<Call(f, s, terminal(t))>>)) /\ Plain(<<Call(f, s, e)>>)
    BY PartsPlain
  <2> QED BY <2>1, <2>2 DEF body
<1> QED BY <1>1, <1>2, <1>3

----------------------------------------------------------------------------
(* The steps. *)

\* What the last assignment has left, when it has made a call that stands for cs
LEMMA AdvancedTodo ==
  ASSUME NEW st, NEW cs, Stacked(st), st # <<>>
  PROVE  Advanced(st, cs)[Len(st)].todo = cs \o Tail(st[Len(st)].todo)
<1> DEFINE n == Len(st)
           r == st[n]
           s == cs \o Tail(r.todo)
<1>1. n \in 1..n /\ DOMAIN st = 1..n
  BY SequenceLength, LenProperties DEF Stacked, Sequence
<1>2. r = [old |-> r.old, new |-> r.new, todo |-> r.todo]
  BY <1>1 DEF Stacked, IsFrame
<1>3. [r EXCEPT !.todo = s] = [old |-> r.old, new |-> r.new, todo |-> s]
  <2> HIDE DEF r, s
  <2> QED BY <1>2, FrameExcept
<1>4. Advanced(st, cs)[n] = [r EXCEPT !.todo = s]
  <2>1. Advanced(st, cs) = [st EXCEPT ![n] = [r EXCEPT !.todo = s]]
    BY DEF Advanced
  <2> HIDE DEF r, s, n
  <2> QED BY <1>1, <2>1
<1> HIDE DEF r, s, n
<1> QED BY <1>3, <1>4 DEF r, s, n

\* What the last assignment has to do next
LEMMA TopState ==
  ASSUME IInv, TInv, pc = "running", top.todo # <<>>
  PROVE  /\ Len(stack) \in Nat /\ Len(stack) \in 1..Len(stack) /\ Stacked(stack)
         /\ stack # <<>> /\ top = stack[Len(stack)] /\ Orderly(<<>>, Len(stack))
         /\ \/ Plain(top.todo) /\ Plain(Tail(top.todo)) /\ Simple(next)
            \/ Moves(top.todo) /\ Plain(Tail(top.todo)) /\ next.run = "move"
            \/ Begins(top.todo) /\ next.run = "construct"
<1>1. /\ Len(stack) \in Nat /\ Len(stack) \in 1..Len(stack) /\ stack # <<>>
      /\ Orderly(<<>>, Len(stack))
  BY NextItem
<1>2. Stacked(stack) /\ top = stack[Len(stack)]
  BY DEF IInv, top
<1>3. Plain(top.todo) \/ Moves(top.todo) \/ Begins(top.todo)
  BY <1>1, <1>2 DEF TInv
<1> QED BY <1>1, <1>2, <1>3, AfterCall DEF next, Begins

\* A call that makes no temporary leaves nothing to move.
LEMMA CallPlain ==
  ASSUME IInv, TInv, pc = "running", top.todo # <<>>, next.run # "construct",
         NEW cs, Orderly(cs, Len(stack)), Plain(cs), stack' = Then(cs)
  PROVE  TInv'
<1> DEFINE n == Len(stack)
<1>1. n \in Nat /\ n \in 1..n /\ Stacked(stack) /\ stack # <<>> /\ top = stack[n]
      /\ Plain(Tail(top.todo))
  BY TopState
<1>2. stack' = Advanced(stack, cs)
  BY DEF Then, Advanced
<1>3. Len(stack') = n /\ \A i \in 1..n : i # n => stack'[i] = stack[i]
  BY <1>1, <1>2, AdvancedStack
<1>4. stack'[n].todo = cs \o Tail(top.todo)
  BY <1>1, <1>2, AdvancedTodo
<1>5. Plain(stack'[n].todo)
  BY <1>1, <1>4, PlainJoin
<1> HIDE DEF n
<1>6. ASSUME NEW i \in 1..n
      PROVE  Plain(stack'[i].todo) \/ Moves(stack'[i].todo)
  <2>1. CASE i = n
    BY <1>5, <2>1
  <2>2. CASE i # n
    BY <1>3, <2>2 DEF TInv, n
  <2> QED BY <2>1, <2>2
<1>7. ASSUME NEW i \in 1..n, NEW j \in 1..n, j = i + 1
      PROVE  Plain(stack'[i].todo) \/ Plain(stack'[j].todo)
  <2>1. CASE j = n
    BY <1>5, <2>1
  <2>2. CASE j # n
    <3>1. i # n
      BY <1>1, <1>7
    <3>2. stack'[i] = stack[i] /\ stack'[j] = stack[j]
      BY <1>3, <2>2, <3>1
    <3>3. Plain(stack[i].todo) \/ Plain(stack[j].todo)
      BY <1>7 DEF TInv, n
    <3> QED BY <3>2, <3>3
  <2> QED BY <2>1, <2>2
<1> QED BY <1>3, <1>6, <1>7 DEF TInv

\* The steps in which the last assignment goes on, but for those that construct
LEMMA StepPlain ==
  ASSUME IInv, TInv,
         \/ Enter \/ maybe_promote_precision \/ Compute \/ ComputeFunction \/ CopyOperand
         \/ MoveTemporary \/ SwapTemporary \/ DestroyTemporary
  PROVE  TInv'
<1>1. pc = "running" /\ top.todo # <<>> /\ next.run # "construct"
  BY DEF Enter, maybe_promote_precision, Compute, ComputeFunction, CopyOperand,
         MoveTemporary, SwapTemporary, DestroyTemporary, Does
<1>2. CASE Enter
  <2> DEFINE cs == Body(next.op, next.on, next.of, Len(stack))
  <2>1. next.run = "call" /\ stack' = Then(cs)
    BY <1>2 DEF Enter, Does
  <2>2. Orderly(cs, Len(stack))
    BY <1>1, <2>1, NextItem, BodyOrderly DEF Item
  <2>3. next.of \in Expression \/ IsNumber(next.of)
    BY <1>1, <2>1, TopState DEF Simple
  <2>4. Plain(cs)
    BY <2>3, BodyPlain
  <2> HIDE DEF cs
  <2> QED BY <1>1, <2>1, <2>2, <2>4, CallPlain
<1>3. CASE ~Enter
  <2>1. stack' = Then(<<>>)
    BY <1>3 DEF maybe_promote_precision, Compute, ComputeFunction, CopyOperand,
                MoveTemporary, SwapTemporary, DestroyTemporary
  <2> QED BY <1>1, <2>1, TopState, PlainFew, CallPlain
<1> QED BY <1>2, <1>3

\* An assignment ends: the one before it is waiting, and has constructed its temporary.
LEMMA EndPlain ==
  ASSUME IInv, TInv, Leave \/ Unwind
  PROVE  TInv'
<1> DEFINE n == Len(stack)
<1>1. stack # <<>> /\ stack' = SubSeq(stack, 1, n - 1)
  BY DEF Leave, Unwind, IInv
<1>2. n \in Nat /\ Len(stack') = n - 1 /\ \A i \in 1..n - 1 : stack'[i] = stack[i]
  BY <1>1, PoppedStack DEF IInv
<1>3. \A i \in 1..n - 1 : i \in 1..n /\ i # n
  BY <1>2
<1>4. \A i \in 1..n - 1 : Plain(stack'[i].todo) \/ Moves(stack'[i].todo)
  BY <1>2, <1>3 DEF TInv
<1>5. \A i, j \in 1..n - 1 : j = i + 1 => Plain(stack'[i].todo) \/ Plain(stack'[j].todo)
  BY <1>2, <1>3 DEF TInv
<1> HIDE DEF n
<1> QED BY <1>2, <1>4, <1>5 DEF TInv

\* The guard of an assignment has chosen the precision of the expression that the
\* temporary is constructed from.
LEMMA AssignPlain ==
  ASSUME IInv, NEW a \in Assignments, Assign(a)
  PROVE  TInv'
<1> DEFINE p == guard_precision(a.op, a.on, a.of)
           cs == operator_assign(a.op, a.on, a.of, 1, p # num[a.on].prec)
           r == [old |-> default, new |-> p, todo |-> cs]
<1>1. stack' = <<r>> /\ default' = p /\ num' = num
  BY DEF Assign, Guarded
<1>2. /\ a.of \in Expression
      /\ a.op # "assign" => operator2(a.op, terminal(a.on), a.of) \in Expression
  BY ExpressionAssumption
<1> PICK ns : ns = IF a.op = "assign" THEN a.of.numbers ELSE {a.on} \cup a.of.numbers
  OBVIOUS
<1>3. Plain(cs) \/ Constructs(cs, ns)
  BY <1>2, AssignmentPlain
<1>4. ns \in SUBSET Number
  BY <1>2, OperandsInExpression, PrecisionAssumption
<1>5. p = Largest(ns)
  BY DEF guard_precision, precision_of
<1> HIDE DEF p, cs
<1>6. Len(stack') = 1 /\ stack'[1].todo = cs
  BY <1>1
<1>7. Plain(cs) \/ BeginsNow(cs)
  <2>1. Largest(ns)' = Largest(ns)
    BY <1>1 DEF Largest
  <2> QED BY <1>1, <1>3, <1>4, <1>5, <2>1 DEF BeginsNow
<1>8. \A i, j \in 1..1 : i = 1 /\ j # i + 1
  OBVIOUS
<1> HIDE DEF r
<1>9. Plain(stack'[1].todo) \/ Begins(stack[1].todo)'
  BY <1>6, <1>7 DEF Begins, BeginsNow
<1> QED BY <1>6, <1>8, <1>9 DEF TInv

\* A temporary that is constructed to be moved from has the precision of its expression,
\* and is assigned to without another one.
LEMMA ConstructPlain ==
  ASSUME IInv, TInv, ConstructTemporary
  PROVE  TInv'
<1> DEFINE n == Len(stack)
           e == next.of
           p == precision_of(e)
           other == p # DefaultNumber(default).prec
           cs == operator_assign("assign", next.on, e, n + 1, other)
           r == [old |-> default, new |-> p, todo |-> cs]
           su == Advanced(stack, <<>>)
           left_ == Tail(top.todo)
<1>1. /\ pc = "running" /\ top.todo # <<>> /\ next.run = "construct" /\ n < MaxDepth
      /\ num' = [num EXCEPT ![next.on] = DefaultNumber(default)]
      /\ default' = p /\ stack' = Append(su, r)
  BY DEF ConstructTemporary, Does, Guarded, Then, Advanced, guard_precision
<1>2. /\ n \in Nat /\ n \in 1..n /\ Stacked(stack) /\ stack # <<>> /\ top = stack[n]
      /\ Orderly(<<>>, n)
      /\ \/ Plain(left_) /\ e \in Expression
         \/ Begins(top.todo)
  BY <1>1, TopState DEF Simple
<1>3. /\ Stacked(su) /\ Len(su) = n
      /\ \A i \in 1..n : i # n => su[i] = stack[i]
      /\ su[n].todo = left_
  <2>1. su[n].todo = <<>> \o left_
    BY <1>2, AdvancedTodo
  <2>2. Sequence(left_)
    BY <1>1, <1>2, OrderlyTail DEF Stacked, Orderly
  <2>3. <<>> \o left_ = left_
    BY <2>2, ConcatEmptySeq DEF Sequence
  <2> HIDE DEF left_
  <2> QED BY <1>1, <1>2, <2>1, <2>3, AdvancedStack
<1> HIDE DEF su, p, cs, left_, other
<1>4. /\ Len(stack') = n + 1 /\ stack'[n + 1].todo = cs
      /\ \A i \in 1..n : i # n => stack'[i] = stack[i]
      /\ stack'[n].todo = left_
  <2>1. PICK S : su \in Seq(S)
    BY <1>3 DEF Stacked, Sequence
  <2>2. su \in Seq(S \cup {r}) /\ r.todo = cs
    BY <2>1, SeqMonotonic
  <2> HIDE DEF r, n
  <2>3. /\ Len(stack') = n + 1 /\ stack'[n + 1] = r
        /\ \A i \in 1..n : stack'[i] = su[i]
    BY <1>1, <1>3, <2>2, AppendProperties
  <2> QED BY <1>2, <1>3, <2>2, <2>3
<1>5. /\ e \in Expression
      /\ \/ Plain(left_) /\ (Plain(cs) \/ BeginsNow(cs))
         \/ Moves(left_) /\ Plain(cs) /\ ~Plain(top.todo)
  <2>1. ASSUME e \in Expression
        PROVE  Plain(cs) \/ (other /\ Constructs(cs, e.numbers))
    BY <2>1, AssignmentPlain DEF cs
  <2>2. CASE Plain(left_) /\ e \in Expression
    <3>1. ASSUME Constructs(cs, e.numbers)
          PROVE  BeginsNow(cs)
      <4>1. PICK ns : ns = e.numbers
        OBVIOUS
      <4>2. ns \in SUBSET Number
        BY <2>2, <4>1, OperandsInExpression
      <4>3. next.on = n
        BY <1>1, NextItem DEF Item
      <4>4. \A x \in ns : num'[x] = num[x]
        <5>1. n \in 1..MaxDepth
          BY <1>1, <1>2, PrecisionAssumption
        <5>2. num = [x \in Object |-> num[x]]
          BY DEF IInv, Owned
        <5> QED BY <1>1, <4>2, <4>3, <5>1, <5>2, PrecisionAssumption DEF Object
      <4>5. {num'[x].prec : x \in ns} = {num[x].prec : x \in ns}
        BY <4>4
      <4>6. Max({num'[x].prec : x \in ns}) = default'
        BY <1>1, <4>1, <4>5 DEF p, precision_of, Largest
      <4>7. Largest(ns)' = default'
        BY <4>6 DEF Largest
      <4> HIDE DEF e
      <4> QED BY <3>1, <4>1, <4>2, <4>7 DEF BeginsNow
    <3> QED BY <2>1, <2>2, <3>1
  <2>3. CASE Begins(top.todo) /\ ~Plain(top.todo)
    <3>1. PICK ns \in SUBSET Number : Constructs(top.todo, ns) /\ Largest(ns) = default
      BY <2>3 DEF Begins
    <3>2. Moves(left_) /\ e \in Expression /\ e.numbers = ns
      BY <1>1, <3>1, AfterCall DEF left_, next
    <3>3. ~other
      BY <3>1, <3>2 DEF other, p, precision_of, DefaultNumber
    <3> QED BY <2>1, <2>3, <3>2, <3>3
  <2>4. CASE Plain(top.todo)
    <3>1. Plain(left_) /\ Simple(next)
      BY <1>1, <2>4, AfterCall DEF left_, next
    <3> QED BY <1>1, <2>2, <3>1 DEF Simple
  <2> QED BY <1>2, <2>2, <2>3, <2>4
<1> HIDE DEF n, e
<1>6. ASSUME NEW i \in 1..n + 1
      PROVE  \/ Plain(stack'[i].todo) \/ Moves(stack'[i].todo)
             \/ i = n + 1 /\ BeginsNow(stack'[i].todo)
  <2>1. CASE i = n + 1
    BY <1>4, <1>5, <2>1
  <2>2. CASE i = n
    BY <1>4, <1>5, <2>2
  <2>3. CASE i # n /\ i # n + 1
    <3>1. i \in 1..n
      BY <1>2, <2>3
    <3> QED BY <1>4, <2>3, <3>1 DEF TInv, n
  <2> QED BY <2>1, <2>2, <2>3
<1>7. ASSUME NEW i \in 1..n + 1, NEW j \in 1..n + 1, j = i + 1
      PROVE  Plain(stack'[i].todo) \/ Plain(stack'[j].todo)
  <2>1. CASE j = n + 1
    <3>1. i = n
      BY <1>2, <1>7, <2>1
    <3> QED BY <1>4, <1>5, <2>1, <3>1
  <2>2. CASE j # n + 1
    <3>1. i \in 1..n /\ j \in 1..n /\ i # n
      BY <1>2, <1>7, <2>2
    <3>2. stack'[i] = stack[i] /\ (Plain(stack[i].todo) \/ Plain(stack[j].todo))
      BY <1>4, <1>7, <3>1 DEF TInv, n
    <3>3. CASE j = n
      BY <1>2, <1>4, <1>5, <3>2, <3>3
    <3>4. CASE j # n
      BY <1>4, <3>1, <3>2, <3>4
    <3> QED BY <3>3, <3>4
  <2> QED BY <2>1, <2>2
<1> QED BY <1>4, <1>6, <1>7 DEF TInv, Begins, BeginsNow

\* Between assignments there is nothing to say, and a division by zero leaves what is
\* to do as it is.
LEMMA ProgramPlain ==
  ASSUME IInv, TInv,
         \/ \E p \in Precisions : SetDefault(p)
         \/ \E x \in Number, p \in Precisions : SetPrecision(x, p)
         \/ \E x, y \in Number : CopyNumber(x, y) \/ MoveNumber(x, y)
         \/ Continue \/ DivideByZero \/ UNCHANGED <<vars, history>>
  PROVE  TInv'
<1>1. CASE DivideByZero \/ UNCHANGED <<vars, history>>
  <2>1. stack' = stack /\ num' = num /\ default' = default
    BY <1>1 DEF DivideByZero, vars
  <2> QED BY <2>1, ZenonT(60) DEF TInv, Begins, Largest
<1>2. CASE ~(DivideByZero \/ UNCHANGED <<vars, history>>)
  <2>1. stack' = stack /\ stack = <<>>
    BY <1>2 DEF SetDefault, SetPrecision, CopyNumber, MoveNumber, Continue, IInv
  <2>2. Len(<<>>) = 0 /\ 1..0 = {}
    OBVIOUS
  <2> QED BY <2>1, <2>2 DEF TInv
<1> QED BY <1>1, <1>2

\* Every step preserves the invariant.
LEMMA NextPlain == IInv /\ TInv /\ [Next]_<<vars, history>> => TInv'
<1> SUFFICES ASSUME IInv, TInv, [Next]_<<vars, history>> PROVE TInv'
  OBVIOUS
<1>1. CASE \E a \in Assignments : Assign(a)
  BY <1>1, AssignPlain
<1>2. CASE Step /\ ~DivideByZero
  BY <1>2, StepPlain, ConstructPlain, EndPlain DEF Step
<1> QED BY <1>1, <1>2, ProgramPlain DEF Next, Step

\* At the start
LEMMA TailInit == Init => TInv
<1>1. Len(<<>>) = 0 /\ 1..0 = {}
  OBVIOUS
<1> QED BY <1>1 DEF Init, TInv

\* For all numbers, precisions and expressions: the temporary that operator= makes
\* because a number has another precision than the expression is never itself written
\* through such a temporary, so that assignments do not chase their tail.
THEOREM TailIsNotChased == Spec => []TailNotChased
<1>1. IInv /\ TInv => TailNotChased
  <2> SUFFICES ASSUME IInv, TInv, NEW i \in 2..Len(stack)
               PROVE  ~(ByMove(i - 1) /\ ByMove(i))
    BY DEF TailNotChased
  <2>1. Len(stack) \in Nat
    BY SequenceLength DEF IInv, Stacked
  <2>2. i - 1 \in 1..Len(stack) /\ i \in 1..Len(stack) /\ i = (i - 1) + 1
    BY <2>1
  <2>3. Plain(stack[i - 1].todo) \/ Plain(stack[i].todo)
    BY <2>2 DEF TInv
  <2> QED BY <2>3, Apart DEF ByMove
<1> QED BY <1>1, TailInit, InitHolds, NextKeeps, NextPlain, PTL DEF Spec

\* What precisions are
LEMMA DigitsAreNumbers == \A d \in Precisions \cup {0} : d \in Nat
BY PrecisionAssumption

\* A finite set of numbers that is not empty has a largest element: among the sets of
\* those that are no less than x, for an x in it, one contains no other.
LEMMA LargestElement ==
  ASSUME NEW S \in SUBSET Nat, IsFiniteSet(S), S # {}
  PROVE  Max(S) \in S /\ \A y \in S : y <= Max(S)
<1> DEFINE up(x) == {y \in S : y >= x}
           T == {up(x) : x \in S}
<1>1. T \subseteq FiniteSubsetsOf(S) /\ T # {}
  <2>1. ASSUME NEW x \in S
        PROVE  up(x) \in SUBSET S /\ IsFiniteSet(up(x))
    BY FS_Subset
  <2> QED BY <2>1 DEF FiniteSubsetsOf
<1>2. PICK U \in T : \A V \in T : ~(<<V, U>> \in StrictSubsetOrdering(S))
  <2>1. IsWellFoundedOn(StrictSubsetOrdering(S), FiniteSubsetsOf(S))
    BY FS_StrictSubsetOrderingWellFounded
  <2> HIDE DEF T
  <2> QED BY <1>1, <2>1, WFMin
<1>3. PICK x \in S : U = up(x)
  BY <1>2
<1>4. ASSUME NEW y \in S
      PROVE  x >= y
  <2>1. CASE y > x
    <3>1. up(y) \subseteq up(x) /\ x \in up(x) /\ x \notin up(y)
      <4>1. x \in Nat /\ y \in Nat /\ \A z \in S : z \in Nat
        OBVIOUS
      <4>2. \A z \in S : z >= y => z >= x
        BY <2>1, <4>1
      <4>3. x \in up(x) /\ x \notin up(y)
        BY <2>1, <4>1
      <4> QED BY <4>2, <4>3
    <3>2. up(x) \in SUBSET S /\ up(y) \in SUBSET S /\ up(y) # up(x)
      BY <3>1
    <3>3. <<up(y), up(x)>> \in StrictSubsetOrdering(S)
      <4> HIDE DEF up
      <4> QED BY <3>1, <3>2 DEF StrictSubsetOrdering
    <3> QED BY <1>2, <1>3, <3>3
  <2> QED BY <2>1
<1>5. \A y \in S : Max(S) >= y /\ Max(S) \in S
  BY <1>4 DEF Max
<1> QED BY <1>5

\* The least of two
LEMMA LeastOfTwo ==
  ASSUME NEW a \in Nat, NEW b \in Nat
  PROVE  Min({a, b}) = IF a <= b THEN a ELSE b
BY DEF Min

----------------------------------------------------------------------------
(* Why an assignment leaves its target with the precision of the most       *)
(* precise operand, and every operation on the way has it too.  The         *)
(* invariant says of each of the running assignments what may still be to   *)
(* do, so that its target has the precision of its guard when it ends.      *)

\* What the i-th of the running assignments writes to, and the numbers it may read
WrittenTo(i) == IF i = 1 THEN call.on ELSE i - 1
Usable(p)    == {x \in Number \ moved : num[x].prec <= p}

Transfers(c) == c.run \in {"move", "swap"}

\* A call of an assignment that writes to s, has a temporary t and reads the numbers ns
Fits(c, s, t, ns) ==
  /\ c.run \in {"call", "eval", "promote", "copy", "move", "swap"} => c.on = s
  /\ c.run \in {"construct", "destroy"} => c.on = t
  /\ Transfers(c) => c.of = t
  /\ c.run = "call" => \/ c.of \in Expression /\ c.of.numbers \subseteq ns
                       \/ c.of = terminal(t) /\ c.op # "assign"
  /\ c.run = "eval" => c.of # {} /\ c.of \subseteq ns \cup {s, t}
  /\ c.run = "copy" => c.of \in ns
  /\ c.run = "construct" => c.of \in Expression /\ c.of.numbers \subseteq ns

\* Such calls; a temporary is moved from, or swapped, when it has just been constructed.
Fitting(l, s, t, ns) ==
  /\ Sequence(l)
  /\ \A k \in 1..Len(l) : Fits(l[k], s, t, ns)
  /\ \A j, k \in 1..Len(l) : k = j + 1 /\ Transfers(l[k]) => l[j].run = "construct"

\* The temporary is not constructed yet.
Fresh(l, s, t, ns) == Fitting(l, s, t, ns) /\ (l # <<>> => ~Transfers(Head(l)))

\* The first of such calls has been made.
LEMMA FittingTail ==
  ASSUME NEW l, NEW s, NEW t, NEW ns, Fitting(l, s, t, ns), l # <<>>
  PROVE  /\ Fits(Head(l), s, t, ns) /\ Fitting(Tail(l), s, t, ns)
         /\ Head(l).run # "construct" => Fresh(Tail(l), s, t, ns)
<1> DEFINE b == Tail(l)
<1>1. /\ Sequence(b) /\ Head(l) = l[1] /\ Len(l) \in Nat \ {0}
      /\ Len(b) = Len(l) - 1 /\ \A k \in 1..Len(b) : b[k] = l[k + 1]
  BY TailOf DEF Fitting
<1>2. b # <<>> => Head(b) = l[2] /\ 1 \in 1..Len(l) /\ 2 \in 1..Len(l)
  <2>1. ASSUME b # <<>>
        PROVE  Head(b) = b[1] /\ Len(b) \in Nat \ {0}
    BY <1>1, <2>1, TailOf
  <2> HIDE DEF b
  <2>2. ASSUME b # <<>>
        PROVE  1 \in 1..Len(b) /\ b[1] = l[1 + 1]
    BY <1>1, <2>1, <2>2
  <2> QED BY <1>1, <2>1, <2>2
<1> HIDE DEF b
<1>3. \A k \in 1..Len(b) : k + 1 \in 1..Len(l) /\ b[k] = l[k + 1]
  BY <1>1
<1>4. \A k \in 1..Len(b) : Fits(b[k], s, t, ns)
  BY <1>3 DEF Fitting
<1>5. \A j, k \in 1..Len(b) : k = j + 1 /\ Transfers(b[k]) => b[j].run = "construct"
  <2>1. SUFFICES ASSUME NEW j \in 1..Len(b), NEW k \in 1..Len(b), k = j + 1, Transfers(b[k])
                 PROVE  b[j].run = "construct"
    OBVIOUS
  <2>2. /\ j + 1 \in 1..Len(l) /\ k + 1 \in 1..Len(l) /\ k + 1 = (j + 1) + 1
        /\ b[j] = l[j + 1] /\ b[k] = l[k + 1]
    BY <1>3, <2>1
  <2> QED BY <2>1, <2>2 DEF Fitting
<1>6. Fitting(b, s, t, ns)
  BY <1>1, <1>4, <1>5 DEF Fitting
<1>7. Fits(Head(l), s, t, ns)
  BY <1>1 DEF Fitting
<1>8. ASSUME Head(l).run # "construct", b # <<>>
      PROVE  ~Transfers(Head(b))
  <2>1. 1 \in 1..Len(l) /\ 2 \in 1..Len(l) /\ 2 = 1 + 1
    BY <1>2, <1>8
  <2> QED BY <1>1, <1>2, <1>8, <2>1 DEF Fitting
<1> QED BY <1>6, <1>7, <1>8 DEF Fresh, b

\* Two such sequences are one.
LEMMA FreshJoin ==
  ASSUME NEW a, NEW b, NEW s, NEW t, NEW ns, Fresh(a, s, t, ns), Fresh(b, s, t, ns)
  PROVE  Fresh(a \o b, s, t, ns)
<1> DEFINE n == Len(a)
           c == a \o b
<1>1. /\ Sequence(c) /\ n \in Nat /\ Len(b) \in Nat /\ Len(c) = n + Len(b)
      /\ \A k \in 1..n + Len(b) : c[k] = IF k <= n THEN a[k] ELSE b[k - n]
  BY SequencesJoin DEF Fresh, Fitting
<1>2. /\ \A k \in 1..n : Fits(a[k], s, t, ns)
      /\ \A j, k \in 1..n : k = j + 1 /\ Transfers(a[k]) => a[j].run = "construct"
      /\ \A k \in 1..Len(b) : Fits(b[k], s, t, ns)
      /\ \A j, k \in 1..Len(b) : k = j + 1 /\ Transfers(b[k]) => b[j].run = "construct"
  BY DEF Fresh, Fitting
<1>3. (n # 0 => ~Transfers(a[1])) /\ (Len(b) # 0 => ~Transfers(b[1]))
  <2>1. Len(<<>>) = 0
    OBVIOUS
  <2> QED BY <2>1, TailOf DEF Fresh, Fitting
<1>4. c # <<>> => Head(c) = c[1] /\ Len(c) \in Nat \ {0}
  BY <1>1, TailOf
<1> HIDE DEF n, c
<1>5. \A k \in 1..Len(c) : \/ k \in 1..n /\ c[k] = a[k]
                           \/ k \notin 1..n /\ k - n \in 1..Len(b) /\ c[k] = b[k - n]
  BY <1>1
<1>6. \A k \in 1..Len(c) : Fits(c[k], s, t, ns)
  BY <1>2, <1>5
<1>7. ASSUME NEW j \in 1..Len(c), NEW k \in 1..Len(c), k = j + 1, Transfers(c[k])
      PROVE  c[j].run = "construct"
  <2>1. CASE k \in 1..n
    <3>1. j \in 1..n /\ c[j] = a[j] /\ c[k] = a[k]
      BY <1>1, <1>5, <1>7, <2>1
    <3> QED BY <1>2, <1>7, <2>1, <3>1
  <2>2. CASE k \notin 1..n /\ j \in 1..n
    <3>1. k - n = 1 /\ c[k] = b[1] /\ Len(b) # 0
      BY <1>1, <1>5, <1>7, <2>2
    <3> QED BY <1>3, <1>7, <3>1
  <2>3. CASE k \notin 1..n /\ j \notin 1..n
    <3>1. /\ j - n \in 1..Len(b) /\ k - n \in 1..Len(b) /\ k - n = (j - n) + 1
          /\ c[j] = b[j - n] /\ c[k] = b[k - n]
      BY <1>1, <1>5, <1>7, <2>3
    <3> QED BY <1>2, <1>7, <3>1
  <2> QED BY <2>1, <2>2, <2>3
<1>8. c # <<>> => ~Transfers(Head(c))
  <2> SUFFICES ASSUME c # <<>> PROVE ~Transfers(c[1])
    BY <1>4
  <2>1. 1 \in 1..Len(c)
    BY <1>4
  <2>2. CASE n = 0
    <3>1. c[1] = b[1] /\ Len(b) # 0
      BY <1>1, <2>1, <2>2
    <3> QED BY <1>3, <3>1
  <2>3. CASE n # 0
    <3>1. c[1] = a[1]
      BY <1>1, <2>1, <2>3
    <3> QED BY <1>3, <2>3, <3>1
  <2> QED BY <2>2, <2>3
<1> QED BY <1>1, <1>6, <1>7, <1>8 DEF Fresh, Fitting, c

\* Short sequences
LEMMA FreshFew ==
  ASSUME NEW s, NEW t, NEW ns
  PROVE  /\ Fresh(<<>>, s, t, ns)
         /\ \A c : Fits(c, s, t, ns) /\ ~Transfers(c) => Fresh(<<c>>, s, t, ns)
<1>1. Fresh(<<>>, s, t, ns)
  BY EmptySeq DEF Fresh, Fitting, Sequence
<1>2. ASSUME NEW c, Fits(c, s, t, ns), ~Transfers(c)
      PROVE  Fresh(<<c>>, s, t, ns)
  <2> DEFINE l == <<c>>
  <2>1. l \in Seq({c}) /\ Len(l) = 1 /\ Head(l) = c /\ \A k \in 1..1 : l[k] = c
    OBVIOUS
  <2> HIDE DEF l
  <2>2. \A j, k \in 1..Len(l) : k # j + 1
    BY <2>1
  <2>3. Fitting(l, s, t, ns)
    BY <1>2, <2>1, <2>2 DEF Fitting, Sequence
  <2>4. Fresh(l, s, t, ns)
    BY <1>2, <2>1, <2>3 DEF Fresh
  <2> QED BY <2>4 DEF l
<1> QED BY <1>1, <1>2

\* A call between the constructor of a temporary and its destructor
LEMMA FreshUse ==
  ASSUME NEW s, NEW t, NEW ns, NEW l, Sequence(l), Len(l) = 3,
         Fits(l[1], s, t, ns), Fits(l[2], s, t, ns), Fits(l[3], s, t, ns),
         l[1].run = "construct", l[3].run = "destroy"
  PROVE  Fresh(l, s, t, ns)
<1>1. /\ \A k \in 1..3 : k = 1 \/ k = 2 \/ k = 3
      /\ \A j, k \in 1..3 : k = j + 1 => j = 1 \/ k = 3
  OBVIOUS
<1>2. ~Transfers(l[1]) /\ ~Transfers(l[3])
  BY DEF Transfers
<1>3. \A k \in 1..Len(l) : Fits(l[k], s, t, ns)
  BY <1>1
<1>4. \A j, k \in 1..Len(l) : k = j + 1 /\ Transfers(l[k]) => l[j].run = "construct"
  BY <1>1, <1>2
<1>5. l # <<>> => Head(l) = l[1]
  BY TailOf
<1> QED BY <1>2, <1>3, <1>4, <1>5 DEF Fresh, Fitting

----------------------------------------------------------------------------
(* What the functions leave to do reads no other numbers. *)

\* Two calls and three
LEMMA CallsJoin ==
  /\ \A c, d : <<c>> \o <<d>> = <<c, d>>
  /\ \A b, c, d : (<<b>> \o <<c>>) \o <<d>> = <<b, c, d>>
<1>1. ASSUME NEW S, NEW c \in S, NEW d \in S
      PROVE  <<c>> \o <<d>> = <<c, d>>
  <2> DEFINE u == <<c>>
             v == <<d>>
             w == <<c, d>>
  <2>1. /\ u \in Seq(S) /\ v \in Seq(S) /\ w \in Seq(S) /\ Len(u) = 1 /\ Len(v) = 1 /\ Len(w) = 2
        /\ u[1] = c /\ v[1] = d /\ w[1] = c /\ w[2] = d
    OBVIOUS
  <2> HIDE DEF u, v, w
  <2>2. /\ u \o v \in Seq(S) /\ Len(u \o v) = Len(u) + Len(v)
        /\ \A k \in 1..Len(u) + Len(v) :
             (u \o v)[k] = IF k <= Len(u) THEN u[k] ELSE v[k - Len(u)]
    BY <2>1, ConcatProperties
  <2>3. Len(u \o v) = 2 /\ \A k \in 1..2 : (u \o v)[k] = w[k]
    BY <2>1, <2>2
  <2>4. u \o v = w
    BY <2>1, <2>2, <2>3, SeqEqual
  <2> QED BY <2>4 DEF u, v, w
<1>2. ASSUME NEW S, NEW b \in S, NEW c \in S, NEW d \in S
      PROVE  <<b, c>> \o <<d>> = <<b, c, d>>
  <2> DEFINE u == <<b, c>>
             v == <<d>>
             w == <<b, c, d>>
  <2>1. /\ u \in Seq(S) /\ v \in Seq(S) /\ w \in Seq(S) /\ Len(u) = 2 /\ Len(v) = 1 /\ Len(w) = 3
        /\ u[1] = b /\ u[2] = c /\ v[1] = d /\ w[1] = b /\ w[2] = c /\ w[3] = d
    OBVIOUS
  <2> HIDE DEF u, v, w
  <2>2. /\ u \o v \in Seq(S) /\ Len(u \o v) = Len(u) + Len(v)
        /\ \A k \in 1..Len(u) + Len(v) :
             (u \o v)[k] = IF k <= Len(u) THEN u[k] ELSE v[k - Len(u)]
    BY <2>1, ConcatProperties
  <2>3. Len(u \o v) = 3 /\ \A k \in 1..3 : (u \o v)[k] = w[k]
    BY <2>1, <2>2
  <2>4. u \o v = w
    BY <2>1, <2>2, <2>3, SeqEqual
  <2> QED BY <2>4 DEF u, v, w
<1>3. \A c, d : <<c>> \o <<d>> = <<c, d>>
  <2>1. ASSUME NEW c, NEW d
        PROVE  <<c>> \o <<d>> = <<c, d>>
    <3>1. c \in {c, d} /\ d \in {c, d}
      OBVIOUS
    <3> QED BY <1>1, <3>1
  <2> QED BY <2>1
<1>4. \A b, c, d : <<b, c>> \o <<d>> = <<b, c, d>>
  <2>1. ASSUME NEW b, NEW c, NEW d
        PROVE  <<b, c>> \o <<d>> = <<b, c, d>>
    <3>1. b \in {b, c, d} /\ c \in {b, c, d} /\ d \in {b, c, d}
      OBVIOUS
    <3> QED BY <1>2, <3>1
  <2> QED BY <2>1
<1>5. \A b, c, d : (<<b>> \o <<c>>) \o <<d>> = <<b, c, d>>
  <2>1. ASSUME NEW b, NEW c, NEW d
        PROVE  (<<b>> \o <<c>>) \o <<d>> = <<b, c, d>>
    <3>1. <<b>> \o <<c>> = <<b, c>>
      BY <1>3
    <3>2. <<b, c>> \o <<d>> = <<b, c, d>>
      BY <1>4
    <3> QED BY <3>1, <3>2
  <2> QED BY <2>1
<1> QED BY <1>3, <1>5

\* The calls that the functions consist of
LEMMA FittingCalls ==
  ASSUME NEW s, NEW t, NEW ns
  PROVE  /\ \A f : \A e \in Expression :
              e.numbers \subseteq ns =>
              Fits(Call(f, s, e), s, t, ns) /\ ~Transfers(Call(f, s, e))
         /\ \A f : f # "assign" => /\ Fits(Call(f, s, terminal(t)), s, t, ns)
                                   /\ ~Transfers(Call(f, s, terminal(t)))
         /\ \A op : \A xs \in SUBSET (ns \cup {s, t}) :
              xs # {} => Fits(Eval(op, s, xs), s, t, ns) /\ ~Transfers(Eval(op, s, xs))
         /\ Fits(Promote(s), s, t, ns) /\ ~Transfers(Promote(s))
         /\ \A x \in ns : Fits(Copy(s, x), s, t, ns) /\ ~Transfers(Copy(s, x))
         /\ \A e \in Expression : e.numbers \subseteq ns => Fits(Construct(t, e), s, t, ns)
         /\ Fits(MoveFrom(s, t), s, t, ns) /\ Fits(SwapWith(s, t), s, t, ns)
         /\ Fits(Destroy(t), s, t, ns)
<1>1. \A e, f : /\ Call(f, s, e).run = "call" /\ Call(f, s, e).on = s
                /\ Call(f, s, e).of = e /\ Call(f, s, e).op = f
  BY DEF Call
<1>2. \A op, xs : /\ Eval(op, s, xs).run = "eval" /\ Eval(op, s, xs).on = s
                  /\ Eval(op, s, xs).of = xs
  BY DEF Eval
<1>3. /\ Promote(s).run = "promote" /\ Promote(s).on = s
      /\ \A x : Copy(s, x).run = "copy" /\ Copy(s, x).on = s /\ Copy(s, x).of = x
      /\ SwapWith(s, t).run = "swap" /\ SwapWith(s, t).on = s /\ SwapWith(s, t).of = t
      /\ MoveFrom(s, t).run = "move" /\ MoveFrom(s, t).on = s /\ MoveFrom(s, t).of = t
      /\ Destroy(t).run = "destroy" /\ Destroy(t).on = t
  BY DEF Promote, Copy, SwapWith, MoveFrom, Destroy
<1>4. \A e : /\ Construct(t, e).run = "construct" /\ Construct(t, e).on = t
             /\ Construct(t, e).of = e
  BY DEF Construct
<1>5. /\ \A f : \A e \in Expression :
              e.numbers \subseteq ns =>
              Fits(Call(f, s, e), s, t, ns) /\ ~Transfers(Call(f, s, e))
      /\ \A f : f # "assign" => /\ Fits(Call(f, s, terminal(t)), s, t, ns)
                                /\ ~Transfers(Call(f, s, terminal(t)))
  BY <1>1 DEF Fits, Transfers
<1>6. \A op : \A xs \in SUBSET (ns \cup {s, t}) :
              xs # {} => Fits(Eval(op, s, xs), s, t, ns) /\ ~Transfers(Eval(op, s, xs))
  BY <1>2 DEF Fits, Transfers
<1>7. /\ Fits(Promote(s), s, t, ns) /\ ~Transfers(Promote(s))
      /\ \A x \in ns : Fits(Copy(s, x), s, t, ns) /\ ~Transfers(Copy(s, x))
      /\ Fits(MoveFrom(s, t), s, t, ns) /\ Fits(SwapWith(s, t), s, t, ns)
      /\ Fits(Destroy(t), s, t, ns)
  BY <1>3 DEF Fits, Transfers
<1>8. \A e \in Expression : e.numbers \subseteq ns => Fits(Construct(t, e), s, t, ns)
  BY <1>4 DEF Fits, Transfers
<1> QED BY <1>5, <1>6, <1>7, <1>8

\* A temporary that is constructed, used and destroyed
LEMMA TempFresh ==
  ASSUME NEW s, NEW t, NEW ns, NEW e \in Expression, e.numbers \subseteq ns,
         NEW c, Fits(c, s, t, ns)
  PROVE  Fresh(Temp(t, e, <<c>>), s, t, ns) /\ Fresh(<<Construct(t, e), c, Destroy(t)>>, s, t, ns)
<1> DEFINE l == <<Construct(t, e), c, Destroy(t)>>
<1>1. /\ l \in Seq({Construct(t, e), c, Destroy(t)}) /\ Len(l) = 3
      /\ l[1] = Construct(t, e) /\ l[2] = c /\ l[3] = Destroy(t)
  OBVIOUS
<1>2. Construct(t, e).run = "construct" /\ Destroy(t).run = "destroy"
  BY DEF Construct, Destroy
<1>3. Temp(t, e, <<c>>) = l
  BY CallsJoin DEF Temp
<1> HIDE DEF l
<1>4. Fits(l[1], s, t, ns) /\ Fits(l[3], s, t, ns)
  BY <1>1, FittingCalls
<1>5. Fresh(l, s, t, ns)
  BY <1>1, <1>2, <1>4, FreshUse DEF Sequence
<1> QED BY <1>3, <1>5 DEF l

\* The parts that several functions share
LEMMA PartsFresh ==
  ASSUME NEW s, NEW t, NEW ns
  PROVE  /\ Fresh(<<>>, s, t, ns)
         /\ \A f : \A e \in Expression :
              e.numbers \subseteq ns => Fresh(<<Call(f, s, e)>>, s, t, ns)
         /\ \A x \in ns : Fresh(<<Copy(s, x)>>, s, t, ns)
         /\ \A op : \A xs \in SUBSET (ns \cup {s, t}) : xs # {} =>
              Fresh(<<Eval(op, s, xs)>>, s, t, ns) /\ Fresh(Operate(op, s, xs), s, t, ns)
         /\ \A f, g : \A d, e \in Expression :
              d.numbers \subseteq ns /\ e.numbers \subseteq ns =>
              Fresh(<<Call(f, s, d), Call(g, s, e)>>, s, t, ns)
         /\ \A f : \A e \in Expression :
              e.numbers \subseteq ns => Fresh(<<Promote(s), Call(f, s, e)>>, s, t, ns)
         /\ \A e \in Expression : e.numbers \subseteq ns =>
              /\ Fresh(Temp(t, e, <<SwapWith(s, t)>>), s, t, ns)
              /\ Fresh(ByTemporary(s, e, t), s, t, ns)
              /\ \A f : f # "assign" => Fresh(Unknown(f, s, e, t), s, t, ns)
              /\ \A op : Fresh(UnknownFactor(op, s, e, t), s, t, ns)
              /\ \A op : Fresh(<<Promote(s)>> \o Temp(t, e, <<Eval(op, s, {t})>>), s, t, ns)
<1>1. /\ Fresh(<<>>, s, t, ns)
      /\ \A f : \A e \in Expression :
           e.numbers \subseteq ns => Fresh(<<Call(f, s, e)>>, s, t, ns)
      /\ \A x \in ns : Fresh(<<Copy(s, x)>>, s, t, ns)
      /\ Fresh(<<Promote(s)>>, s, t, ns)
  BY FittingCalls, FreshFew
<1>2. ASSUME NEW op, NEW xs \in SUBSET (ns \cup {s, t}), xs # {}
      PROVE  Fresh(<<Eval(op, s, xs)>>, s, t, ns) /\ Fresh(Operate(op, s, xs), s, t, ns)
  <2>1. Fits(Eval(op, s, xs), s, t, ns) /\ ~Transfers(Eval(op, s, xs))
    BY <1>2, FittingCalls
  <2>2. Fresh(<<Eval(op, s, xs)>>, s, t, ns)
    BY <2>1, FreshFew
  <2>3. Fresh(<<Promote(s)>> \o <<Eval(op, s, xs)>>, s, t, ns)
    BY <1>1, <2>2, FreshJoin
  <2>4. Operate(op, s, xs) = <<Promote(s)>> \o <<Eval(op, s, xs)>>
    BY DEF Operate
  <2> QED BY <2>2, <2>3, <2>4
<1>3. ASSUME NEW f, NEW g, NEW d \in Expression, NEW e \in Expression,
             d.numbers \subseteq ns, e.numbers \subseteq ns
      PROVE  Fresh(<<Call(f, s, d), Call(g, s, e)>>, s, t, ns)
  <2>1. Fresh(<<Call(f, s, d)>> \o <<Call(g, s, e)>>, s, t, ns)
    BY <1>1, <1>3, FreshJoin
  <2> QED BY <2>1, CallsJoin
<1>4. ASSUME NEW f, NEW e \in Expression, e.numbers \subseteq ns
      PROVE  Fresh(<<Promote(s), Call(f, s, e)>>, s, t, ns)
  <2>1. Fresh(<<Promote(s)>> \o <<Call(f, s, e)>>, s, t, ns)
    BY <1>1, <1>4, FreshJoin
  <2> QED BY <2>1, CallsJoin
<1>5. ASSUME NEW e \in Expression, e.numbers \subseteq ns
      PROVE  /\ Fresh(Temp(t, e, <<SwapWith(s, t)>>), s, t, ns)
             /\ Fresh(ByTemporary(s, e, t), s, t, ns)
             /\ \A f : f # "assign" => Fresh(Unknown(f, s, e, t), s, t, ns)
             /\ \A op : Fresh(UnknownFactor(op, s, e, t), s, t, ns)
             /\ \A op : Fresh(<<Promote(s)>> \o Temp(t, e, <<Eval(op, s, {t})>>), s, t, ns)
  <2>1. Fits(SwapWith(s, t), s, t, ns) /\ Fits(MoveFrom(s, t), s, t, ns)
    BY FittingCalls
  <2>2. ASSUME NEW f, f # "assign"
        PROVE  Fresh(Unknown(f, s, e, t), s, t, ns)
    <3>1. Fits(Call(f, s, terminal(t)), s, t, ns)
      BY <2>2, FittingCalls
    <3> QED BY <1>5, <3>1, TempFresh DEF Unknown
  <2>3. ASSUME NEW op, NEW xs \in SUBSET {s, t}, xs # {}
        PROVE  Fresh(<<Promote(s)>> \o Temp(t, e, <<Eval(op, s, xs)>>), s, t, ns)
    <3>1. Fits(Eval(op, s, xs), s, t, ns)
      BY <2>3, FittingCalls
    <3>2. Fresh(Temp(t, e, <<Eval(op, s, xs)>>), s, t, ns)
      BY <1>5, <3>1, TempFresh
    <3> QED BY <1>1, <3>2, FreshJoin
  <2>4. /\ Fresh(Temp(t, e, <<SwapWith(s, t)>>), s, t, ns)
        /\ Fresh(ByTemporary(s, e, t), s, t, ns)
    BY <1>5, <2>1, TempFresh DEF ByTemporary
  <2>5. /\ \A op : Fresh(UnknownFactor(op, s, e, t), s, t, ns)
        /\ \A op : Fresh(<<Promote(s)>> \o Temp(t, e, <<Eval(op, s, {t})>>), s, t, ns)
    <3>1. {s, t} \in SUBSET {s, t} /\ {t} \in SUBSET {s, t} /\ {s, t} # {} /\ {t} # {}
      OBVIOUS
    <3> QED BY <2>3, <3>1 DEF UnknownFactor
  <2> QED BY <2>2, <2>4, <2>5
<1> QED BY <1>1, <1>2, <1>3, <1>4, <1>5

\* The operands of an expression have no other numbers than the expression.
LEMMA OperandsOf ==
  ASSUME NEW e \in Expression, ~IsNumber(e)
  PROVE  /\ left(e) \in Expression /\ left(e).numbers \subseteq e.numbers
         /\ right(e) \in Expression /\ right(e).numbers \subseteq e.numbers
         /\ IsNegated(e) => left(e).numbers = e.numbers
<1>1. e.subs \in Seq(Expression) /\ e.subs # <<>>
      /\ e.numbers = UNION {e.subs[k].numbers : k \in DOMAIN e.subs}
  BY ExpressionAssumption
<1>2. Len(e.subs) \in Nat \ {0} /\ DOMAIN e.subs = 1..Len(e.subs)
  BY <1>1, EmptySeq, LenProperties
<1>3. 1 \in DOMAIN e.subs /\ Len(e.subs) \in DOMAIN e.subs
  BY <1>2
<1>4. \A k \in DOMAIN e.subs : e.subs[k].numbers \subseteq e.numbers
  BY <1>1
<1>5. IsNegated(e) => e.numbers = e.subs[1].numbers
  <2>1. IsNegated(e) => Len(e.subs) = 1
    BY ExpressionAssumption
  <2>2. 1..1 = {1}
    OBVIOUS
  <2>3. IsNegated(e) => DOMAIN e.subs = {1}
    BY <1>2, <2>1, <2>2
  <2> QED BY <1>1, <2>3
<1>6. left(e).numbers \subseteq e.numbers /\ right(e).numbers \subseteq e.numbers
  BY <1>3, <1>4 DEF left, right
<1> QED BY <1>5, <1>6, OperandsInExpression DEF left

\* The functions of number.hpp
LEMMA BodyFresh ==
  ASSUME NEW f, NEW s, NEW t, NEW ns, NEW e,
         \/ e \in Expression /\ e.numbers \subseteq ns
         \/ e = terminal(t) /\ f # "assign"
  PROVE  Fresh(Body(f, s, e, t), s, t, ns)
<1>1. /\ e.numbers # {} /\ e.numbers \subseteq ns \cup {s, t}
      /\ {s} \cup e.numbers \in SUBSET (ns \cup {s, t}) /\ {s} \cup e.numbers # {}
  <2>1. CASE e = terminal(t)
    BY <2>1 DEF terminal
  <2>2. CASE e \in Expression /\ e.numbers \subseteq ns
    BY <2>2, ExpressionAssumption
  <2> QED BY <2>1, <2>2
<1>2. \A op : Fresh(Operate(op, s, {s} \cup e.numbers), s, t, ns)
              /\ Fresh(<<Eval(op, s, {s} \cup e.numbers)>>, s, t, ns)
  BY <1>1, PartsFresh
<1>3. CASE IsNumber(e)
  <2>1. f # "assign" => Fresh(Body(f, s, e, t), s, t, ns)
    <3>1. Fresh(do_add(s, e, t), s, t, ns) /\ Fresh(do_subtract(s, e, t), s, t, ns)
      BY <1>2, <1>3 DEF do_add, do_subtract, IsNumber, IsNegated
    <3>2. Fresh(do_multiplies(s, e, t), s, t, ns) /\ Fresh(do_divide(s, e, t), s, t, ns)
      BY <1>2, <1>3 DEF do_multiplies, do_divide, IsNumber, IsNegated
    <3> QED BY <3>1, <3>2 DEF Body
  <2>2. ASSUME f = "assign"
        PROVE  Fresh(do_assign(s, e, t), s, t, ns)
    <3>1. value(e) \in ns
      BY <1>1, <2>2, ExpressionAssumption DEF value
    <3>2. Fresh(<<>>, s, t, ns) /\ Fresh(<<Copy(s, value(e))>>, s, t, ns)
      BY <3>1, PartsFresh
    <3>3. \A op : Fresh(Operate(op, s, e.numbers), s, t, ns)
      BY <1>1, PartsFresh
    <3>4. ~IsNegated(e) /\ e.tag \notin {"multiply_add", "multiply_subtract", "plus", "minus",
                                        "multiplies", "divides"}
      BY <1>3 DEF IsNumber, IsNegated
    <3> QED BY <1>3, <3>2, <3>3, <3>4 DEF do_assign
  <2> QED BY <2>1, <2>2 DEF Body
<1>4. CASE ~IsNumber(e)
  <2>1. /\ e \in Expression /\ e.numbers \subseteq ns
        /\ left(e) \in Expression /\ left(e).numbers \subseteq ns
        /\ right(e) \in Expression /\ right(e).numbers \subseteq ns
    <3>1. e \in Expression /\ e.numbers \subseteq ns
      BY <1>4 DEF terminal, IsNumber
    <3> QED BY <1>4, <3>1, OperandsOf
  <2>2. /\ \A g, h : Fresh(Both(g, h, s, e), s, t, ns)
        /\ \A g : Fresh(<<Call(g, s, left(e))>>, s, t, ns)
        /\ \A g : Fresh(<<Call(g, s, right(e))>>, s, t, ns)
        /\ \A g, h : Fresh(<<Call(g, s, right(e)), Call(h, s, left(e))>>, s, t, ns)
        /\ \A g : Fresh(<<Promote(s), Call(g, s, left(e))>>, s, t, ns)
        /\ Fresh(Temp(t, e, <<SwapWith(s, t)>>), s, t, ns)
        /\ Fresh(<<Promote(s)>> \o Temp(t, left(e), <<Eval("function", s, {t})>>), s, t, ns)
        /\ \A g : g # "assign" => Fresh(Unknown(g, s, e, t), s, t, ns)
        /\ \A op : Fresh(UnknownFactor(op, s, e, t), s, t, ns)
    BY <2>1, PartsFresh DEF Both
  <2>3. Fresh(do_assign(s, e, t), s, t, ns)
    <3>1. Fresh(assign_sum(s, e, t), s, t, ns)
      BY <2>2 DEF assign_sum
    <3>2. Fresh(assign_quotient(s, e, t), s, t, ns)
      BY <2>2 DEF assign_quotient
    <3>3. \A op : Fresh(Operate(op, s, e.numbers), s, t, ns)
      BY <1>1, PartsFresh
    <3> QED BY <1>4, <2>2, <3>1, <3>2, <3>3 DEF do_assign
  <2>4. Fresh(do_add(s, e, t), s, t, ns)
    BY <1>2, <1>4, <2>2 DEF do_add
  <2>5. Fresh(do_subtract(s, e, t), s, t, ns)
    BY <1>2, <1>4, <2>2 DEF do_subtract
  <2>6. Fresh(do_multiplies(s, e, t), s, t, ns)
    BY <1>2, <1>4, <2>2 DEF do_multiplies
  <2>7. Fresh(do_divide(s, e, t), s, t, ns)
    BY <1>2, <1>4, <2>2 DEF do_divide
  <2> QED BY <2>3, <2>4, <2>5, <2>6, <2>7 DEF Body
<1> QED BY <1>3, <1>4

\* The assignment operators.  A compound one may read its target.
LEMMA AssignmentFresh ==
  ASSUME NEW f, NEW s, NEW t, NEW ns, NEW other, NEW e \in Expression, e.numbers \subseteq ns,
         f # "assign" => s \in ns /\ operator2(f, terminal(s), e) \in Expression
  PROVE  Fresh(operator_assign(f, s, e, t, other), s, t, ns)
<1>1. CASE f = "assign"
  BY <1>1, PartsFresh DEF operator_assign
<1>2. CASE f # "assign"
  <2>1. /\ e.numbers # {} /\ {s} \cup e.numbers \in SUBSET (ns \cup {s, t})
        /\ {s} \cup e.numbers # {}
    BY ExpressionAssumption
  <2>2. /\ Fresh(<<Call(f, s, e)>>, s, t, ns)
        /\ Fresh(<<Eval(f, s, {s} \cup e.numbers)>>, s, t, ns)
        /\ Fresh(Temp(t, e, <<Call(f, s, terminal(t))>>), s, t, ns)
    BY <1>2, <2>1, PartsFresh DEF Unknown
  <2>3. CASE IsNumber(e) \/ (f \in {"plus", "minus"} /\ IsProduct(e))
    <3> DEFINE w == operator2(f, terminal(s), e)
    <3>1. w \in Expression /\ w.numbers \subseteq ns
      BY <1>2, <2>3, OperandNumbers
    <3>2. Fresh(ByTemporary(s, w, t), s, t, ns)
      <4> HIDE DEF w
      <4> QED BY <3>1, PartsFresh
    <3> QED BY <1>2, <2>2, <2>3, <3>2 DEF operator_assign
  <2>4. CASE ~(IsNumber(e) \/ (f \in {"plus", "minus"} /\ IsProduct(e)))
    BY <1>2, <2>2, <2>4 DEF operator_assign
  <2> QED BY <2>3, <2>4
<1> QED BY <1>1, <1>2

----------------------------------------------------------------------------
(* When the target has the precision of the guard. *)

\* A call after which it has that precision, and one that does not change it
Firm(c) == c.run = "promote" \/ (c.run = "call" /\ c.op # "assign")
Calm(c) == Firm(c) \/ c.run \in {"eval", "construct", "destroy"}

\* It has that precision before the k-th call, if now says whether it has it before
\* the first.
Settled(l, k, now) ==
  \E j \in 0..k - 1 : /\ IF j = 0 THEN now ELSE Firm(l[j])
                      /\ \A i \in j + 1..k - 1 : Calm(l[i])

\* Each operation is carried out with it, and it has it in the end.
Precise(l, now) == \A k \in 1..Len(l) : l[k].run = "eval" => Settled(l, k, now)
Ends(l, now)    == Settled(l, Len(l) + 1, now)

\* The first of the calls l has been made, and stands for the calls a.
LEMMA SettledJoin ==
  ASSUME NEW a, NEW l, Sequence(a), Sequence(l), l # <<>>, NEW now, NEW then,
         Precise(l, now), Precise(a, then),
         Firm(Head(l)) \/ (now /\ Calm(Head(l))) => Ends(a, then)
  PROVE  /\ Precise(a \o Tail(l), then)
         /\ Ends(l, now) => Ends(a \o Tail(l), then)
<1> DEFINE n == Len(a)
           b == Tail(l)
           c == a \o b
<1>1. /\ Sequence(b) /\ Head(l) = l[1] /\ Len(l) \in Nat \ {0}
      /\ Len(b) = Len(l) - 1 /\ \A k \in 1..Len(b) : b[k] = l[k + 1]
  BY TailOf
<1>2. /\ Sequence(c) /\ n \in Nat /\ Len(b) \in Nat /\ Len(c) = n + Len(b)
      /\ \A k \in 1..n + Len(b) : c[k] = IF k <= n THEN a[k] ELSE b[k - n]
  BY <1>1, SequencesJoin
<1> HIDE DEF n, b, c
<1>3. \A k \in 1..n : k \in 1..Len(c) /\ c[k] = a[k]
  BY <1>2
<1>4. \A k \in 2..Len(l) : n + k - 1 \in n + 1..Len(c) /\ c[n + k - 1] = l[k]
  <2>1. TAKE k \in 2..Len(l)
  <2>2. k - 1 \in 1..Len(b) /\ b[k - 1] = l[k]
    BY <1>1
  <2>3. n + k - 1 \in 1..n + Len(b) /\ ~(n + k - 1 <= n) /\ (n + k - 1) - n = k - 1
    BY <1>2, <2>2
  <2> QED BY <1>2, <2>2, <2>3
<1>5. ASSUME NEW k \in 1..n + 1, Settled(a, k, then)
      PROVE  Settled(c, k, then)
  <2>1. PICK j \in 0..k - 1 : /\ IF j = 0 THEN then ELSE Firm(a[j])
                              /\ \A i \in j + 1..k - 1 : Calm(a[i])
    BY <1>5 DEF Settled
  <2>2. \A i \in j + 1..k - 1 : i \in 1..n
    BY <1>2, <2>1
  <2>3. j # 0 => j \in 1..n
    BY <1>2, <2>1
  <2>4. (IF j = 0 THEN then ELSE Firm(c[j])) /\ \A i \in j + 1..k - 1 : Calm(c[i])
    BY <1>3, <2>1, <2>2, <2>3
  <2> QED BY <2>4 DEF Settled
<1>6. ASSUME NEW k \in 2..Len(l) + 1, Settled(l, k, now)
      PROVE  Settled(c, n + k - 1, then)
  <2>1. PICK j \in 0..k - 1 : /\ IF j = 0 THEN now ELSE Firm(l[j])
                              /\ \A i \in j + 1..k - 1 : Calm(l[i])
    BY <1>6 DEF Settled
  <2>2. \A i \in n + 1..n + k - 2 : i - n + 1 \in 2..Len(l) /\ c[i] = l[i - n + 1]
    <3>1. TAKE i \in n + 1..n + k - 2
    <3>2. i - n + 1 \in 2..Len(l) /\ n + (i - n + 1) - 1 = i
      BY <1>1, <1>2
    <3> QED BY <1>4, <3>2
  <2>3. CASE j >= 2
    <3>1. n + j - 1 \in 0..(n + k - 1) - 1 /\ n + j - 1 # 0 /\ j \in 2..Len(l)
      BY <1>1, <1>2, <2>1, <2>3
    <3>2. Firm(c[n + j - 1])
      BY <1>4, <2>1, <2>3, <3>1
    <3>3. ASSUME NEW i \in (n + j - 1) + 1..(n + k - 1) - 1
          PROVE  Calm(c[i])
      <4>1. i \in n + 1..n + k - 2 /\ i - n + 1 \in j + 1..k - 1
        BY <1>2, <2>1, <2>3
      <4> QED BY <2>1, <2>2, <4>1
    <3> QED BY <3>1, <3>2, <3>3 DEF Settled
  <2>4. CASE j < 2
    <3>1. Firm(l[1]) \/ (now /\ Calm(l[1]))
      <4>1. j = 0 \/ j = 1
        BY <2>1, <2>4
      <4>2. j = 0 => 1 \in j + 1..k - 1
        BY <1>1
      <4> QED BY <2>1, <4>1, <4>2
    <3>2. Ends(a, then)
      BY <1>1, <3>1
    <3>3. n + 1 \in 1..n + 1
      BY <1>2
    <3>4. Settled(c, n + 1, then)
      BY <1>5, <3>2, <3>3 DEF Ends, n
    <3>5. PICK h \in 0..(n + 1) - 1 : /\ IF h = 0 THEN then ELSE Firm(c[h])
                                      /\ \A i \in h + 1..(n + 1) - 1 : Calm(c[i])
      BY <3>4 DEF Settled
    <3>6. h \in 0..(n + k - 1) - 1
      BY <1>1, <1>2, <3>5
    <3>7. ASSUME NEW i \in h + 1..(n + k - 1) - 1
          PROVE  Calm(c[i])
      <4>1. CASE i <= n
        <5>1. i \in h + 1..(n + 1) - 1
          BY <1>2, <4>1
        <5> QED BY <3>5, <5>1
      <4>2. CASE i > n
        <5>1. i \in n + 1..n + k - 2 /\ i - n + 1 \in j + 1..k - 1
          BY <1>2, <2>1, <2>4, <4>2
        <5> QED BY <2>1, <2>2, <5>1
      <4> QED BY <1>2, <4>1, <4>2
    <3> QED BY <3>5, <3>6, <3>7 DEF Settled
  <2> QED BY <2>1, <2>3, <2>4
<1>7. ASSUME NEW k \in 1..Len(c), c[k].run = "eval"
      PROVE  Settled(c, k, then)
  <2>1. CASE k \in 1..n
    <3>1. a[k].run = "eval" /\ k \in 1..n + 1
      BY <1>2, <1>3, <1>7, <2>1
    <3>2. Settled(a, k, then)
      BY <2>1, <3>1 DEF Precise, n
    <3> QED BY <1>5, <3>1, <3>2
  <2>2. CASE k \notin 1..n
    <3> DEFINE h == k - n + 1
    <3>1. h \in 2..Len(l) /\ h \in 2..Len(l) + 1 /\ n + h - 1 = k /\ h \in 1..Len(l)
      BY <1>1, <1>2, <2>2
    <3> HIDE DEF h
    <3>2. l[h].run = "eval"
      BY <1>4, <1>7, <3>1
    <3>3. Settled(l, h, now)
      BY <3>1, <3>2 DEF Precise
    <3>4. Settled(c, n + h - 1, then)
      BY <1>6, <3>1, <3>3
    <3> QED BY <3>1, <3>4
  <2> QED BY <2>1, <2>2
<1>8. ASSUME Ends(l, now)
      PROVE  Ends(c, then)
  <2>1. Len(l) + 1 \in 2..Len(l) + 1 /\ n + (Len(l) + 1) - 1 = Len(c) + 1
    BY <1>1, <1>2
  <2>2. Settled(c, n + (Len(l) + 1) - 1, then)
    BY <1>6, <1>8, <2>1 DEF Ends
  <2> QED BY <2>1, <2>2 DEF Ends
<1> QED BY <1>7, <1>8 DEF Precise, b, c

\* Calls of which a firm one is followed by calm ones only, and calls without operations
LEMMA FirmEnds ==
  ASSUME NEW l, Sequence(l), NEW now
  PROVE  /\ \A j \in 1..Len(l) :
              Firm(l[j]) /\ (\A i \in j + 1..Len(l) : Calm(l[i])) => Ends(l, now)
         /\ (\A k \in 1..Len(l) : l[k].run # "eval") => Precise(l, now)
         /\ /\ l # <<>> /\ Firm(l[1]) /\ \A k \in 2..Len(l) : Calm(l[k])
            => Precise(l, now) /\ Ends(l, now)
<1>1. Len(l) \in Nat /\ (l # <<>> => 1 \in 1..Len(l))
  <2>1. Len(l) \in Nat /\ (l # <<>> => Len(l) \in 1..Len(l))
    BY SequenceLength
  <2> QED BY <2>1
<1>2. ASSUME NEW j \in 1..Len(l), Firm(l[j]), \A i \in j + 1..Len(l) : Calm(l[i])
      PROVE  Ends(l, now)
  <2>1. j \in 0..(Len(l) + 1) - 1 /\ j # 0 /\ (Len(l) + 1) - 1 = Len(l)
    BY <1>1
  <2> QED BY <1>2, <2>1 DEF Ends, Settled
<1>3. ASSUME l # <<>>, Firm(l[1]), \A k \in 2..Len(l) : Calm(l[k])
      PROVE  Precise(l, now) /\ Ends(l, now)
  <2>1. Ends(l, now)
    <3>1. \A i \in 1 + 1..Len(l) : Calm(l[i])
      BY <1>3
    <3> QED BY <1>1, <1>2, <1>3, <3>1
  <2>2. ASSUME NEW k \in 1..Len(l), l[k].run = "eval"
        PROVE  Settled(l, k, now)
    <3>1. k # 1
      BY <1>3, <2>2 DEF Firm
    <3>2. 1 \in 0..k - 1 /\ \A i \in 1 + 1..k - 1 : i \in 2..Len(l)
      BY <1>1, <3>1
    <3> QED BY <1>3, <3>2 DEF Settled
  <2> QED BY <2>1, <2>2 DEF Precise
<1> QED BY <1>2, <1>3 DEF Precise

\* One call, two and three
LEMMA FewEnd ==
  ASSUME NEW now
  PROVE  /\ Precise(<<>>, now) /\ (now => Ends(<<>>, now))
         /\ \A c : c.run # "eval" => Precise(<<c>>, now)
         /\ \A c : Firm(c) => Ends(<<c>>, now)
         /\ \A c : c.run = "eval" /\ now => Precise(<<c>>, now) /\ Ends(<<c>>, now)
         /\ \A c, d : c.run # "eval" /\ d.run # "eval" => Precise(<<c, d>>, now)
         /\ \A c, d : Firm(d) => Ends(<<c, d>>, now)
         /\ \A c, d : Firm(c) /\ Calm(d) => Precise(<<c, d>>, now) /\ Ends(<<c, d>>, now)
         /\ \A b, c, d : b.run # "eval" /\ c.run # "eval" /\ d.run # "eval"
                         => Precise(<<b, c, d>>, now)
         /\ \A b, c, d : Firm(c) /\ Calm(d) => Ends(<<b, c, d>>, now)
         /\ \A a, b, c, d : Firm(a) /\ Calm(b) /\ Calm(c) /\ Calm(d)
                            => /\ Precise(<<a>> \o <<b, c, d>>, now)
                               /\ Ends(<<a>> \o <<b, c, d>>, now)
<1>1. Precise(<<>>, now) /\ (now => Ends(<<>>, now))
  <2>1. Len(<<>>) = 0 /\ 1..0 = {} /\ 0 \in 0..(0 + 1) - 1 /\ 0 + 1..(0 + 1) - 1 = {}
    OBVIOUS
  <2> QED BY <2>1 DEF Precise, Ends, Settled
<1>2. ASSUME NEW c
      PROVE  /\ c.run # "eval" => Precise(<<c>>, now)
             /\ Firm(c) => Ends(<<c>>, now)
             /\ c.run = "eval" /\ now => Precise(<<c>>, now) /\ Ends(<<c>>, now)
  <2> DEFINE l == <<c>>
  <2>1. l \in Seq({c}) /\ Len(l) = 1 /\ l[1] = c /\ \A k \in 1..1 : k = 1
    OBVIOUS
  <2> HIDE DEF l
  <2>2. Sequence(l) /\ \A i \in 1 + 1..Len(l) : FALSE
    BY <2>1 DEF Sequence
  <2>3. c.run # "eval" => Precise(l, now)
    BY <2>1, <2>2, FirmEnds
  <2>4. Firm(c) => Ends(l, now)
    BY <2>1, <2>2, FirmEnds
  <2>5. ASSUME c.run = "eval", now
        PROVE  Precise(l, now) /\ Ends(l, now)
    <3>1. 0 \in 0..1 - 1 /\ \A i \in 0 + 1..1 - 1 : FALSE
      OBVIOUS
    <3>2. 0 \in 0..(1 + 1) - 1 /\ \A i \in 0 + 1..(1 + 1) - 1 : i = 1
      OBVIOUS
    <3>3. Calm(c)
      BY <2>5 DEF Calm
    <3>4. Settled(l, 1, now) /\ Settled(l, 1 + 1, now)
      BY <2>1, <2>5, <3>1, <3>2, <3>3 DEF Settled
    <3> QED BY <2>1, <3>4 DEF Precise, Ends
  <2> QED BY <2>3, <2>4, <2>5 DEF l
<1>3. ASSUME NEW c, NEW d
      PROVE  /\ c.run # "eval" /\ d.run # "eval" => Precise(<<c, d>>, now)
             /\ Firm(d) => Ends(<<c, d>>, now)
             /\ Firm(c) /\ Calm(d) => Precise(<<c, d>>, now) /\ Ends(<<c, d>>, now)
  <2> DEFINE l == <<c, d>>
  <2>1. /\ l \in Seq({c, d}) /\ Len(l) = 2 /\ l[1] = c /\ l[2] = d
        /\ \A k \in 1..2 : k = 1 \/ k = 2
    OBVIOUS
  <2> HIDE DEF l
  <2>2. /\ Sequence(l) /\ l # <<>> /\ 2 \in 1..Len(l)
        /\ (\A i \in 2 + 1..Len(l) : FALSE) /\ \A i \in 2..Len(l) : i = 2
    <3>1. Len(<<>>) = 0
      OBVIOUS
    <3> QED BY <2>1, <3>1 DEF Sequence
  <2>3. c.run # "eval" /\ d.run # "eval" => Precise(l, now)
    BY <2>1, <2>2, FirmEnds
  <2>4. Firm(d) => Ends(l, now)
    BY <2>1, <2>2, FirmEnds
  <2>5. Firm(c) /\ Calm(d) => Precise(l, now) /\ Ends(l, now)
    BY <2>1, <2>2, FirmEnds
  <2> QED BY <2>3, <2>4, <2>5 DEF l
<1>4. ASSUME NEW b, NEW c, NEW d
      PROVE  /\ b.run # "eval" /\ c.run # "eval" /\ d.run # "eval" => Precise(<<b, c, d>>, now)
             /\ Firm(c) /\ Calm(d) => Ends(<<b, c, d>>, now)
  <2> DEFINE l == <<b, c, d>>
  <2>1. /\ l \in Seq({b, c, d}) /\ Len(l) = 3 /\ l[1] = b /\ l[2] = c /\ l[3] = d
        /\ \A k \in 1..3 : k = 1 \/ k = 2 \/ k = 3
    OBVIOUS
  <2> HIDE DEF l
  <2>2. Sequence(l) /\ 2 \in 1..Len(l) /\ \A i \in 2 + 1..Len(l) : i = 3
    BY <2>1 DEF Sequence
  <2>3. b.run # "eval" /\ c.run # "eval" /\ d.run # "eval" => Precise(l, now)
    BY <2>1, <2>2, FirmEnds
  <2>4. Firm(c) /\ Calm(d) => Ends(l, now)
    BY <2>1, <2>2, FirmEnds
  <2> QED BY <2>3, <2>4 DEF l
<1>5. ASSUME NEW a, NEW b, NEW c, NEW d, Firm(a), Calm(b), Calm(c), Calm(d)
      PROVE  /\ Precise(<<a>> \o <<b, c, d>>, now)
             /\ Ends(<<a>> \o <<b, c, d>>, now)
  <2> DEFINE u == <<a>>
             v == <<b, c, d>>
             l == u \o v
  <2>1. /\ u \in Seq({a}) /\ Len(u) = 1 /\ u[1] = a
        /\ v \in Seq({b, c, d}) /\ Len(v) = 3 /\ v[1] = b /\ v[2] = c /\ v[3] = d
    OBVIOUS
  <2> HIDE DEF u, v
  <2>2. Sequence(u) /\ Sequence(v)
    BY <2>1 DEF Sequence
  <2>3. /\ Sequence(l) /\ Len(l) = Len(u) + Len(v)
        /\ \A k \in 1..Len(u) + Len(v) : l[k] = IF k <= Len(u) THEN u[k] ELSE v[k - Len(u)]
    BY <2>2, SequencesJoin
  <2> HIDE DEF l
  <2>4. Len(l) = 4 /\ l[1] = a /\ \A k \in 2..4 : l[k] = v[k - 1]
    BY <2>1, <2>3
  <2>5. \A k \in 2..4 : k = 2 \/ k = 3 \/ k = 4
    OBVIOUS
  <2>6. \A k \in 2..4 : Calm(l[k])
    BY <1>5, <2>1, <2>4, <2>5
  <2>7. l # <<>>
    <3>1. Len(<<>>) = 0
      OBVIOUS
    <3> QED BY <2>4, <3>1
  <2>8. Precise(l, now) /\ Ends(l, now)
    BY <1>5, <2>3, <2>4, <2>6, <2>7, FirmEnds
  <2> QED BY <2>8 DEF l, u, v
<1>6. \A c, d : /\ c.run # "eval" /\ d.run # "eval" => Precise(<<c, d>>, now)
                /\ Firm(d) => Ends(<<c, d>>, now)
                /\ Firm(c) /\ Calm(d) => Precise(<<c, d>>, now) /\ Ends(<<c, d>>, now)
  BY <1>3
<1>7. \A b, c, d :
        /\ b.run # "eval" /\ c.run # "eval" /\ d.run # "eval" => Precise(<<b, c, d>>, now)
        /\ Firm(c) /\ Calm(d) => Ends(<<b, c, d>>, now)
  BY <1>4
<1>8. \A c : /\ c.run # "eval" => Precise(<<c>>, now)
             /\ Firm(c) => Ends(<<c>>, now)
             /\ c.run = "eval" /\ now => Precise(<<c>>, now) /\ Ends(<<c>>, now)
  BY <1>2
<1>9. \A a, b, c, d : Firm(a) /\ Calm(b) /\ Calm(c) /\ Calm(d)
        => Precise(<<a>> \o <<b, c, d>>, now) /\ Ends(<<a>> \o <<b, c, d>>, now)
  BY <1>5
<1> QED BY <1>1, <1>6, <1>7, <1>8, <1>9

\* Which of the calls are firm, and which are calm
LEMMA FirmCalls ==
  ASSUME NEW s, NEW t
  PROVE  /\ Firm(Promote(s)) /\ Calm(Promote(s)) /\ Promote(s).run # "eval"
         /\ \A f, e : /\ Call(f, s, e).run # "eval"
                      /\ f # "assign" => Firm(Call(f, s, e)) /\ Calm(Call(f, s, e))
         /\ \A op, xs : Eval(op, s, xs).run = "eval" /\ Calm(Eval(op, s, xs))
         /\ \A e : Construct(t, e).run # "eval" /\ Calm(Construct(t, e))
         /\ Destroy(t).run # "eval" /\ Calm(Destroy(t))
         /\ SwapWith(s, t).run # "eval" /\ \A x : Copy(s, x).run # "eval"
<1>1. /\ Promote(s).run = "promote" /\ Destroy(t).run = "destroy"
      /\ SwapWith(s, t).run = "swap" /\ \A x : Copy(s, x).run = "copy"
  BY DEF Promote, Destroy, SwapWith, Copy
<1>2. /\ \A f, e : Call(f, s, e).run = "call" /\ Call(f, s, e).op = f
      /\ \A op, xs : Eval(op, s, xs).run = "eval"
      /\ \A e : Construct(t, e).run = "construct"
  BY DEF Call, Eval, Construct
<1> QED BY <1>1, <1>2 DEF Firm, Calm

\* What several functions leave to do
LEMMA PartsPrecise ==
  ASSUME NEW s, NEW t, NEW now
  PROVE  /\ \A op, xs : Precise(Operate(op, s, xs), now) /\ Ends(Operate(op, s, xs), now)
         /\ \A op, xs : now => Precise(<<Eval(op, s, xs)>>, now) /\ Ends(<<Eval(op, s, xs)>>, now)
         /\ \A f, e : /\ Precise(<<Call(f, s, e)>>, now)
                      /\ f # "assign" => Ends(<<Call(f, s, e)>>, now)
         /\ \A f, e : f # "assign" => /\ Precise(<<Promote(s), Call(f, s, e)>>, now)
                                      /\ Ends(<<Promote(s), Call(f, s, e)>>, now)
         /\ \A f, g, d, e : /\ Precise(<<Call(f, s, d), Call(g, s, e)>>, now)
                            /\ g # "assign" => Ends(<<Call(f, s, d), Call(g, s, e)>>, now)
         /\ \A f, e : f # "assign" => /\ Precise(Unknown(f, s, e, t), now)
                                      /\ Ends(Unknown(f, s, e, t), now)
         /\ \A op, e : /\ Precise(UnknownFactor(op, s, e, t), now)
                       /\ Ends(UnknownFactor(op, s, e, t), now)
         /\ \A op, xs, e :
              /\ Precise(<<Promote(s)>> \o Temp(t, e, <<Eval(op, s, xs)>>), now)
              /\ Ends(<<Promote(s)>> \o Temp(t, e, <<Eval(op, s, xs)>>), now)
         /\ \A e : Precise(Temp(t, e, <<SwapWith(s, t)>>), now)
<1>1. \A op, xs : Precise(Operate(op, s, xs), now) /\ Ends(Operate(op, s, xs), now)
  <2>1. \A op, xs : Calm(Eval(op, s, xs)) /\ Firm(Promote(s))
    BY FirmCalls
  <2> QED BY <2>1, FewEnd DEF Operate
<1>2. \A op, xs : now => Precise(<<Eval(op, s, xs)>>, now) /\ Ends(<<Eval(op, s, xs)>>, now)
  BY FirmCalls, FewEnd
<1>3. \A f, e : /\ Precise(<<Call(f, s, e)>>, now)
                /\ f # "assign" => Ends(<<Call(f, s, e)>>, now)
  BY FirmCalls, FewEnd
<1>4. \A f, e : f # "assign" => /\ Precise(<<Promote(s), Call(f, s, e)>>, now)
                                /\ Ends(<<Promote(s), Call(f, s, e)>>, now)
  BY FirmCalls, FewEnd
<1>5. \A f, g, d, e : /\ Precise(<<Call(f, s, d), Call(g, s, e)>>, now)
                      /\ g # "assign" => Ends(<<Call(f, s, d), Call(g, s, e)>>, now)
  BY FirmCalls, FewEnd
<1>6. \A e, c : Temp(t, e, <<c>>) = <<Construct(t, e), c, Destroy(t)>>
  BY CallsJoin DEF Temp
<1>7. ASSUME NEW f, NEW e, f # "assign"
      PROVE  Precise(Unknown(f, s, e, t), now) /\ Ends(Unknown(f, s, e, t), now)
  <2>1. Unknown(f, s, e, t) = <<Construct(t, e), Call(f, s, terminal(t)), Destroy(t)>>
    BY <1>6 DEF Unknown
  <2>2. /\ Construct(t, e).run # "eval" /\ Call(f, s, terminal(t)).run # "eval"
        /\ Destroy(t).run # "eval" /\ Firm(Call(f, s, terminal(t))) /\ Calm(Destroy(t))
    BY <1>7, FirmCalls
  <2> QED BY <2>1, <2>2, FewEnd
<1>8. ASSUME NEW op, NEW xs, NEW e
      PROVE  /\ Precise(<<Promote(s)>> \o Temp(t, e, <<Eval(op, s, xs)>>), now)
             /\ Ends(<<Promote(s)>> \o Temp(t, e, <<Eval(op, s, xs)>>), now)
  <2>1. /\ Firm(Promote(s)) /\ Calm(Construct(t, e)) /\ Calm(Eval(op, s, xs))
        /\ Calm(Destroy(t))
    BY FirmCalls
  <2>2. Temp(t, e, <<Eval(op, s, xs)>>) = <<Construct(t, e), Eval(op, s, xs), Destroy(t)>>
    BY <1>6
  <2> QED BY <2>1, <2>2, FewEnd
<1>9. \A e : Precise(Temp(t, e, <<SwapWith(s, t)>>), now)
  BY <1>6, FirmCalls, FewEnd
<1>10. \A op, e : /\ Precise(UnknownFactor(op, s, e, t), now)
                  /\ Ends(UnknownFactor(op, s, e, t), now)
  BY <1>8 DEF UnknownFactor
<1>11. \A f, e : f # "assign" => /\ Precise(Unknown(f, s, e, t), now)
                                 /\ Ends(Unknown(f, s, e, t), now)
  BY <1>7
<1> QED BY <1>1, <1>2, <1>3, <1>4, <1>5, <1>8, <1>9, <1>10, <1>11

\* The functions promote their number before they compute, all but one; and all but
\* do_assign do so in any case.
LEMMA BodyPrecise ==
  ASSUME NEW f, NEW s, NEW t, NEW e, NEW now,
         f = "minus" /\ e.tag = "subtract_immediates" => now
  PROVE  /\ Precise(Body(f, s, e, t), now)
         /\ f # "assign" => Ends(Body(f, s, e, t), now)
<1> DEFINE Whole(l) == Precise(l, now) /\ Ends(l, now)
<1>1. /\ \A op, xs : Whole(Operate(op, s, xs))
      /\ \A g, d : g # "assign" => Whole(<<Call(g, s, d)>>)
      /\ \A g, d : g # "assign" => Whole(<<Promote(s), Call(g, s, d)>>)
      /\ \A g, h : h # "assign" => Whole(Both(g, h, s, e))
      /\ \A g, d : g # "assign" => Whole(Unknown(g, s, d, t))
      /\ \A op, d : Whole(UnknownFactor(op, s, d, t))
  BY PartsPrecise DEF Both
<1>2. now => \A op, xs : Whole(<<Eval(op, s, xs)>>)
  BY PartsPrecise
<1>3. Precise(do_assign(s, e, t), now)
  <2>1. /\ Precise(<<>>, now) /\ Precise(<<Copy(s, value(e))>>, now)
    BY FewEnd, FirmCalls
  <2>2. Precise(assign_sum(s, e, t), now)
    BY PartsPrecise DEF assign_sum, Both
  <2>3. Precise(assign_quotient(s, e, t), now)
    BY PartsPrecise DEF assign_quotient, Both
  <2> QED BY <2>1, <2>2, <2>3, PartsPrecise DEF do_assign
<1> HIDE DEF Whole
<1>4. Whole(do_add(s, e, t))
  BY <1>1 DEF do_add
<1>5. f = "minus" => Whole(do_subtract(s, e, t))
  BY <1>1, <1>2 DEF do_subtract
<1>6. Whole(do_multiplies(s, e, t))
  BY <1>1 DEF do_multiplies
<1>7. Whole(do_divide(s, e, t))
  BY <1>1 DEF do_divide
<1>8. /\ f = "assign" => Body(f, s, e, t) = do_assign(s, e, t)
      /\ f # "assign" => \/ Body(f, s, e, t) = do_add(s, e, t)
                         \/ Body(f, s, e, t) = do_subtract(s, e, t) /\ f = "minus"
                         \/ Body(f, s, e, t) = do_multiplies(s, e, t)
                         \/ Body(f, s, e, t) = do_divide(s, e, t)
  BY DEF Body
<1> QED BY <1>3, <1>4, <1>5, <1>6, <1>7, <1>8 DEF Whole

----------------------------------------------------------------------------
(* The invariant. *)

\* A number that has a value, with the room that its precision says
Good(o) == num[o].prec \in Precisions /\ num[o] = DefaultNumber(num[o].prec)

\* The precision of the temporary of an assignment, as it is or as the assignment to it
\* will leave it
Expected(i) == IF i = Len(stack) THEN num[i].prec ELSE stack[i + 1].new

\* An assignment reads only numbers that are no more precise than its guard says, and its
\* target is not either, unless it is to be moved to.
Sound(i) ==
  /\ stack[i].new \in Precisions
  /\ Fitting(stack[i].todo, WrittenTo(i), i, Usable(stack[i].new))
  /\ Good(WrittenTo(i))
  /\ num[WrittenTo(i)].prec <= stack[i].new \/ ByMove(i)
  /\ Expected(i) <= stack[i].new

\* All that is to do gives the target the precision p: an expression of this precision is
\* assigned or copied, or a temporary constructed from it is, ...
Outright(l, p) ==
  \/ Len(l) = 1 /\ l[1].run = "call" /\ l[1].op = "assign" /\ precision_of(l[1].of) = p
  \/ Len(l) = 1 /\ l[1].run = "copy" /\ num[l[1].of].prec = p
  \/ /\ Len(l) = 3 /\ l[1].run = "construct" /\ Transfers(l[2]) /\ l[3].run = "destroy"
     /\ precision_of(l[1].of) = p

\* ... or has been.
Complete(l) == Len(l) = 2 /\ Transfers(l[1]) /\ l[2].run = "destroy"

\* Each operation of an assignment has the precision of the guard, as has its result.
Exact(i) ==
  LET l == stack[i].todo
      now == num[WrittenTo(i)].prec = stack[i].new
  IN /\ Precise(l, now)
     /\ \/ Ends(l, now)
        \/ i = Len(stack) /\ Outright(l, stack[i].new)
        \/ Complete(l) /\ Expected(i) = stack[i].new

\* What is known of each value agrees with its precision, and a constant had too few
\* digits only where it has no room for more.
Served ==
  \A o \in Object :
    /\ made[o].due \in Precisions \cup {0} /\ made[o].due <= num[o].prec
    /\ made[o].kept
    /\ made[o].served \/ (constant # NoConstant /\ constant.room < made[o].due)

\* The numbers of the program have values, but for those that were moved from.
Numbers ==
  \A x \in Number : /\ num[x].prec \in Precisions /\ num[x].room \in Precisions
                    /\ x \notin moved => Good(x)

\* A constant has all the digits it has room for, or all that it was computed for.
ConstantInv ==
  \/ constant = NoConstant
  \/ /\ constant.room \in Nat /\ constant.right \in Nat /\ constant.digits \in Nat
     /\ constant.right >= constant.room \/ constant.right >= constant.digits

Running ==
  /\ call = [on |-> call.on, prec |-> call.prec, unpromoted |-> call.unpromoted]
  /\ call.on \in Number \ moved /\ call.prec = stack[1].new
  /\ \A i \in 1..Len(stack) : Sound(i)
  /\ num[Len(stack)].prec \in Nat
  /\ top.todo # <<>> /\ Transfers(next) => Good(Len(stack))

Correct == Served /\ \A i \in 1..Len(stack) : Exact(i)

PInv ==
  /\ asked \in Precisions /\ Len(stack) <= MaxDepth /\ made = [x \in Object |-> made[x]]
  /\ Numbers /\ ConstantInv
  /\ pc = "running" => Running
  /\ pc = "running" /\ ~call.unpromoted => Correct
  /\ Computed => LargestPrecision /\ Served /\ call.on \in Number

\* A sequence of calls that are calm
LEMMA CalmEnds ==
  ASSUME NEW l, Sequence(l), \A k \in 1..Len(l) : Calm(l[k])
  PROVE  Ends(l, TRUE)
<1>1. Len(l) \in Nat
  BY SequenceLength
<1>2. 0 \in 0..(Len(l) + 1) - 1 /\ \A i \in 0 + 1..(Len(l) + 1) - 1 : i \in 1..Len(l)
  BY <1>1
<1> QED BY <1>2 DEF Ends, Settled

\* The numbers of the running assignments
LEMMA Targets ==
  ASSUME IInv, PInv, Running, stack # <<>>
  PROVE  /\ Len(stack) \in Nat /\ Len(stack) \in 1..Len(stack)
         /\ 1..Len(stack) \subseteq Temporary /\ Number \cap Temporary = {}
         /\ num = [x \in Object |-> num[x]]
         /\ \A i \in 1..Len(stack) : /\ WrittenTo(i) \in Object /\ i \in Object /\ WrittenTo(i) # i
                                     /\ i = 1 => WrittenTo(i) = call.on
                                     /\ i # 1 => WrittenTo(i) = i - 1 /\ i - 1 \in Temporary
         /\ call.on \in Number
<1>1. Len(stack) \in Nat /\ Len(stack) \in 1..Len(stack)
  BY SequenceLength DEF IInv, Stacked
<1>2. MaxDepth \in Nat /\ Number \cap (1..MaxDepth) = {} /\ Len(stack) <= MaxDepth
  BY PrecisionAssumption DEF PInv
<1>3. 1..Len(stack) \subseteq Temporary /\ Number \cap Temporary = {}
  BY <1>1, <1>2 DEF Temporary
<1>4. num = [x \in Object |-> num[x]]
  BY DEF IInv, Owned
<1>5. call.on \in Number
  BY DEF Running
<1>6. ASSUME NEW i \in 1..Len(stack)
      PROVE  /\ WrittenTo(i) \in Object /\ i \in Object /\ WrittenTo(i) # i
             /\ i = 1 => WrittenTo(i) = call.on
             /\ i # 1 => WrittenTo(i) = i - 1 /\ i - 1 \in Temporary
  <2>1. i \in Temporary
    BY <1>3
  <2>2. CASE i = 1
    BY <1>3, <1>5, <2>1, <2>2 DEF WrittenTo, Object
  <2>3. CASE i # 1
    <3>1. i - 1 \in Temporary /\ i - 1 # i
      BY <1>1, <1>2, <2>3 DEF Temporary
    <3> QED BY <2>1, <2>3, <3>1 DEF WrittenTo, Object
  <2> QED BY <2>2, <2>3
<1> QED BY <1>1, <1>3, <1>4, <1>5, <1>6

\* The last assignment and its next call
LEMMA NextCall ==
  ASSUME IInv, TInv, PInv, pc = "running", top.todo # <<>>
  PROVE  LET n == Len(stack) s == WrittenTo(Len(stack)) IN
         /\ stack # <<>> /\ Running /\ top = stack[n] /\ Sound(n) /\ Sequence(top.todo)
         /\ default = stack[n].new /\ default \in Precisions /\ default \in Nat
         /\ Fits(next, s, n, Usable(default)) /\ Fitting(Tail(top.todo), s, n, Usable(default))
         /\ next.run # "construct" => Fresh(Tail(top.todo), s, n, Usable(default))
         /\ Good(s) /\ num[s].prec \in Nat
         /\ next.run \notin {"move", "construct"} => num[s].prec <= default
         /\ num[n].prec \in Nat /\ num[n].prec <= default
         /\ Transfers(next) => Good(n)
<1> DEFINE n == Len(stack)
           s == WrittenTo(n)
<1>1. Running /\ stack # <<>> /\ top = stack[n]
  BY DEF PInv, IInv, top
<1>2. n \in Nat /\ n \in 1..n
  BY <1>1, Targets
<1>3. Sound(n)
  BY <1>1, <1>2 DEF Running
<1>4. default = stack[n].new
  BY <1>1 DEF IInv, Chained
<1>5. default \in Precisions /\ default \in Nat
  BY <1>3, <1>4, PrecisionAssumption DEF Sound
<1>6. Fitting(top.todo, s, n, Usable(default))
  BY <1>1, <1>3, <1>4 DEF Sound
<1>7. /\ Fits(next, s, n, Usable(default)) /\ Fitting(Tail(top.todo), s, n, Usable(default))
      /\ next.run # "construct" => Fresh(Tail(top.todo), s, n, Usable(default))
  BY <1>6, FittingTail DEF next
<1>8. Good(s) /\ num[s].prec \in Nat
  BY <1>3, PrecisionAssumption DEF Sound, Good
<1>9. ASSUME next.run \notin {"move", "construct"}
      PROVE  num[s].prec <= default
  <2>1. Plain(top.todo)
    BY <1>9, TopState
  <2>2. ~ByMove(n)
    BY <1>1, <2>1, Apart DEF ByMove
  <2> QED BY <1>3, <1>4, <2>2 DEF Sound
<1>10. num[n].prec \in Nat /\ num[n].prec <= default
  BY <1>1, <1>3, <1>4 DEF Running, Sound, Expected
<1>11. Transfers(next) => Good(n)
  BY <1>1 DEF Running
<1>12. Sequence(top.todo)
  BY <1>6 DEF Fitting
<1> QED BY <1>1, <1>3, <1>4, <1>5, <1>7, <1>8, <1>9, <1>10, <1>11, <1>12

\* What a step of the last assignment may change, but for what is known of the values:
\* the number that it writes to and its temporary
Changes ==
  /\ pc = "running" /\ pc' = pc /\ top.todo # <<>>
  /\ default' = default /\ asked' = asked /\ moved' = moved
  /\ call' = [on |-> call.on, prec |-> call.prec, unpromoted |-> call'.unpromoted]
  /\ num' = [x \in Object |-> num'[x]] /\ made' = [x \in Object |-> made'[x]]
  /\ \A x \in Object : x # WrittenTo(Len(stack)) /\ x # Len(stack) => num'[x] = num[x]

\* What the other assignments write to and read is not changed.
LEMMA OthersUnchanged ==
  ASSUME IInv, TInv, PInv, Changes, NEW cs, Orderly(cs, Len(stack)), stack' = Then(cs)
  PROVE  LET n == Len(stack) IN
         /\ Len(stack') = n /\ stack'[n].todo = cs \o Tail(top.todo)
         /\ \A i \in 1..n : stack'[i].new = stack[i].new /\ WrittenTo(i)' = WrittenTo(i)
         /\ \A i \in 1..n : i # n => /\ stack'[i] = stack[i] /\ Expected(i)' = Expected(i)
                                     /\ num'[WrittenTo(i)] = num[WrittenTo(i)]
         /\ n # 1 => \A x \in Number : num'[x] = num[x]
<1> PICK n : n = Len(stack)
  OBVIOUS
<1>1. /\ Running /\ stack # <<>> /\ Stacked(stack) /\ top = stack[n]
      /\ stack' = Advanced(stack, cs)
  BY NextCall DEF Changes, IInv, Then, Advanced
<1>2. /\ n \in Nat /\ n \in 1..n /\ 1..n \subseteq Temporary /\ Number \cap Temporary = {}
      /\ \A i \in 1..n : /\ WrittenTo(i) \in Object /\ WrittenTo(i) # i
                         /\ i = 1 => WrittenTo(i) = call.on
                         /\ i # 1 => WrittenTo(i) = i - 1 /\ i - 1 \in Temporary
      /\ call.on \in Number
  BY <1>1, Targets
<1>3. /\ Len(stack') = n /\ \A i \in 1..n : i # n => stack'[i] = stack[i]
      /\ stack'[n].new = stack[n].new
  BY <1>1, AdvancedStack DEF Changes
<1>4. stack'[n].todo = cs \o Tail(top.todo)
  BY <1>1, AdvancedTodo
<1>5. \A i \in 1..n : stack'[i].new = stack[i].new
  BY <1>3
<1>6. \A i : WrittenTo(i)' = WrittenTo(i)
  BY DEF Changes, WrittenTo
<1>7. ASSUME NEW i \in 1..n, i # n
      PROVE  Expected(i)' = Expected(i)
  <2>1. i + 1 \in 1..n
    BY <1>2, <1>7
  <2>2. Expected(i) = stack[i + 1].new /\ Expected(i)' = stack'[i + 1].new
    BY <1>3, <1>7 DEF Expected
  <2> QED BY <1>5, <2>1, <2>2
<1>8. ASSUME NEW i \in 1..n, i # n
      PROVE  num'[WrittenTo(i)] = num[WrittenTo(i)]
  <2>1. WrittenTo(i) # n /\ WrittenTo(i) # WrittenTo(n)
    <3>1. n # 1 /\ n \in Temporary /\ WrittenTo(n) = n - 1 /\ n - 1 \in Temporary
      <4>1. n # 1
        <5>1. n \in Nat /\ i \in 1..n /\ i # n
          BY <1>2, <1>8
        <5> QED BY <5>1
      <4>2. n \in Temporary
        BY <1>2
      <4> QED BY <1>2, <4>1, <4>2
    <3>2. CASE i = 1
      BY <1>2, <3>1, <3>2
    <3>3. CASE i # 1
      <4>1. WrittenTo(i) = i - 1 /\ i - 1 # n /\ i - 1 # n - 1
        BY <1>2, <1>8, <3>3
      <4> QED BY <3>1, <4>1
    <3> QED BY <3>2, <3>3
  <2> QED BY <1>2, <2>1 DEF Changes
<1>9. ASSUME n # 1, NEW x \in Number
      PROVE  num'[x] = num[x]
  <2>1. x # n /\ x # WrittenTo(n) /\ x \in Object
    BY <1>2, <1>9 DEF Object
  <2> QED BY <2>1 DEF Changes
<1> QED BY <1>3, <1>4, <1>5, <1>6, <1>7, <1>8, <1>9

\* Calls that fit still fit if more numbers may be read.
LEMMA FittingMore ==
  ASSUME NEW l, NEW s, NEW t, NEW ns, NEW ms, ns \subseteq ms, Fitting(l, s, t, ns)
  PROVE  Fitting(l, s, t, ms)
<1>1. \A c : Fits(c, s, t, ns) => Fits(c, s, t, ms)
  BY DEF Fits
<1> QED BY <1>1 DEF Fitting

\* The step leaves the assignments sound if it leaves a value in the number, which is no
\* more precise than the guard says, and makes only calls that fit.
LEMMA StepSound ==
  ASSUME IInv, TInv, PInv, Changes, NEW cs, Orderly(cs, Len(stack)), stack' = Then(cs),
         Fresh(cs, WrittenTo(Len(stack)), Len(stack), Usable(default)),
         next.run # "construct",
         num'[WrittenTo(Len(stack))].prec \in Precisions,
         num'[WrittenTo(Len(stack))] = DefaultNumber(num'[WrittenTo(Len(stack))].prec),
         num'[WrittenTo(Len(stack))].prec <= default,
         num'[Len(stack)].prec \in Nat, num'[Len(stack)].prec <= default
  PROVE  Running' /\ Numbers'
<1> PICK n : n = Len(stack)
  OBVIOUS
<1> PICK s : s = WrittenTo(n)
  OBVIOUS
<1> PICK l : l = cs \o Tail(top.todo)
  OBVIOUS
<1>1. /\ Running /\ stack # <<>> /\ default = stack[n].new /\ default \in Precisions
      /\ Fresh(Tail(top.todo), s, n, Usable(default))
  BY NextCall DEF Changes
<1>2. /\ n \in Nat /\ n \in 1..n /\ 1..n \subseteq Temporary /\ Number \cap Temporary = {}
      /\ \A i \in 1..n : /\ WrittenTo(i) \in Object
                         /\ i = 1 => WrittenTo(i) = call.on
      /\ call.on \in Number /\ s # n
  BY <1>1, Targets
<1>3. /\ Len(stack') = n /\ stack'[n].todo = l
      /\ \A i \in 1..n : stack'[i].new = stack[i].new /\ WrittenTo(i)' = WrittenTo(i)
      /\ \A i \in 1..n : i # n => /\ stack'[i] = stack[i] /\ Expected(i)' = Expected(i)
                                  /\ num'[WrittenTo(i)] = num[WrittenTo(i)]
      /\ n # 1 => \A x \in Number : num'[x] = num[x]
  BY OthersUnchanged
<1>4. Fresh(l, s, n, Usable(default))
  BY <1>1, FreshJoin
<1>5. ASSUME NEW i \in 1..n
      PROVE  Usable(stack[i].new) \subseteq Usable(stack[i].new)'
  <2> SUFFICES ASSUME NEW x \in Number \ moved, num[x].prec <= stack[i].new
               PROVE  num'[x].prec <= stack[i].new
    BY <1>3 DEF Usable, Changes
  <2>1. CASE n # 1
    BY <1>3, <2>1
  <2>2. CASE n = 1 /\ x # s
    <3>1. x \in Object /\ x # n
      BY <1>2 DEF Object
    <3> QED BY <2>2, <3>1 DEF Changes
  <2>3. CASE n = 1 /\ x = s
    <3>1. i = n
      BY <1>2, <2>3
    <3> QED BY <1>1, <2>3, <3>1
  <2> QED BY <2>1, <2>2, <2>3
<1>6. Sound(n)'
  <2>1. stack'[n].new \in Precisions /\ stack'[n].new = default
    BY <1>1, <1>2, <1>3
  <2>2. Fitting(l, s, n, Usable(stack[n].new)')
    <3>1. Fitting(l, s, n, Usable(default))
      BY <1>4 DEF Fresh
    <3>2. Usable(default) \subseteq Usable(stack[n].new)'
      BY <1>1, <1>2, <1>5
    <3> QED BY <3>1, <3>2, FittingMore
  <2>3. WrittenTo(n)' = s
    BY <1>2, <1>3
  <2>4. Good(s)'
    BY <2>3 DEF Good
  <2>5. num'[s].prec <= stack'[n].new
    BY <2>1
  <2>6. Expected(n)' <= stack'[n].new
    BY <1>3, <2>1 DEF Expected
  <2> QED BY <1>3, <2>1, <2>2, <2>3, <2>4, <2>5, <2>6 DEF Sound
<1>7. ASSUME NEW i \in 1..n, i # n
      PROVE  Sound(i)'
  <2>1. Sound(i)
    BY <1>1 DEF Running
  <2>2. Fitting(stack[i].todo, WrittenTo(i), i, Usable(stack[i].new)')
    BY <1>5, <2>1, FittingMore DEF Sound
  <2>3. stack'[i] = stack[i] /\ WrittenTo(i)' = WrittenTo(i)
        /\ num'[WrittenTo(i)] = num[WrittenTo(i)] /\ Expected(i)' = Expected(i)
    BY <1>3, <1>7
  <2>4. Good(WrittenTo(i))'
    BY <2>1, <2>3 DEF Sound, Good
  <2>5. num'[WrittenTo(i)'].prec <= stack'[i].new \/ ByMove(i)'
    BY <2>1, <2>3 DEF Sound, ByMove
  <2> QED BY <2>1, <2>2, <2>3, <2>4, <2>5 DEF Sound
<1>8. /\ call' = [on |-> call'.on, prec |-> call'.prec, unpromoted |-> call'.unpromoted]
      /\ call'.on \in Number \ moved' /\ call'.prec = stack'[1].new
  <2>1. 1 \in 1..n
    BY <1>2
  <2> QED BY <1>1, <1>3, <2>1 DEF Running, Changes
<1>9. top'.todo # <<>> /\ Transfers(next)' => Good(n)'
  <2>1. top'.todo = l /\ next' = Head(l)
    BY <1>3 DEF top, next
  <2>2. Transfers(next)' = Transfers(Head(l))
    BY <2>1 DEF Transfers
  <2> QED BY <1>4, <2>1, <2>2 DEF Fresh
<1>10. Running'
  BY <1>3, <1>6, <1>7, <1>8, <1>9 DEF Running
<1>11. Numbers'
  <2>1. ASSUME NEW x \in Number
        PROVE  /\ num'[x].prec \in Precisions /\ num'[x].room \in Precisions
               /\ x \notin moved' => Good(x)'
    <3>1. CASE x = s
      BY <3>1 DEF Good, DefaultNumber
    <3>2. CASE x # s
      <4>1. num'[x] = num[x]
        <5>1. x \in Object /\ x # n
          BY <1>2 DEF Object
        <5> QED BY <3>2, <5>1 DEF Changes
      <4> QED BY <4>1 DEF PInv, Numbers, Good, Changes
    <3> QED BY <3>1, <3>2
  <2> QED BY <2>1 DEF Numbers
<1> QED BY <1>10, <1>11

\* The step leaves the assignments exact if the calls it makes are, and keep what the call
\* that they stand for had promised.
LEMMA StepExact ==
  ASSUME IInv, TInv, PInv, Changes, NEW cs, Orderly(cs, Len(stack)), stack' = Then(cs),
         \A i \in 1..Len(stack) : Exact(i),
         NEW l, l = cs \o Tail(top.todo), NEW s, s = WrittenTo(Len(stack)),
         Precise(cs, num'[s].prec = default),
         Firm(next) \/ (num[s].prec = default /\ Calm(next)) => Ends(cs, num'[s].prec = default),
         \/ Outright(top.todo, default)
         \/ Complete(top.todo) /\ num[Len(stack)].prec = default
         => Ends(l, num'[s].prec = default) \/ Outright(l, default)'
  PROVE  (\A i \in 1..Len(stack) : Exact(i))'
<1> PICK n : n = Len(stack)
  OBVIOUS
<1>1. /\ stack # <<>> /\ default = stack[n].new /\ top = stack[n] /\ Sequence(top.todo)
      /\ top.todo # <<>> /\ default' = default /\ Running
  BY NextCall DEF Changes
<1>2. n \in Nat /\ n \in 1..n
  BY <1>1, Targets
<1>3. /\ Len(stack') = n /\ stack'[n].todo = l
      /\ \A i \in 1..n : stack'[i].new = stack[i].new /\ WrittenTo(i)' = WrittenTo(i)
      /\ \A i \in 1..n : i # n => /\ stack'[i] = stack[i] /\ Expected(i)' = Expected(i)
                                  /\ num'[WrittenTo(i)] = num[WrittenTo(i)]
  BY OthersUnchanged
<1>4. ASSUME NEW i \in 1..n, i # n
      PROVE  Exact(i)'
  <2>1. Exact(i)
    BY <1>4
  <2>2. stack'[i] = stack[i] /\ WrittenTo(i)' = WrittenTo(i)
        /\ num'[WrittenTo(i)] = num[WrittenTo(i)] /\ Expected(i)' = Expected(i)
    BY <1>3, <1>4
  <2>3. /\ Precise(stack[i].todo, num[WrittenTo(i)].prec = stack[i].new)
        /\ \/ Ends(stack[i].todo, num[WrittenTo(i)].prec = stack[i].new)
           \/ Complete(stack[i].todo) /\ Expected(i) = stack[i].new
    BY <1>4, <2>1 DEF Exact
  <2>4. (num'[WrittenTo(i)'].prec = stack'[i].new) = (num[WrittenTo(i)].prec = stack[i].new)
    BY <2>2
  <2>5. Complete(stack[i].todo) => Complete(stack'[i].todo)
    BY <2>2
  <2> QED BY <2>2, <2>3, <2>4 DEF Exact, Complete
<1>5. Exact(n)'
  <2>1. Exact(n)
    BY <1>2
  <2>2. /\ Precise(top.todo, num[s].prec = default)
        /\ \/ Ends(top.todo, num[s].prec = default)
           \/ Outright(top.todo, default)
           \/ Complete(top.todo) /\ num[n].prec = default
    BY <1>1, <2>1 DEF Exact, Expected
  <2>3. Sequence(cs)
    BY DEF Orderly
  <2>4. /\ Precise(l, num'[s].prec = default)
        /\ Ends(top.todo, num[s].prec = default) => Ends(l, num'[s].prec = default)
    <3> PICK now : now = (num[s].prec = default)
      OBVIOUS
    <3> PICK then : then = (num'[s].prec = default)
      OBVIOUS
    <3> PICK todo : todo = top.todo
      OBVIOUS
    <3>1. /\ Precise(todo, now) /\ Precise(cs, then) /\ todo # <<>> /\ Sequence(todo)
          /\ l = cs \o Tail(todo)
      BY <1>1, <2>2
    <3>2. Firm(Head(todo)) \/ (now /\ Calm(Head(todo))) => Ends(cs, then)
      BY DEF next
    <3>3. Precise(cs \o Tail(todo), then) /\ (Ends(todo, now) => Ends(cs \o Tail(todo), then))
      BY <2>3, <3>1, <3>2, SettledJoin
    <3> QED BY <3>1, <3>3
  <2>5. Ends(l, num'[s].prec = default) \/ Outright(l, default)'
    BY <2>2, <2>4
  <2>6. /\ stack'[n].todo = l /\ stack'[n].new = default /\ WrittenTo(n)' = s
        /\ default' = default /\ Len(stack') = n
    BY <1>1, <1>2, <1>3
  <2> QED BY <2>4, <2>5, <2>6 DEF Exact
<1> QED BY <1>3, <1>4, <1>5

----------------------------------------------------------------------------
(* The precision of an expression. *)

\* It is that of one of its numbers, and no other is more precise.
LEMMA LargestOf ==
  ASSUME Numbers, NEW ns \in SUBSET Number, ns # {}
  PROVE  /\ Largest(ns) \in Precisions /\ \A x \in ns : num[x].prec <= Largest(ns)
         /\ \E x \in ns : num[x].prec = Largest(ns)
<1> DEFINE S == {num[x].prec : x \in ns}
<1>1. S \subseteq Precisions /\ S # {}
  BY DEF Numbers
<1>2. S \in SUBSET Nat /\ IsFiniteSet(S)
  <2> HIDE DEF S
  <2> QED BY <1>1, PrecisionAssumption, FS_Subset
<1>3. Max(S) \in S /\ \A y \in S : y <= Max(S)
  <2> HIDE DEF S
  <2> QED BY <1>1, <1>2, LargestElement
<1>4. Largest(ns) = Max(S)
  BY DEF Largest
<1>5. \A x \in ns : num[x].prec \in S
  OBVIOUS
<1>6. \E x \in ns : num[x].prec = Max(S)
  BY <1>3
<1> QED BY <1>1, <1>3, <1>4, <1>5, <1>6

\* An expression that is a number has its precision.
LEMMA TerminalPrecision ==
  ASSUME Numbers, NEW e \in Expression, IsNumber(e)
  PROVE  num[value(e)].prec = precision_of(e) /\ value(e) \in e.numbers
         /\ \A s : contains_self(s, e) => s = value(e)
<1>1. PICK x \in Number : e = terminal(x)
  BY ExpressionAssumption
<1>2. e.numbers = {x}
  BY <1>1 DEF terminal
<1>3. value(e) = x
  BY <1>2 DEF value
<1>4. {x} \in SUBSET Number /\ {x} # {}
  OBVIOUS
<1>5. \E y \in {x} : num[y].prec = Largest({x})
  BY <1>4, LargestOf
<1> QED BY <1>2, <1>3, <1>5 DEF precision_of, contains_self

\* do_assign gives its number the precision of the expression, if it does not already have
\* that of the guard in the end, because of a promotion or of an operation.
LEMMA AssignedOutright ==
  ASSUME Numbers, NEW e \in Expression, NEW s, NEW t, NEW now,
         is_self(s, e) => now
  PROVE  Ends(do_assign(s, e, t), now) \/ Outright(do_assign(s, e, t), precision_of(e))
<1> DEFINE l == do_assign(s, e, t)
<1>1. \A c : Len(<<c>>) = 1 /\ <<c>>[1] = c
  OBVIOUS
<1>2. CASE IsNumber(e)
  <2>1. \/ is_self(s, e) /\ l = <<>>
        \/ l = <<Copy(s, value(e))>>
        \/ \E op : l = Operate(op, s, e.numbers)
    BY <1>2 DEF do_assign, IsNumber, IsNegated
  <2> HIDE DEF l
  <2>2. Outright(<<Copy(s, value(e))>>, precision_of(e))
    <3>1. Copy(s, value(e)).run = "copy" /\ Copy(s, value(e)).of = value(e)
      BY DEF Copy
    <3> QED BY <1>1, <1>2, <3>1, TerminalPrecision DEF Outright
  <2>3. now => Ends(<<>>, now)
    BY FewEnd
  <2>4. \A op : Ends(Operate(op, s, e.numbers), now)
    BY PartsPrecise
  <2> QED BY <2>1, <2>2, <2>3, <2>4 DEF l
<1>3. CASE ~IsNumber(e)
  <2>1. /\ \A op, xs : Ends(Operate(op, s, xs), now)
        /\ \A g, d : g # "assign" => Ends(<<Call(g, s, d)>>, now)
        /\ \A g, h : h # "assign" => Ends(Both(g, h, s, e), now)
        /\ \A g, h, c, d : h # "assign" => Ends(<<Call(g, s, c), Call(h, s, d)>>, now)
        /\ Ends(<<Promote(s)>> \o Temp(t, left(e), <<Eval("function", s, {t})>>), now)
    BY PartsPrecise DEF Both
  <2>2. Outright(Temp(t, e, <<SwapWith(s, t)>>), precision_of(e))
    <3>1. Temp(t, e, <<SwapWith(s, t)>>) = <<Construct(t, e), SwapWith(s, t), Destroy(t)>>
      BY CallsJoin DEF Temp
    <3>2. \A b, c, d : /\ Len(<<b, c, d>>) = 3 /\ <<b, c, d>>[1] = b
                       /\ <<b, c, d>>[2] = c /\ <<b, c, d>>[3] = d
      OBVIOUS
    <3>3. /\ Construct(t, e).run = "construct" /\ Construct(t, e).of = e
          /\ SwapWith(s, t).run = "swap" /\ Destroy(t).run = "destroy"
      BY DEF Construct, SwapWith, Destroy
    <3> QED BY <3>1, <3>2, <3>3 DEF Outright, Transfers
  <2>3. IsNegated(e) => Outright(<<Call("assign", s, left(e))>>, precision_of(e))
    <3>1. IsNegated(e) => precision_of(left(e)) = precision_of(e)
      BY <1>3, OperandsOf DEF precision_of
    <3>2. /\ Call("assign", s, left(e)).run = "call" /\ Call("assign", s, left(e)).op = "assign"
          /\ Call("assign", s, left(e)).of = left(e)
      BY DEF Call
    <3> QED BY <1>1, <3>1, <3>2 DEF Outright
  <2>4. e.tag \in {"plus", "minus", "multiplies"} =>
          Ends(assign_sum(s, e, t), now) \/ Outright(assign_sum(s, e, t), precision_of(e))
    BY <2>1, <2>2 DEF assign_sum
  <2>5. \/ Ends(assign_quotient(s, e, t), now)
        \/ Outright(assign_quotient(s, e, t), precision_of(e))
    BY <2>1, <2>2 DEF assign_quotient
  <2> QED BY <1>3, <2>1, <2>3, <2>4, <2>5 DEF do_assign
<1> QED BY <1>2, <1>3

----------------------------------------------------------------------------
(* The steps of the last assignment. *)

\* What is left to show of such a step
LEMMA StepInv ==
  ASSUME IInv, TInv, PInv, Changes, NEW cs, Orderly(cs, Len(stack)), stack' = Then(cs),
         Running', Numbers', ConstantInv', ~call'.unpromoted => Correct'
  PROVE  PInv'
<1>1. Len(stack') = Len(stack)
  BY OthersUnchanged
<1>2. pc' = "running" /\ asked' = asked /\ made' = [x \in Object |-> made'[x]]
  BY DEF Changes
<1>3. ~Computed'
  BY <1>2 DEF Computed
<1>4. asked \in Precisions /\ Len(stack) <= MaxDepth
  BY DEF PInv
<1> QED BY <1>1, <1>2, <1>3, <1>4 DEF PInv

\* What is next is one call, of which nothing is left when it has been made.
LEMMA OneCall ==
  ASSUME NEW cs, Orderly(cs, Len(stack)), Sequence(top.todo), Len(top.todo) = 1
  PROVE  next = top.todo[1] /\ cs \o Tail(top.todo) = cs
<1> PICK l : l = top.todo
  OBVIOUS
<1>1. l # <<>>
  <2>1. Len(<<>>) = 0 /\ 0 # 1
    OBVIOUS
  <2>2. Len(l) = 1
    OBVIOUS
  <2> QED BY <2>1, <2>2
<1>2. Sequence(Tail(l)) /\ Head(l) = l[1] /\ Len(Tail(l)) = 0
  BY <1>1, TailOf
<1>3. Tail(l) = <<>>
  BY <1>2, EmptySeq DEF Sequence
<1>4. cs \o <<>> = cs
  BY ConcatEmptySeq DEF Orderly, Sequence
<1> QED BY <1>2, <1>3, <1>4 DEF next

\* A function of number.hpp is called.
LEMMA EnterPrecise ==
  ASSUME IInv, TInv, PInv, Enter
  PROVE  PInv'
<1> PICK n : n = Len(stack)
  OBVIOUS
<1> PICK s : s = WrittenTo(n)
  OBVIOUS
<1> PICK f : f = next.op
  OBVIOUS
<1> PICK e : e = next.of
  OBVIOUS
<1> PICK cs : cs = Body(f, s, e, n)
  OBVIOUS
<1>1. /\ pc = "running" /\ pc' = pc /\ top.todo # <<>> /\ next.run = "call"
      /\ default' = default /\ asked' = asked /\ moved' = moved /\ num' = num
      /\ made' = made /\ constant' = constant
      /\ stack' = Then(Body(f, next.on, e, n))
      /\ call' = [call EXCEPT !.unpromoted = @ \/ Unpromoted(next)]
  BY DEF Enter, Does
<1>2. /\ Running /\ stack # <<>> /\ top = stack[n] /\ Sequence(top.todo)
      /\ default \in Precisions
      /\ Fits(next, s, n, Usable(default)) /\ Good(s) /\ num[s].prec <= default
      /\ num[n].prec \in Nat /\ num[n].prec <= default
  BY <1>1, NextCall
<1>3. /\ next.on = s
      /\ \/ e \in Expression /\ e.numbers \subseteq Usable(default)
         \/ e = terminal(n) /\ f # "assign"
  BY <1>1, <1>2 DEF Fits
<1>4. stack' = Then(cs) /\ Orderly(cs, n)
  <2>1. s \in Target(n)
    BY <1>1, <1>3, NextItem DEF Item
  <2> QED BY <1>1, <1>3, <2>1, BodyOrderly
<1>9. /\ call' = [on |-> call.on, prec |-> call.prec, unpromoted |-> call'.unpromoted]
      /\ call'.unpromoted <=> call.unpromoted \/ Unpromoted(next)
  <2>1. call = [on |-> call.on, prec |-> call.prec, unpromoted |-> call.unpromoted]
    BY <1>2 DEF Running
  <2> QED BY <1>1, <2>1
<1>5. Changes
  <2>1. num = [x \in Object |-> num[x]] /\ made = [x \in Object |-> made[x]]
    BY <1>2, Targets DEF PInv
  <2> QED BY <1>1, <1>9, <2>1 DEF Changes
<1>6. Fresh(cs, s, n, Usable(default))
  BY <1>3, BodyFresh
<1>7. Running' /\ Numbers'
  BY <1>1, <1>2, <1>4, <1>5, <1>6, StepSound DEF Good
<1>8. ConstantInv'
  BY <1>1 DEF PInv, ConstantInv
<1>10. ASSUME ~call'.unpromoted
       PROVE  Correct'
  <2>1. ~call.unpromoted /\ ~Unpromoted(next)
    BY <1>9, <1>10
  <2>2. Correct
    BY <1>1, <2>1 DEF PInv
  <2> PICK now : now = (num[s].prec = default)
    OBVIOUS
  <2>3. f = "minus" /\ e.tag = "subtract_immediates" => now
    BY <1>3, <2>1 DEF Unpromoted
  <2>4. Precise(cs, now) /\ (f # "assign" => Ends(cs, now))
    BY <2>3, BodyPrecise
  <2>5. Firm(next) => f # "assign"
    BY <1>1 DEF Firm
  <2>6. Calm(next) => Firm(next)
    BY <1>1 DEF Calm
  <2> PICK l : l = cs \o Tail(top.todo)
    OBVIOUS
  <2>7. ASSUME \/ Outright(top.todo, default)
               \/ Complete(top.todo) /\ num[n].prec = default
        PROVE  Ends(l, now) \/ Outright(l, default)'
    <3>1. Len(top.todo) = 1 /\ f = "assign" /\ precision_of(e) = default
      <4>1. next = top.todo[1]
        BY <1>1, <1>2, TailOf DEF next
      <4> QED BY <1>1, <2>7, <4>1 DEF Outright, Complete, Transfers
    <3>2. l = cs
      BY <1>2, <1>4, <3>1, OneCall
    <3>3. e \in Expression /\ cs = do_assign(s, e, n)
      BY <1>3, <3>1 DEF Body
    <3>4. is_self(s, e) => now
      <4>1. is_self(s, e) => num[s].prec = precision_of(e)
        BY <3>3, TerminalPrecision DEF is_self, PInv
      <4> QED BY <3>1, <4>1
    <3>5. Ends(cs, now) \/ Outright(cs, default)
      BY <3>1, <3>3, <3>4, AssignedOutright DEF PInv
    <3>6. Outright(cs, default) => Outright(cs, default)'
      BY <1>1 DEF Outright, precision_of, Largest
    <3> QED BY <3>2, <3>5, <3>6
  <2>8. (\A i \in 1..Len(stack) : Exact(i))'
    <3>1. now = (num'[s].prec = default)
      BY <1>1
    <3>2. \A i \in 1..Len(stack) : Exact(i)
      BY <2>2 DEF Correct
    <3>3. /\ Precise(cs, num'[s].prec = default)
          /\ Firm(next) \/ (num[s].prec = default /\ Calm(next)) => Ends(cs, num'[s].prec = default)
      BY <2>4, <2>5, <2>6, <3>1
    <3>4. \/ Outright(top.todo, default)
          \/ Complete(top.todo) /\ num[Len(stack)].prec = default
          => Ends(l, num'[s].prec = default) \/ Outright(l, default)'
      BY <2>7, <3>1
    <3> QED BY <1>4, <1>5, <3>2, <3>3, <3>4, StepExact
  <2>9. Served'
    BY <1>1, <2>2 DEF Correct, Served
  <2> QED BY <2>8, <2>9 DEF Correct
<1> QED BY <1>4, <1>5, <1>7, <1>8, <1>10, StepInv

\* The last assignment has made a call that stands for no others.
LEMMA CallMade ==
  ASSUME IInv, TInv, PInv, Changes, stack' = Then(<<>>), call' = call,
         next.run \notin {"call", "construct"}, ConstantInv',
         num'[WrittenTo(Len(stack))].prec \in Precisions,
         num'[WrittenTo(Len(stack))] = DefaultNumber(num'[WrittenTo(Len(stack))].prec),
         num'[WrittenTo(Len(stack))].prec <= default,
         num'[Len(stack)].prec \in Nat, num'[Len(stack)].prec <= default,
         next.run = "promote" => num'[WrittenTo(Len(stack))].prec = default,
         next.run \in {"eval", "destroy"} =>
           num'[WrittenTo(Len(stack))].prec = num[WrittenTo(Len(stack))].prec,
         next.run = "copy" => num'[WrittenTo(Len(stack))].prec = num[next.of].prec,
         Transfers(next) => num'[WrittenTo(Len(stack))].prec = num[Len(stack)].prec,
         Correct => Served'
  PROVE  PInv'
<1> PICK n : n = Len(stack)
  OBVIOUS
<1> PICK s : s = WrittenTo(n)
  OBVIOUS
<1> PICK l : l = <<>> \o Tail(top.todo)
  OBVIOUS
<1>1. /\ pc = "running" /\ Running /\ stack # <<>> /\ top = stack[n] /\ Sequence(top.todo)
      /\ top.todo # <<>>
  BY NextCall DEF Changes
<1>2. Orderly(<<>>, n)
  BY OrderlyNone
<1>3. Fresh(<<>>, s, n, Usable(default))
  BY FreshFew
<1>4. Running' /\ Numbers'
  BY <1>2, <1>3, StepSound
<1>5. /\ Sequence(Tail(top.todo)) /\ next = top.todo[1]
      /\ Len(Tail(top.todo)) = Len(top.todo) - 1
      /\ \A k \in 1..Len(Tail(top.todo)) : Tail(top.todo)[k] = top.todo[k + 1]
      /\ l = Tail(top.todo)
  <2>1. /\ Sequence(Tail(top.todo)) /\ next = top.todo[1]
        /\ Len(Tail(top.todo)) = Len(top.todo) - 1
        /\ \A k \in 1..Len(Tail(top.todo)) : Tail(top.todo)[k] = top.todo[k + 1]
    BY <1>1, TailOf DEF next
  <2>2. <<>> \o Tail(top.todo) = Tail(top.todo)
    BY <2>1, ConcatEmptySeq DEF Sequence
  <2> QED BY <2>1, <2>2
<1>6. ASSUME ~call'.unpromoted
      PROVE  Correct'
  <2>1. Correct
    BY <1>1, <1>6 DEF PInv
  <2> PICK now : now = (num[s].prec = default)
    OBVIOUS
  <2> PICK then : then = (num'[s].prec = default)
    OBVIOUS
  <2>2. Precise(<<>>, then) /\ (then => Ends(<<>>, then))
    BY FewEnd
  <2>3. Firm(next) \/ (now /\ Calm(next)) => then
    BY DEF Firm, Calm
  <2>4. ASSUME Outright(top.todo, default)
        PROVE  Ends(l, then)
    <3>1. next.run = "copy" /\ num[next.of].prec = default /\ Len(top.todo) = 1
      BY <1>5, <2>4 DEF Outright
    <3>2. l = <<>>
      BY <1>1, <1>2, <3>1, OneCall
    <3> QED BY <2>2, <3>1, <3>2
  <2>5. ASSUME Complete(top.todo), num[n].prec = default
        PROVE  Ends(l, then)
    <3>1. Transfers(next) /\ Len(l) = 1 /\ l[1].run = "destroy"
      BY <1>5, <2>5 DEF Complete
    <3>2. \A k \in 1..Len(l) : Calm(l[k])
      BY <3>1 DEF Calm
    <3>3. Ends(l, TRUE)
      BY <1>5, <3>2, CalmEnds
    <3>4. then = TRUE
      BY <2>5, <3>1
    <3> QED BY <3>3, <3>4
  <2>6. (\A i \in 1..Len(stack) : Exact(i))'
    <3>1. /\ Precise(<<>>, num'[s].prec = default)
          /\ Firm(next) \/ (num[s].prec = default /\ Calm(next))
             => Ends(<<>>, num'[s].prec = default)
      BY <2>2, <2>3
    <3>2. \/ Outright(top.todo, default)
          \/ Complete(top.todo) /\ num[Len(stack)].prec = default
          => Ends(l, num'[s].prec = default) \/ Outright(l, default)'
      BY <2>4, <2>5
    <3>3. \A i \in 1..Len(stack) : Exact(i)
      BY <2>1 DEF Correct
    <3> QED BY <1>2, <3>1, <3>2, <3>3, StepExact
  <2> QED BY <2>1, <2>6 DEF Correct
<1> QED BY <1>2, <1>4, <1>6, StepInv

\* The numbers of the last assignment, and what its next call names
LEMMA NextNames ==
  ASSUME IInv, TInv, PInv, pc = "running", top.todo # <<>>
  PROVE  LET n == Len(stack) s == WrittenTo(Len(stack)) IN
         /\ n \in Object /\ s \in Object /\ s # n /\ n \in 1..n
         /\ num = [x \in Object |-> num[x]]
         /\ call = [on |-> call.on, prec |-> call.prec, unpromoted |-> call.unpromoted]
         /\ next.run \in {"call", "eval", "promote", "copy", "move", "swap"} => next.on = s
         /\ next.run \in {"construct", "destroy"} => next.on = n
         /\ Transfers(next) => next.of = n
<1>1. /\ stack # <<>> /\ Running
      /\ Fits(next, WrittenTo(Len(stack)), Len(stack), Usable(default))
  BY NextCall
<1>2. Len(stack) \in 1..Len(stack)
  BY <1>1, Targets
<1>3. /\ num = [x \in Object |-> num[x]] /\ WrittenTo(Len(stack)) \in Object
      /\ Len(stack) \in Object /\ WrittenTo(Len(stack)) # Len(stack)
  BY <1>1, <1>2, Targets
<1> QED BY <1>1, <1>2, <1>3 DEF Fits, Running

\* The number gets the default precision.
LEMMA PromotePrecise ==
  ASSUME IInv, TInv, PInv, maybe_promote_precision
  PROVE  PInv'
<1> PICK n : n = Len(stack)
  OBVIOUS
<1> PICK s : s = WrittenTo(n)
  OBVIOUS
<1>1. /\ pc = "running" /\ pc' = pc /\ top.todo # <<>> /\ next.run = "promote"
      /\ default' = default /\ asked' = asked /\ moved' = moved /\ call' = call
      /\ made' = made /\ constant' = constant /\ stack' = Then(<<>>)
      /\ num' = IF num[next.on].prec = default THEN num
                ELSE [num EXCEPT ![next.on] = DefaultNumber(default)]
  BY DEF maybe_promote_precision, Does, history
<1>2. /\ default \in Precisions /\ default \in Nat /\ Good(s) /\ num[s].prec <= default
      /\ num[n].prec \in Nat /\ num[n].prec <= default /\ num[s].prec \in Nat
  BY <1>1, NextCall
<1>3. /\ n \in Object /\ s \in Object /\ s # n /\ next.on = s
      /\ num = [x \in Object |-> num[x]]
      /\ call = [on |-> call.on, prec |-> call.prec, unpromoted |-> call.unpromoted]
  BY <1>1, NextNames
<1>4. /\ num' = [x \in Object |-> num'[x]] /\ num'[s] = DefaultNumber(default)
      /\ \A x \in Object : x # s => num'[x] = num[x]
  <2>1. CASE num[s].prec = default
    BY <1>1, <1>2, <1>3, <2>1 DEF Good
  <2>2. CASE num[s].prec # default
    BY <1>1, <1>3, <2>2
  <2> QED BY <2>1, <2>2
<1>5. num'[s].prec = default /\ num'[n] = num[n]
  BY <1>3, <1>4 DEF DefaultNumber
<1>6. Changes
  BY <1>1, <1>3, <1>4 DEF Changes, PInv
<1>7. Correct => Served'
  <2>1. SUFFICES ASSUME Correct, NEW o \in Object
                 PROVE  /\ made'[o].due \in Precisions \cup {0} /\ made'[o].due <= num'[o].prec
                        /\ made'[o].kept
                        /\ \/ made'[o].served
                           \/ constant' # NoConstant /\ constant'.room < made'[o].due
    BY DEF Served
  <2>2. /\ made[o].due \in Precisions \cup {0} /\ made[o].due <= num[o].prec /\ made[o].kept
        /\ made[o].served \/ (constant # NoConstant /\ constant.room < made[o].due)
    BY <2>1 DEF Correct, Served
  <2>3. made[o].due <= num'[o].prec
    <3>1. CASE o = s
      <4>1. made[o].due \in Nat
        BY <2>2, DigitsAreNumbers
      <4> QED BY <1>2, <1>5, <2>2, <3>1, <4>1
    <3>2. CASE o # s
      BY <1>4, <2>2, <3>2
    <3> QED BY <3>1, <3>2
  <2> QED BY <1>1, <2>2, <2>3
<1>8. ConstantInv'
  BY <1>1 DEF PInv, ConstantInv
<1> QED BY <1>1, <1>2, <1>4, <1>5, <1>6, <1>7, <1>8, CallMade DEF Transfers

\* What a result needs is what the most precise of its operands needs.
LEMMA LargestDue ==
  ASSUME Served, NEW xs \in SUBSET Object, xs # {}
  PROVE  LET due == Max({made[x].due : x \in xs}) IN
         /\ due \in Precisions \cup {0}
         /\ \A x \in xs : made[x].due <= due
         /\ \E x \in xs : made[x].due = due
<1> DEFINE S == {made[x].due : x \in xs}
<1>1. S \subseteq Precisions \cup {0} /\ S # {}
  BY DEF Served
<1>2. S \in SUBSET Nat /\ IsFiniteSet(S)
  <2> HIDE DEF S
  <2>1. IsFiniteSet(Precisions \cup {0})
    BY PrecisionAssumption, FS_AddElement
  <2>2. IsFiniteSet(S)
    BY <1>1, <2>1, FS_Subset
  <2>3. Precisions \subseteq Nat
    BY PrecisionAssumption
  <2> QED BY <1>1, <2>2, <2>3
<1>3. Max(S) \in S /\ \A y \in S : y <= Max(S)
  <2> HIDE DEF S
  <2> QED BY <1>1, <1>2, LargestElement
<1>4. \A x \in xs : made[x].due \in S
  OBVIOUS
<1>5. \E x \in xs : made[x].due = Max(S)
  BY <1>3
<1> QED BY <1>1, <1>3, <1>4, <1>5

\* The constant, when it has been computed
LEMMA ConstantComputed ==
  ASSUME ConstantInv, NEW d \in Precisions
  PROVE  LET c == constant_for(d) IN
         /\ c # NoConstant /\ c.digits = d
         /\ c.room \in Nat /\ c.right \in Nat /\ c.digits \in Nat
         /\ c.right >= c.room \/ c.right >= c.digits
         /\ constant # NoConstant => c.room = constant.room
<1> DEFINE c == constant_for(d)
           room == IF constant = NoConstant THEN d ELSE constant.room
           text == IF d <= StringDigits THEN StringDigits ELSE d
<1>1. d \in Nat /\ d # 0 /\ StringDigits \in Nat
  BY PrecisionAssumption
<1>2. NoConstant.digits = 0 /\ NoConstant.room = 0
  BY DEF NoConstant
<1>3. CASE constant.digits = d
  <2>1. c = constant /\ constant # NoConstant
    BY <1>1, <1>2, <1>3 DEF constant_for
  <2> QED BY <1>3, <2>1 DEF ConstantInv
<1>4. CASE constant.digits # d
  <2>1. room \in Nat /\ text \in Nat /\ text >= d
    BY <1>1 DEF ConstantInv
  <2> HIDE DEF room, text
  <2>2. Min({room, text}) = room \/ Min({room, text}) = text
    BY <2>1, LeastOfTwo
  <2>3. c = [room |-> room, digits |-> d, right |-> Min({room, text})]
    BY <1>4 DEF constant_for, room, text
  <2> HIDE DEF c
  <2>4. /\ c.digits = d /\ c.room = room /\ (c.right = room \/ c.right = text)
    BY <2>2, <2>3
  <2>5. c # NoConstant
    BY <1>1, <1>2, <2>4
  <2>6. constant # NoConstant => c.room = constant.room
    BY <2>4 DEF room
  <2>7. c.right \in Nat /\ (c.right >= c.room \/ c.right >= c.digits)
    BY <1>1, <2>1, <2>4
  <2> QED BY <1>1, <2>1, <2>4, <2>5, <2>6, <2>7 DEF c
<1> QED BY <1>3, <1>4

\* What is known of a result that is computed with all the digits that the default says,
\* from numbers that have no more: k is the constant after that.
LEMMA ResultServed ==
  ASSUME Served, ConstantInv, default \in Precisions, NEW s, num[s] = DefaultNumber(default),
         NEW xs \in SUBSET Object, xs # {},
         \A x \in xs : num[x].prec \in Nat /\ num[x].prec <= default,
         NEW c, NEW k,
         (c = NoConstant /\ k = constant) \/ (c = constant_for(default) /\ k = c)
  PROVE  LET r == Result(s, xs, c) IN
         /\ r.due \in Precisions \cup {0} /\ r.due <= default /\ r.kept
         /\ r.served \/ (k # NoConstant /\ k.room < r.due)
<1> DEFINE due == Max({made[x].due : x \in xs})
           r == Result(s, xs, c)
<1>1. /\ due \in Precisions \cup {0}
      /\ \A x \in xs : made[x].due <= due
      /\ \E x \in xs : made[x].due = due
  BY LargestDue
<1> HIDE DEF due
<1>2. /\ r.due = due
      /\ r.kept = (num[s].room >= due /\ \A x \in xs : made[x].kept)
      /\ r.served = ((c.right >= due \/ c = NoConstant) /\ \A x \in xs : made[x].served)
  BY DEF Result, due
<1> HIDE DEF r
<1>3. default \in Nat /\ due \in Nat
  BY <1>1, DigitsAreNumbers
<1>4. \A x \in xs : /\ made[x].due \in Nat /\ made[x].due <= num[x].prec /\ made[x].kept
                    /\ made[x].served \/ (constant # NoConstant /\ constant.room < made[x].due)
  BY DigitsAreNumbers DEF Served
<1>5. due <= default
  <2>1. PICK x \in xs : made[x].due = due
    BY <1>1
  <2>2. num[x].prec \in Nat /\ num[x].prec <= default /\ due <= num[x].prec
    BY <1>4, <2>1
  <2> QED BY <1>3, <2>2
<1>6. num[s].room >= due
  <2>1. num[s].room = default
    BY DEF DefaultNumber
  <2> QED BY <1>3, <1>5, <2>1
<1>7. r.kept
  BY <1>2, <1>4, <1>6
<1>8. ASSUME c = constant_for(default)
      PROVE  /\ c # NoConstant /\ c.digits = default
             /\ c.room \in Nat /\ c.right \in Nat
             /\ c.right >= c.room \/ c.right >= c.digits
             /\ constant # NoConstant => c.room = constant.room
  BY <1>8, ConstantComputed
<1>9. ASSUME ~r.served
      PROVE  k # NoConstant /\ k.room < due
  <2>1. CASE \E x \in xs : ~made[x].served
    <3>1. PICK x \in xs : ~made[x].served
      BY <2>1
    <3>2. constant # NoConstant /\ constant.room < made[x].due /\ made[x].due <= due
      BY <1>1, <1>4, <3>1
    <3>3. constant.room \in Nat /\ made[x].due \in Nat
      BY <1>4, <3>2 DEF ConstantInv
    <3>4. constant.room < due
      BY <1>3, <3>2, <3>3
    <3>5. k # NoConstant /\ k.room = constant.room
      BY <1>8, <3>2
    <3> QED BY <3>4, <3>5
  <2>2. CASE ~(c.right >= due \/ c = NoConstant)
    <3>1. c = constant_for(default) /\ k = c
      BY <2>2
    <3>2. /\ c.room \in Nat /\ c.right \in Nat /\ c # NoConstant /\ c.digits = default
          /\ c.right >= c.room \/ c.right >= c.digits
      BY <1>8, <3>1
    <3>3. c.room < due
      BY <1>3, <1>5, <2>2, <3>2
    <3> QED BY <3>1, <3>2, <3>3
  <2> QED BY <1>2, <1>9, <2>1, <2>2
<1>10. r.due \in Precisions \cup {0} /\ r.due <= default
  BY <1>1, <1>2, <1>5
<1>11. r.served \/ (k # NoConstant /\ k.room < r.due)
  BY <1>2, <1>9
<1> QED BY <1>7, <1>10, <1>11 DEF r

\* An operation has all the digits: the number that it writes to has the precision of the
\* guard before it, and all that it reads are no more precise.
LEMMA EvalReady ==
  ASSUME IInv, TInv, PInv, Does("eval"), Correct
  PROVE  LET s == WrittenTo(Len(stack)) IN
         /\ num[s] = DefaultNumber(default) /\ default \in Precisions
         /\ next.of \in SUBSET Object /\ next.of # {}
         /\ \A x \in next.of : num[x].prec \in Nat /\ num[x].prec <= default
<1> PICK n : n = Len(stack)
  OBVIOUS
<1> PICK s : s = WrittenTo(n)
  OBVIOUS
<1>1. /\ pc = "running" /\ top.todo # <<>> /\ next.run = "eval"
  BY DEF Does
<1>2. /\ Running /\ stack # <<>> /\ top = stack[n] /\ Sequence(top.todo)
      /\ default = stack[n].new /\ default \in Precisions
      /\ Fits(next, s, n, Usable(default))
      /\ Good(s) /\ num[s].prec \in Nat /\ num[s].prec <= default
      /\ num[n].prec \in Nat /\ num[n].prec <= default
  BY <1>1, NextCall
<1>3. n \in Object /\ s \in Object /\ n \in 1..n
  BY <1>1, NextNames
<1>4. next.of # {} /\ next.of \subseteq Usable(default) \cup {s, n}
  BY <1>1, <1>2 DEF Fits
<1>5. Usable(default) \subseteq Object
      /\ \A x \in Usable(default) : num[x].prec \in Nat /\ num[x].prec <= default
  <2>1. \A x \in Usable(default) : x \in Number /\ num[x].prec <= default
    BY DEF Usable
  <2>2. \A x \in Number : num[x].prec \in Nat
    BY DigitsAreNumbers DEF PInv, Numbers
  <2> QED BY <2>1, <2>2 DEF Object
<1>6. num[s].prec = default
  <2> PICK now : now = (num[s].prec = default)
    OBVIOUS
  <2> PICK l : l = top.todo
    OBVIOUS
  <2>1. Precise(l, now)
    BY <1>2, <1>3 DEF Correct, Exact
  <2>2. 1 \in 1..Len(l) /\ l[1].run = "eval"
    <3>1. Len(l) \in Nat \ {0} /\ Head(l) = l[1]
      BY <1>1, <1>2, TailOf
    <3> QED BY <1>1, <3>1 DEF next
  <2>3. Settled(l, 1, now)
    BY <2>1, <2>2 DEF Precise
  <2>4. 0..1 - 1 = {0}
    OBVIOUS
  <2>5. now
    BY <2>3, <2>4 DEF Settled
  <2> QED BY <2>5
<1>7. num[s] = DefaultNumber(default)
  BY <1>2, <1>6 DEF Good
<1>8. next.of \in SUBSET Object /\ \A x \in next.of : num[x].prec \in Nat /\ num[x].prec <= default
  BY <1>2, <1>3, <1>4, <1>5
<1> QED BY <1>2, <1>4, <1>7, <1>8

\* What is known of a value after a step in which one operation has been carried out
LEMMA ResultKnown ==
  ASSUME Served, NEW s \in Object, NEW r, made' = [made EXCEPT ![s] = r], num' = num,
         r.due \in Precisions \cup {0}, r.due <= num[s].prec, r.kept,
         r.served \/ (constant' # NoConstant /\ constant'.room < r.due),
         constant # NoConstant => constant' # NoConstant /\ constant'.room = constant.room,
         made = [o \in Object |-> made[o]]
  PROVE  Served'
<1>1. ASSUME NEW o \in Object
      PROVE  /\ made'[o].due \in Precisions \cup {0} /\ made'[o].due <= num'[o].prec
             /\ made'[o].kept
             /\ made'[o].served \/ (constant' # NoConstant /\ constant'.room < made'[o].due)
  <2>1. CASE o = s
    <3>1. made'[o] = r
      BY <2>1
    <3> QED BY <2>1, <3>1
  <2>2. CASE o # s
    <3>1. made'[o] = made[o]
      BY <2>2
    <3> QED BY <3>1 DEF Served
  <2> QED BY <2>1, <2>2
<1> QED BY <1>1 DEF Served

\* An operation is carried out.
LEMMA ComputePrecise ==
  ASSUME IInv, TInv, PInv, Compute \/ ComputeFunction
  PROVE  PInv'
<1> PICK n : n = Len(stack)
  OBVIOUS
<1> PICK s : s = WrittenTo(n)
  OBVIOUS
<1> PICK xs : xs = next.of
  OBVIOUS
<1> PICK c : c = IF Compute THEN NoConstant ELSE constant_for(default)
  OBVIOUS
<1>1. /\ pc = "running" /\ pc' = pc /\ top.todo # <<>> /\ next.run = "eval" /\ Does("eval")
      /\ default' = default /\ asked' = asked /\ moved' = moved /\ call' = call
      /\ num' = num /\ stack' = Then(<<>>)
  BY DEF Compute, ComputeFunction, Does
<1>2. /\ (c = NoConstant /\ constant' = constant) \/ (c = constant_for(default) /\ constant' = c)
      /\ made' = [made EXCEPT ![next.on] = Result(next.on, xs, c)]
  BY DEF Compute, ComputeFunction
<1>3. /\ default \in Precisions /\ Good(s) /\ num[s].prec <= default
      /\ num[n].prec \in Nat /\ num[n].prec <= default
  BY <1>1, NextCall
<1>4. /\ n \in Object /\ s \in Object /\ next.on = s /\ num = [x \in Object |-> num[x]]
      /\ call = [on |-> call.on, prec |-> call.prec, unpromoted |-> call.unpromoted]
  BY <1>1, NextNames
<1>10. made = [o \in Object |-> made[o]] /\ made' = [o \in Object |-> made'[o]]
  <2>1. made = [o \in Object |-> made[o]]
    BY DEF PInv
  <2> QED BY <1>2, <2>1
<1>5. Changes
  BY <1>1, <1>4, <1>10 DEF Changes
<1>6. ConstantInv
  BY DEF PInv
<1>7. /\ ConstantInv'
      /\ constant # NoConstant => constant' # NoConstant /\ constant'.room = constant.room
  <2>1. CASE constant' = constant
    BY <1>6, <2>1 DEF ConstantInv
  <2>2. CASE constant' = constant_for(default)
    BY <1>3, <1>6, <2>2, ConstantComputed DEF ConstantInv
  <2> QED BY <1>2, <2>1, <2>2
<1>8. Correct => Served'
  <2> SUFFICES ASSUME Correct PROVE Served'
    OBVIOUS
  <2> PICK r : r = Result(s, xs, c)
    OBVIOUS
  <2>1. /\ num[s] = DefaultNumber(default) /\ xs \in SUBSET Object /\ xs # {}
        /\ \A x \in xs : num[x].prec \in Nat /\ num[x].prec <= default
    BY <1>1, EvalReady
  <2>2. Served
    BY DEF Correct
  <2>3. /\ r.due \in Precisions \cup {0} /\ r.due <= default /\ r.kept
        /\ r.served \/ (constant' # NoConstant /\ constant'.room < r.due)
    BY <1>2, <1>3, <1>6, <2>1, <2>2, ResultServed
  <2>4. num[s].prec = default
    BY <2>1 DEF DefaultNumber
  <2> QED BY <1>1, <1>2, <1>4, <1>7, <1>10, <2>2, <2>3, <2>4, ResultKnown
<1>9. num'[s] = num[s] /\ num'[n] = num[n]
  BY <1>1
<1> QED BY <1>1, <1>3, <1>5, <1>7, <1>8, <1>9, CallMade DEF Good, Transfers

\* A number is copied.
LEMMA CopyPrecise ==
  ASSUME IInv, TInv, PInv, CopyOperand
  PROVE  PInv'
<1> PICK n : n = Len(stack)
  OBVIOUS
<1> PICK s : s = WrittenTo(n)
  OBVIOUS
<1> PICK x : x = next.of
  OBVIOUS
<1>1. /\ pc = "running" /\ pc' = pc /\ top.todo # <<>> /\ next.run = "copy"
      /\ default' = default /\ asked' = asked /\ moved' = moved /\ call' = call
      /\ constant' = constant /\ stack' = Then(<<>>)
      /\ num' = [num EXCEPT ![next.on] = num[x]] /\ made' = [made EXCEPT ![next.on] = made[x]]
  BY DEF CopyOperand, Does
<1>2. /\ Fits(next, s, n, Usable(default))
      /\ num[n].prec \in Nat /\ num[n].prec <= default
  BY <1>1, NextCall
<1>3. /\ n \in Object /\ s \in Object /\ s # n /\ next.on = s /\ num = [o \in Object |-> num[o]]
      /\ call = [on |-> call.on, prec |-> call.prec, unpromoted |-> call.unpromoted]
  BY <1>1, NextNames
<1>4. x \in Number \ moved /\ num[x].prec <= default /\ x \in Object /\ Good(x)
  <2>1. x \in Usable(default)
    BY <1>1, <1>2 DEF Fits
  <2> QED BY <2>1 DEF Usable, PInv, Numbers, Object
<1>9. made = [o \in Object |-> made[o]]
  BY DEF PInv
<1>5. /\ num' = [o \in Object |-> num'[o]] /\ num'[s] = num[x] /\ num'[n] = num[n]
      /\ \A o \in Object : o # s => num'[o] = num[o]
      /\ made' = [o \in Object |-> made'[o]] /\ made'[s] = made[x]
      /\ \A o \in Object : o # s => made'[o] = made[o]
  BY <1>1, <1>3, <1>9
<1>6. Changes
  BY <1>1, <1>3, <1>5 DEF Changes
<1>7. Correct => Served'
  <2>1. ASSUME Correct, NEW o \in Object
        PROVE  \E y \in Object : made'[o] = made[y] /\ num'[o] = num[y]
    <3>1. CASE o = s
      BY <1>4, <1>5, <3>1
    <3>2. CASE o # s
      BY <1>5, <3>2
    <3> QED BY <3>1, <3>2
  <2> QED BY <1>1, <2>1 DEF Correct, Served
<1>8. ConstantInv'
  BY <1>1 DEF PInv, ConstantInv
<1> QED BY <1>1, <1>2, <1>4, <1>5, <1>6, <1>7, <1>8, CallMade DEF Good, Transfers

\* A temporary is moved to the number, or swapped with it, or is destroyed.
LEMMA TransferPrecise ==
  ASSUME IInv, TInv, PInv, MoveTemporary \/ SwapTemporary \/ DestroyTemporary
  PROVE  PInv'
<1> PICK n : n = Len(stack)
  OBVIOUS
<1> PICK s : s = WrittenTo(n)
  OBVIOUS
<1>1. /\ pc = "running" /\ pc' = pc /\ top.todo # <<>>
      /\ next.run \in {"move", "swap", "destroy"}
      /\ default' = default /\ asked' = asked /\ moved' = moved /\ call' = call
      /\ constant' = constant /\ stack' = Then(<<>>)
  BY DEF MoveTemporary, SwapTemporary, DestroyTemporary, Does
<1>2. /\ default \in Precisions /\ default \in Nat /\ Good(s) /\ num[s].prec \in Nat
      /\ next.run # "move" => num[s].prec <= default
      /\ num[n].prec \in Nat /\ num[n].prec <= default
      /\ Transfers(next) => Good(n)
  BY <1>1, NextCall
<1>3. /\ n \in Object /\ s \in Object /\ s # n /\ num = [o \in Object |-> num[o]]
      /\ call = [on |-> call.on, prec |-> call.prec, unpromoted |-> call.unpromoted]
      /\ Transfers(next) => next.on = s /\ next.of = n
      /\ next.run = "destroy" => next.on = n
  BY <1>1, NextNames DEF Transfers
<1>4. made = [o \in Object |-> made[o]]
  BY DEF PInv
<1>5. CASE MoveTemporary
  <2>1. /\ next.run = "move" /\ Transfers(next)
        /\ num' = [num EXCEPT ![s] = num[n], ![n].room = num[s].room]
        /\ made' = [made EXCEPT ![s] = made[n]]
    BY <1>3, <1>5 DEF MoveTemporary, Does, Moved, Transfers
  <2>2. /\ num' = [o \in Object |-> num'[o]] /\ num'[s] = num[n] /\ num'[n].prec = num[n].prec
        /\ \A o \in Object : o # s /\ o # n => num'[o] = num[o]
    <3>1. num[n] = [prec |-> num[n].prec, room |-> num[n].prec]
      BY <1>2, <2>1 DEF Good, DefaultNumber
    <3>2. /\ num' = [o \in Object |-> num'[o]] /\ num'[s] = num[n]
          /\ num'[n] = [num[n] EXCEPT !.room = num[s].room]
          /\ \A o \in Object : o # s /\ o # n => num'[o] = num[o]
      BY <1>3, <2>1
    <3> QED BY <3>1, <3>2
  <2>3. /\ made' = [o \in Object |-> made'[o]] /\ made'[s] = made[n]
        /\ \A o \in Object : o # s => made'[o] = made[o]
    BY <1>3, <1>4, <2>1
  <2>4. Changes
    BY <1>1, <1>3, <2>2, <2>3 DEF Changes
  <2>5. Correct => Served'
    <3>1. ASSUME Correct, NEW o \in Object
          PROVE  \E y \in Object : made'[o] = made[y] /\ num'[o].prec = num[y].prec
      <4>1. CASE o = s
        BY <1>3, <2>2, <2>3, <4>1
      <4>2. CASE o # s
        BY <1>3, <2>2, <2>3, <4>2
      <4> QED BY <4>1, <4>2
    <3> QED BY <1>1, <3>1 DEF Correct, Served
  <2>6. ConstantInv'
    BY <1>1 DEF PInv, ConstantInv
  <2>7. Good(n)
    BY <1>2, <2>1
  <2> QED BY <1>1, <1>2, <2>1, <2>2, <2>4, <2>5, <2>6, <2>7, CallMade DEF Good
<1>6. CASE SwapTemporary
  <2>1. /\ next.run = "swap" /\ Transfers(next)
        /\ num' = [num EXCEPT ![s] = num[n], ![n] = num[s]]
        /\ made' = [made EXCEPT ![s] = made[n], ![n] = made[s]]
    BY <1>3, <1>6 DEF SwapTemporary, Does, Transfers
  <2>2. /\ num' = [o \in Object |-> num'[o]] /\ num'[s] = num[n] /\ num'[n] = num[s]
        /\ \A o \in Object : o # s /\ o # n => num'[o] = num[o]
    BY <1>3, <2>1
  <2>3. /\ made' = [o \in Object |-> made'[o]] /\ made'[s] = made[n] /\ made'[n] = made[s]
        /\ \A o \in Object : o # s /\ o # n => made'[o] = made[o]
    BY <1>3, <1>4, <2>1
  <2>4. Changes
    BY <1>1, <1>3, <2>2, <2>3 DEF Changes
  <2>5. Correct => Served'
    <3>1. ASSUME Correct, NEW o \in Object
          PROVE  \E y \in Object : made'[o] = made[y] /\ num'[o].prec = num[y].prec
      <4>1. CASE o = s \/ o = n
        BY <1>3, <2>2, <2>3, <4>1
      <4>2. CASE o # s /\ o # n
        BY <2>2, <2>3, <4>2
      <4> QED BY <4>1, <4>2
    <3> QED BY <1>1, <3>1 DEF Correct, Served
  <2>6. ConstantInv'
    BY <1>1 DEF PInv, ConstantInv
  <2>7. Good(n)
    BY <1>2, <2>1
  <2> QED BY <1>1, <1>2, <2>1, <2>2, <2>4, <2>5, <2>6, <2>7, CallMade DEF Good
<1>7. CASE DestroyTemporary
  <2>1. /\ next.run = "destroy" /\ ~Transfers(next)
        /\ num' = [num EXCEPT ![n] = NoNumber] /\ made' = [made EXCEPT ![n] = Given(0)]
    BY <1>3, <1>7 DEF DestroyTemporary, Does, Transfers
  <2>2. /\ num' = [o \in Object |-> num'[o]] /\ num'[n] = NoNumber
        /\ \A o \in Object : o # n => num'[o] = num[o]
    BY <1>3, <2>1
  <2>3. /\ made' = [o \in Object |-> made'[o]] /\ made'[n] = Given(0)
        /\ \A o \in Object : o # n => made'[o] = made[o]
    BY <1>3, <1>4, <2>1
  <2>4. Changes
    BY <1>1, <1>3, <2>2, <2>3 DEF Changes
  <2>5. ASSUME Correct, NEW o \in Object
        PROVE  /\ made'[o].due \in Precisions \cup {0} /\ made'[o].due <= num'[o].prec
               /\ made'[o].kept
               /\ made'[o].served \/ (constant' # NoConstant /\ constant'.room < made'[o].due)
    <3>1. CASE o = n
      BY <2>2, <2>3, <3>1 DEF Given, NoNumber
    <3>2. CASE o # n
      BY <1>1, <2>2, <2>3, <2>5, <3>2 DEF Correct, Served
    <3> QED BY <3>1, <3>2
  <2>6. ConstantInv'
    BY <1>1 DEF PInv, ConstantInv
  <2>7. num'[s] = num[s] /\ num'[n].prec = 0
    BY <1>3, <2>2 DEF NoNumber
  <2>8. num'[s].prec <= default /\ num'[n].prec \in Nat /\ num'[n].prec <= default
    BY <1>2, <2>1, <2>7
  <2>9. Correct => Served'
    BY <2>5 DEF Served
  <2> QED BY <1>1, <1>2, <2>1, <2>4, <2>6, <2>7, <2>8, <2>9, CallMade DEF Good
<1> QED BY <1>5, <1>6, <1>7

----------------------------------------------------------------------------
(* A temporary is constructed: another assignment begins. *)

\* What operator= leaves to do: a temporary is constructed from e and moved, or e is assigned.
MovesValue(l, e) == /\ Len(l) = 3 /\ l[1].run = "construct" /\ l[1].of = e
                    /\ l[2].run = "move" /\ l[3].run = "destroy"
AssignsValue(l, e) == Len(l) = 1 /\ l[1].run = "call" /\ l[1].op = "assign" /\ l[1].of = e

LEMMA AssignmentCalls ==
  ASSUME NEW s, NEW t, NEW e, NEW other
  PROVE  LET l == operator_assign("assign", s, e, t, other) IN
         /\ l # <<>>
         /\ other => MovesValue(l, e)
         /\ ~other => AssignsValue(l, e)
         /\ \A now : Precise(l, now)
<1> DEFINE l == operator_assign("assign", s, e, t, other)
<1>1. CASE other
  <2>1. l = <<Construct(t, e), MoveFrom(s, t), Destroy(t)>>
    BY <1>1 DEF operator_assign, ByTemporary
  <2>2. /\ Construct(t, e).run = "construct" /\ Construct(t, e).of = e
        /\ MoveFrom(s, t).run = "move" /\ Destroy(t).run = "destroy"
    BY DEF Construct, MoveFrom, Destroy
  <2>3. /\ Len(l) = 3 /\ l[1] = Construct(t, e) /\ l[2] = MoveFrom(s, t) /\ l[3] = Destroy(t)
        /\ l # <<>>
    BY <2>1
  <2>4. \A now : Precise(l, now)
    BY <2>1, <2>2, FewEnd
  <2> QED BY <1>1, <2>2, <2>3, <2>4 DEF MovesValue
<1>2. CASE ~other
  <2>1. l = <<Call("assign", s, e)>>
    BY <1>2 DEF operator_assign
  <2>2. /\ Call("assign", s, e).run = "call" /\ Call("assign", s, e).op = "assign"
        /\ Call("assign", s, e).of = e
    BY DEF Call
  <2>3. Len(l) = 1 /\ l[1] = Call("assign", s, e) /\ l # <<>>
    BY <2>1
  <2>4. \A now : Precise(l, now)
    BY <2>1, PartsPrecise
  <2> QED BY <1>2, <2>2, <2>3, <2>4 DEF AssignsValue
<1> QED BY <1>1, <1>2

\* The stack, the numbers and the guard after that.  n is the assignment that has begun the
\* other, e what it assigns to its temporary.
Begun(n, s, e, p, l) ==
  /\ n = Len(stack) /\ s = WrittenTo(n) /\ e = next.of /\ p = precision_of(e)
  /\ l = operator_assign("assign", n, e, n + 1, p # default)
  /\ n \in Nat /\ n \in 1..n /\ n < MaxDepth /\ 1..n \subseteq Temporary
  /\ n + 1 \in Temporary /\ s \in Object /\ s # n /\ n \in Object
  /\ e \in Expression /\ e.numbers \subseteq Usable(p) /\ e.numbers # {}
  /\ p \in Precisions /\ p \in Nat /\ default \in Nat /\ p <= default
  /\ pc = "running" /\ pc' = pc /\ top = stack[n] /\ top.todo # <<>> /\ Sequence(top.todo)
  /\ next = top.todo[1] /\ next.run = "construct"
  /\ default = stack[n].new /\ default \in Precisions /\ default' = p
  /\ asked' = asked /\ moved' = moved /\ call' = call /\ constant' = constant
  /\ num' = [x \in Object |-> num'[x]] /\ num'[n] = DefaultNumber(default)
  /\ made' = [x \in Object |-> made'[x]] /\ made'[n] = Given(0)
  /\ \A x \in Object : x # n => num'[x] = num[x] /\ made'[x] = made[x]
  /\ num[n + 1].prec = 0
  /\ Len(stack') = n + 1 /\ stack'[n].new = stack[n].new /\ stack'[n].todo = Tail(top.todo)
  /\ stack'[n + 1].new = p /\ stack'[n + 1].todo = l
  /\ \A i \in 1..n : i # n => stack'[i] = stack[i]

LEMMA ConstructBegins ==
  ASSUME IInv, TInv, PInv, ConstructTemporary
  PROVE  \E n, s, e, p, l : Begun(n, s, e, p, l)
<1> PICK n : n = Len(stack)
  OBVIOUS
<1> PICK s : s = WrittenTo(n)
  OBVIOUS
<1> PICK e : e = next.of
  OBVIOUS
<1> PICK p : p = precision_of(e)
  OBVIOUS
<1> PICK l : l = operator_assign("assign", n, e, n + 1, p # default)
  OBVIOUS
<1> DEFINE r == [old |-> default, new |-> p, todo |-> l]
           su == Advanced(stack, <<>>)
<1>1. /\ pc = "running" /\ pc' = pc /\ top.todo # <<>> /\ next.run = "construct"
      /\ asked' = asked /\ moved' = moved /\ call' = call /\ constant' = constant
      /\ n < MaxDepth /\ next.on = n
      /\ num' = [num EXCEPT ![n] = DefaultNumber(default)]
      /\ made' = [made EXCEPT ![n] = Given(0)]
      /\ default' = p /\ stack' = Append(su, r)
  <2>1. pc = "running" /\ top.todo # <<>> /\ next.run = "construct" /\ next.on = n
    BY NextNames DEF ConstructTemporary, Does
  <2>2. DefaultNumber(default).prec = default
    BY DEF DefaultNumber
  <2> QED BY <2>1, <2>2 DEF ConstructTemporary, Guarded, Then, Advanced, guard_precision
<1>2. /\ Running /\ stack # <<>> /\ top = stack[n] /\ Sequence(top.todo)
      /\ default = stack[n].new /\ default \in Precisions /\ default \in Nat
      /\ Fits(next, s, n, Usable(default))
  BY <1>1, NextCall
<1>3. /\ n \in Object /\ s \in Object /\ s # n /\ n \in 1..n /\ n \in Nat
      /\ num = [x \in Object |-> num[x]] /\ 1..n \subseteq Temporary
      /\ made = [x \in Object |-> made[x]]
  <2>1. /\ n \in Object /\ s \in Object /\ s # n /\ n \in 1..n
        /\ num = [x \in Object |-> num[x]]
    BY <1>1, NextNames
  <2>2. n \in Nat /\ 1..n \subseteq Temporary
    BY <1>2, Targets
  <2> QED BY <2>1, <2>2 DEF PInv
<1>4. e \in Expression /\ e.numbers \subseteq Usable(default) /\ e.numbers # {}
  BY <1>1, <1>2, ExpressionAssumption DEF Fits
<1>5. p \in Precisions /\ p \in Nat /\ p <= default /\ e.numbers \subseteq Usable(p)
  <2>1. e.numbers \in SUBSET Number
    BY <1>4 DEF Usable
  <2>2. /\ p \in Precisions /\ \A x \in e.numbers : num[x].prec <= p
        /\ \E x \in e.numbers : num[x].prec = p
    BY <1>4, <2>1, LargestOf DEF PInv, precision_of
  <2>3. p <= default
    BY <1>4, <2>2 DEF Usable
  <2>4. e.numbers \subseteq Usable(p)
    BY <1>4, <2>2 DEF Usable
  <2> QED BY <2>2, <2>3, <2>4, DigitsAreNumbers
<1>6. /\ num' = [x \in Object |-> num'[x]] /\ num'[n] = DefaultNumber(default)
      /\ made' = [x \in Object |-> made'[x]] /\ made'[n] = Given(0)
      /\ \A x \in Object : x # n => num'[x] = num[x] /\ made'[x] = made[x]
  BY <1>1, <1>3
<1>7. n + 1 \in Temporary /\ num[n + 1].prec = 0
  <2>1. n + 1 \in 1..MaxDepth /\ n + 1 \notin 1..n
    BY <1>1, <1>3, PrecisionAssumption
  <2>2. num[n + 1] = NoNumber
    BY <2>1 DEF IInv, Owned, Temporary
  <2> QED BY <2>1, <2>2 DEF Temporary, NoNumber
<1>8. next = top.todo[1]
  BY <1>1, <1>2, TailOf DEF next
<1>9. /\ Stacked(su) /\ Len(su) = n /\ \A i \in 1..n : i # n => su[i] = stack[i]
      /\ su[n].todo = Tail(top.todo) /\ su[n].new = stack[n].new
  <2>1. Stacked(stack) /\ Orderly(<<>>, n)
    BY OrderlyNone DEF IInv
  <2>2. su[n].todo = <<>> \o Tail(top.todo)
    BY <1>2, <2>1, AdvancedTodo
  <2>3. Sequence(Tail(top.todo))
    BY <1>1, <1>2, TailOf
  <2>4. <<>> \o Tail(top.todo) = Tail(top.todo)
    BY <2>3, ConcatEmptySeq DEF Sequence
  <2>5. /\ Stacked(su) /\ Len(su) = n /\ \A i \in 1..n : i # n => su[i] = stack[i]
        /\ su[n].new = stack[n].new
    BY <1>1, <1>2, <2>1, AdvancedStack
  <2> QED BY <2>2, <2>4, <2>5
<1> HIDE DEF su
<1>10. /\ Len(stack') = n + 1 /\ stack'[n].new = stack[n].new
       /\ stack'[n].todo = Tail(top.todo)
       /\ stack'[n + 1].new = p /\ stack'[n + 1].todo = l
       /\ \A i \in 1..n : i # n => stack'[i] = stack[i]
  <2>1. PICK S : su \in Seq(S)
    BY <1>9 DEF Stacked, Sequence
  <2>2. su \in Seq(S \cup {r}) /\ r.todo = l /\ r.new = p
    BY <2>1, SeqMonotonic
  <2> HIDE DEF r
  <2>3. /\ Len(stack') = n + 1 /\ stack'[n + 1] = r /\ \A i \in 1..n : stack'[i] = su[i]
    BY <1>1, <1>9, <2>2, AppendProperties
  <2> QED BY <1>3, <1>9, <2>2, <2>3
<1> HIDE DEF r
<1>11. Begun(n, s, e, p, l)
  BY <1>1, <1>2, <1>3, <1>4, <1>5, <1>6, <1>7, <1>8, <1>10 DEF Begun
<1> QED BY <1>11

\* Nothing that the numbers of the program are read for has changed.
LEMMA BegunNumbers ==
  ASSUME IInv, NEW n, NEW s, NEW e, NEW p, NEW l, Begun(n, s, e, p, l)
  PROVE  /\ \A x \in Number : x \in Object /\ x # n /\ num'[x] = num[x]
         /\ \A q : Usable(q) \subseteq Usable(q)'
         /\ precision_of(e)' = p
<1>1. \A x \in Number : x \in Object /\ x # n /\ num'[x] = num[x]
  <2>1. n \in Temporary /\ Number \cap Temporary = {}
    BY PrecisionAssumption DEF Begun, Temporary
  <2> QED BY <2>1 DEF Begun, Object
<1>2. ASSUME NEW q
      PROVE  Usable(q) \subseteq Usable(q)'
  <2>1. moved' = moved
    BY DEF Begun
  <2> QED BY <1>1, <2>1 DEF Usable
<1>3. precision_of(e)' = p
  <2> PICK ns : ns = e.numbers
    OBVIOUS
  <2>1. ns \subseteq Number
    BY DEF Begun, Usable
  <2>2. {num'[x].prec : x \in ns} = {num[x].prec : x \in ns}
    BY <1>1, <2>1
  <2>3. p = Max({num[x].prec : x \in ns})
    BY DEF Begun, precision_of, Largest
  <2> QED BY <2>2, <2>3 DEF precision_of, Largest
<1> QED BY <1>1, <1>2, <1>3

\* What the assignments that were running write to has not changed either.
LEMMA BegunTargets ==
  ASSUME IInv, TInv, PInv, NEW n, NEW s, NEW e, NEW p, NEW l, Begun(n, s, e, p, l)
  PROVE  /\ n = Len(stack) /\ s = WrittenTo(n) /\ n \in Nat /\ n \in 1..n /\ n + 1 \in 1..n + 1
         /\ n + 1 # n /\ Len(stack') = n + 1 /\ WrittenTo(n + 1)' = n
         /\ Running
         /\ \A i \in 1..n : /\ WrittenTo(i)' = WrittenTo(i)
                            /\ num'[WrittenTo(i)] = num[WrittenTo(i)]
<1>1. /\ n = Len(stack) /\ s = WrittenTo(n) /\ n \in Nat /\ n \in 1..n /\ n + 1 \in 1..n + 1
      /\ n + 1 # n /\ Len(stack') = n + 1 /\ WrittenTo(n + 1)' = n
  <2>1. n = Len(stack) /\ s = WrittenTo(n) /\ n \in Nat /\ n \in 1..n /\ Len(stack') = n + 1
    BY DEF Begun
  <2>2. n + 1 # 1 /\ (n + 1) - 1 = n /\ n + 1 # n /\ n + 1 \in 1..n + 1
    BY <2>1
  <2> QED BY <2>1, <2>2 DEF WrittenTo
<1>2. \A x \in Number : num'[x] = num[x]
  BY BegunNumbers
<1>3. /\ Running
      /\ \A i \in 1..n : /\ WrittenTo(i) \in Object
                         /\ i = 1 => WrittenTo(i) = call.on
                         /\ i # 1 => WrittenTo(i) = i - 1
      /\ call.on \in Number
  <2>1. pc = "running" /\ top.todo # <<>>
    BY DEF Begun
  <2>2. Running /\ stack # <<>>
    BY <1>1, <2>1, NextCall
  <2> QED BY <1>1, <2>2, Targets
<1>4. \A i \in 1..n : WrittenTo(i)' = WrittenTo(i) /\ num'[WrittenTo(i)] = num[WrittenTo(i)]
  <2>1. ASSUME NEW i \in 1..n
        PROVE  WrittenTo(i)' = WrittenTo(i) /\ num'[WrittenTo(i)] = num[WrittenTo(i)]
    <3>1. WrittenTo(i)' = WrittenTo(i)
      BY DEF Begun, WrittenTo
    <3>2. CASE i = 1
      BY <1>2, <1>3, <3>1, <3>2
    <3>3. CASE i # 1
      <4>1. WrittenTo(i) # n
        BY <1>1, <1>3, <3>3
      <4> QED BY <1>3, <3>1, <4>1 DEF Begun
    <3> QED BY <3>2, <3>3
  <2> QED BY <2>1
<1> QED BY <1>1, <1>3, <1>4

\* The assignments are sound: the new one reads only numbers that are no more precise than
\* its expression.
LEMMA BegunSound ==
  ASSUME IInv, TInv, PInv, NEW n, NEW s, NEW e, NEW p, NEW l, Begun(n, s, e, p, l)
  PROVE  Running' /\ Numbers'
<1>1. /\ n = Len(stack) /\ s = WrittenTo(n) /\ n \in Nat /\ n \in 1..n /\ n + 1 \in 1..n + 1
      /\ n + 1 # n /\ Len(stack') = n + 1 /\ WrittenTo(n + 1)' = n
  BY BegunTargets
<1>2. /\ \A x \in Number : x \in Object /\ x # n /\ num'[x] = num[x]
      /\ \A q : Usable(q) \subseteq Usable(q)'
  BY BegunNumbers
<1>3. Running /\ Sound(n) /\ Fitting(Tail(top.todo), s, n, Usable(default))
  <2>1. pc = "running" /\ top.todo # <<>>
    BY DEF Begun
  <2> QED BY <1>1, <2>1, NextCall
<1>4. \A i \in 1..n : WrittenTo(i)' = WrittenTo(i) /\ num'[WrittenTo(i)] = num[WrittenTo(i)]
  BY BegunTargets
<1>5. ASSUME NEW i \in 1..n, i # n
      PROVE  Sound(i)'
  <2>1. Sound(i)
    BY <1>1, <1>3 DEF Running
  <2>2. stack'[i] = stack[i]
    BY <1>5 DEF Begun
  <2>3. Fitting(stack[i].todo, WrittenTo(i), i, Usable(stack[i].new)')
    <3>1. Usable(stack[i].new) \subseteq Usable(stack[i].new)'
      <4>1. moved' = moved
        BY DEF Begun
      <4> QED BY <1>2, <2>2, <4>1 DEF Usable
    <3> QED BY <2>1, <3>1, FittingMore DEF Sound
  <2>4. Expected(i)' = Expected(i)
    <3>1. i # n + 1 /\ i + 1 \in 1..n
      BY <1>1, <1>5
    <3>2. stack'[i + 1].new = stack[i + 1].new
      BY <3>1 DEF Begun
    <3> QED BY <1>1, <1>5, <3>1, <3>2 DEF Expected
  <2>5. WrittenTo(i)' = WrittenTo(i) /\ num'[WrittenTo(i)] = num[WrittenTo(i)]
    BY <1>4
  <2>6. Good(WrittenTo(i))'
    BY <2>1, <2>5 DEF Sound, Good
  <2>7. num'[WrittenTo(i)'].prec <= stack'[i].new \/ ByMove(i)'
    BY <2>1, <2>2, <2>5 DEF Sound, ByMove
  <2> QED BY <2>1, <2>2, <2>3, <2>4, <2>5, <2>6, <2>7 DEF Sound
<1>6. Sound(n)'
  <2>1. /\ stack'[n].todo = Tail(top.todo) /\ stack'[n].new = default /\ default \in Precisions
        /\ stack'[n + 1].new = p /\ p <= default /\ default = stack[n].new
    BY DEF Begun
  <2>2. Fitting(Tail(top.todo), s, n, Usable(stack[n].new)')
    <3>1. Usable(stack[n].new) \subseteq Usable(stack[n].new)'
      <4>1. moved' = moved /\ stack'[n].new = stack[n].new
        BY DEF Begun
      <4> QED BY <1>2, <4>1 DEF Usable
    <3> QED BY <1>3, <2>1, <3>1, FittingMore
  <2>3. WrittenTo(n)' = s /\ num'[s] = num[s]
    BY <1>1, <1>4
  <2>4. Good(s)'
    BY <1>1, <1>3, <2>3 DEF Sound, Good
  <2>5. num'[s].prec <= stack'[n].new \/ ByMove(n)'
    <3>1. CASE ByMove(n)
      <4>1. /\ Sequence(top.todo) /\ top.todo # <<>> /\ top = stack[n]
            /\ top.todo[1].run = "construct"
        BY DEF Begun
      <4>2. PICK k \in DOMAIN top.todo : top.todo[k].run = "move"
        BY <3>1, <4>1 DEF ByMove
      <4>3. /\ k \in 1..Len(top.todo) /\ Len(top.todo) \in Nat /\ k # 1
            /\ DOMAIN Tail(top.todo) = 1..Len(Tail(top.todo))
        BY <4>1, <4>2, TailOf, LenProperties DEF Sequence
      <4>4. k - 1 \in DOMAIN Tail(top.todo) /\ Tail(top.todo)[k - 1].run = "move"
        <5>1. /\ Len(Tail(top.todo)) = Len(top.todo) - 1
              /\ \A j \in 1..Len(Tail(top.todo)) : Tail(top.todo)[j] = top.todo[j + 1]
          BY <4>1, TailOf
        <5>2. k - 1 \in 1..Len(Tail(top.todo)) /\ (k - 1) + 1 = k
          BY <4>3, <5>1
        <5> QED BY <4>2, <4>3, <5>1, <5>2
      <4> QED BY <2>1, <4>4 DEF ByMove
    <3>2. CASE ~ByMove(n)
      BY <1>1, <1>3, <2>1, <2>3, <3>2 DEF Sound
    <3> QED BY <3>1, <3>2
  <2>6. Expected(n)' <= stack'[n].new
    BY <1>1, <2>1 DEF Expected
  <2> QED BY <2>1, <2>2, <2>3, <2>4, <2>5, <2>6 DEF Sound
<1>7. Fresh(l, n, n + 1, Usable(p))
  <2>1. e \in Expression /\ e.numbers \subseteq Usable(p)
    BY DEF Begun
  <2>2. Fresh(operator_assign("assign", n, e, n + 1, p # default), n, n + 1, Usable(p))
    BY <2>1, AssignmentFresh
  <2> QED BY <2>2 DEF Begun
<1>8. Sound(n + 1)'
  <2>1. /\ stack'[n + 1].todo = l /\ stack'[n + 1].new = p /\ p \in Precisions
        /\ num'[n] = DefaultNumber(default) /\ default \in Precisions
        /\ n + 1 \in Object /\ num[n + 1].prec = 0 /\ p \in Nat /\ default \in Nat
    BY DEF Begun, Object
  <2>2. Fitting(l, n, n + 1, Usable(p)')
    <3>1. Fitting(l, n, n + 1, Usable(p)) /\ Usable(p) \subseteq Usable(p)'
      BY <1>2, <1>7 DEF Fresh
    <3> QED BY <3>1, FittingMore
  <2>3. Good(n)' /\ num'[n].prec = default
    BY <2>1 DEF Good, DefaultNumber
  <2>4. num'[n].prec <= p \/ ByMove(n + 1)'
    <3>1. CASE p = default
      BY <2>1, <2>3, <3>1
    <3>2. CASE p # default
      <4>1. Len(l) = 3 /\ l[2].run = "move"
        <5>1. l = operator_assign("assign", n, e, n + 1, p # default)
          BY DEF Begun
        <5>2. MovesValue(l, e)
          BY <3>2, <5>1, AssignmentCalls
        <5> QED BY <5>2 DEF MovesValue
      <4>2. 2 \in DOMAIN l
        BY <1>7, <4>1, LenProperties DEF Fresh, Fitting, Sequence
      <4> QED BY <2>1, <4>1, <4>2 DEF ByMove
    <3> QED BY <3>1, <3>2
  <2>5. Expected(n + 1)' <= p
    <3>1. num'[n + 1] = num[n + 1]
      BY <1>1, <2>1 DEF Begun
    <3> QED BY <1>1, <2>1, <3>1 DEF Expected
  <2> QED BY <1>1, <2>1, <2>2, <2>3, <2>4, <2>5 DEF Sound
<1>9. \A i \in 1..n + 1 : Sound(i)'
  <2>1. \A i \in 1..n + 1 : i = n + 1 \/ i \in 1..n
    BY <1>1
  <2> QED BY <1>5, <1>6, <1>8, <2>1
<1>10. /\ call' = [on |-> call'.on, prec |-> call'.prec, unpromoted |-> call'.unpromoted]
       /\ call'.on \in Number \ moved' /\ call'.prec = stack'[1].new
  <2>1. call' = call /\ moved' = moved
    BY DEF Begun
  <2>2. stack'[1].new = stack[1].new
    <3>1. 1 \in 1..n
      BY <1>1
    <3> QED BY <3>1 DEF Begun
  <2> QED BY <1>3, <2>1, <2>2 DEF Running
<1>11. num'[n + 1].prec \in Nat
  <2>1. n + 1 \in Object /\ n + 1 # n
    BY <1>1 DEF Begun, Object
  <2>2. num'[n + 1] = num[n + 1]
    BY <2>1 DEF Begun
  <2> QED BY <2>2 DEF Begun
<1>12. top'.todo # <<>> /\ Transfers(next)' => Good(n + 1)'
  <2>1. top'.todo = l /\ next' = Head(l)
    BY <1>1 DEF Begun, top, next
  <2>2. Transfers(next)' = Transfers(Head(l))
    BY <2>1 DEF Transfers
  <2> QED BY <1>7, <2>1, <2>2 DEF Fresh
<1>13. Running'
  BY <1>1, <1>9, <1>10, <1>11, <1>12 DEF Running
<1>14. Numbers'
  <2>1. moved' = moved
    BY DEF Begun
  <2> QED BY <1>2, <2>1 DEF PInv, Numbers, Good
<1> QED BY <1>13, <1>14

\* The one that began it waits for the temporary that shall have the precision of its guard.
LEMMA BegunExact ==
  ASSUME IInv, TInv, PInv, NEW n, NEW s, NEW e, NEW p, NEW l, Begun(n, s, e, p, l),
         \A i \in 1..Len(stack) : Exact(i)
  PROVE  (\A i \in 1..Len(stack) : Exact(i))'
<1>1. /\ n = Len(stack) /\ s = WrittenTo(n) /\ n \in Nat /\ n \in 1..n /\ n + 1 \in 1..n + 1
      /\ n + 1 # n /\ Len(stack') = n + 1 /\ WrittenTo(n + 1)' = n
  BY BegunTargets
<1>2. /\ \A x \in Number : x \in Object /\ x # n /\ num'[x] = num[x]
      /\ precision_of(e)' = p
  BY BegunNumbers
<1>3. \A i \in 1..n : WrittenTo(i)' = WrittenTo(i) /\ num'[WrittenTo(i)] = num[WrittenTo(i)]
  BY BegunTargets
<1>4. ASSUME NEW i \in 1..n, i # n
      PROVE  Exact(i)'
  <2>1. Exact(i)
    BY <1>1
  <2>2. stack'[i] = stack[i]
    BY <1>4 DEF Begun
  <2>3. Expected(i)' = Expected(i)
    <3>1. i # n + 1 /\ i + 1 \in 1..n
      BY <1>1, <1>4
    <3>2. stack'[i + 1].new = stack[i + 1].new
      BY <3>1 DEF Begun
    <3> QED BY <1>1, <1>4, <3>1, <3>2 DEF Expected
  <2>4. WrittenTo(i)' = WrittenTo(i) /\ num'[WrittenTo(i)] = num[WrittenTo(i)]
    BY <1>3
  <2>5. /\ Precise(stack[i].todo, num[WrittenTo(i)].prec = stack[i].new)
        /\ \/ Ends(stack[i].todo, num[WrittenTo(i)].prec = stack[i].new)
           \/ Complete(stack[i].todo) /\ Expected(i) = stack[i].new
    BY <1>1, <1>4, <2>1 DEF Exact
  <2>6. (num'[WrittenTo(i)'].prec = stack'[i].new) = (num[WrittenTo(i)].prec = stack[i].new)
    BY <2>2, <2>4
  <2> QED BY <2>2, <2>3, <2>5, <2>6 DEF Exact, Complete
<1>5. Exact(n)'
  <2> PICK now : now = (num[s].prec = default)
    OBVIOUS
  <2> PICK l1 : l1 = top.todo
    OBVIOUS
  <2>1. /\ Sequence(l1) /\ l1 # <<>> /\ top = stack[n] /\ l1[1].run = "construct" /\ l1[1].of = e
        /\ default = stack[n].new /\ stack'[n].todo = Tail(l1) /\ stack'[n].new = default
        /\ stack'[n + 1].new = p /\ p = precision_of(e)
    BY DEF Begun
  <2>2. /\ Precise(l1, now)
        /\ Ends(l1, now) \/ Outright(l1, default) \/ Complete(l1)
    <3>1. Exact(n)
      BY <1>1
    <3> QED BY <1>1, <2>1, <3>1 DEF Exact
  <2>3. Sequence(<<>>) /\ Precise(<<>>, now) /\ (now => Ends(<<>>, now))
    BY FewEnd, OrderlyNone DEF Orderly
  <2>4. Head(l1) = l1[1] /\ <<>> \o Tail(l1) = Tail(l1)
    <3>1. Sequence(Tail(l1)) /\ Head(l1) = l1[1]
      BY <2>1, TailOf
    <3> QED BY <3>1, ConcatEmptySeq DEF Sequence
  <2>5. ~Firm(Head(l1))
    BY <2>1, <2>4 DEF Firm
  <2>6. Precise(Tail(l1), now) /\ (Ends(l1, now) => Ends(Tail(l1), now))
    <3>1. Precise(<<>> \o Tail(l1), now) /\ (Ends(l1, now) => Ends(<<>> \o Tail(l1), now))
      BY <2>1, <2>2, <2>3, <2>5, SettledJoin
    <3> QED BY <2>4, <3>1
  <2>7. ~Complete(l1)
    BY <2>1 DEF Complete, Transfers
  <2>8. Outright(l1, default) => Complete(Tail(l1)) /\ p = default
    <3>1. ASSUME Outright(l1, default)
          PROVE  /\ Len(l1) = 3 /\ Transfers(l1[2]) /\ l1[3].run = "destroy"
                 /\ precision_of(e) = default
      BY <2>1, <3>1 DEF Outright
    <3>2. /\ Len(Tail(l1)) = Len(l1) - 1
          /\ \A k \in 1..Len(Tail(l1)) : Tail(l1)[k] = l1[k + 1]
      BY <2>1, TailOf
    <3> QED BY <2>1, <3>1, <3>2 DEF Complete
  <2>9. WrittenTo(n)' = s /\ num'[s] = num[s]
    BY <1>1, <1>3
  <2>10. Expected(n)' = p
    BY <1>1, <2>1 DEF Expected
  <2>11. \/ Ends(Tail(l1), now)
         \/ Complete(Tail(l1)) /\ Expected(n)' = default
    BY <2>2, <2>6, <2>7, <2>8, <2>10
  <2>12. now = (num'[WrittenTo(n)'].prec = stack'[n].new)
    BY <2>1, <2>9
  <2> QED BY <2>1, <2>6, <2>11, <2>12 DEF Exact, Complete
<1>6. Exact(n + 1)'
  <2> PICK now : now = (num'[n].prec = p)
    OBVIOUS
  <2>1. stack'[n + 1].todo = l /\ stack'[n + 1].new = p
    BY DEF Begun
  <2>2. Precise(l, now)
    <3>1. l = operator_assign("assign", n, e, n + 1, p # default)
      BY DEF Begun
    <3> QED BY <3>1, AssignmentCalls
  <2>3. MovesValue(l, e) \/ AssignsValue(l, e)
    <3>1. l = operator_assign("assign", n, e, n + 1, p # default)
      BY DEF Begun
    <3> QED BY <3>1, AssignmentCalls
  <2>4. Outright(l, p)'
    <3>1. CASE MovesValue(l, e)
      BY <1>2, <3>1 DEF MovesValue, Outright, Transfers
    <3>2. CASE AssignsValue(l, e)
      BY <1>2, <3>2 DEF AssignsValue, Outright
    <3> QED BY <2>3, <3>1, <3>2
  <2> QED BY <1>1, <2>1, <2>2, <2>4 DEF Exact
<1>7. \A i \in 1..n + 1 : i = n + 1 \/ i \in 1..n
  BY <1>1
<1> QED BY <1>1, <1>4, <1>5, <1>6, <1>7

\* A temporary is constructed.
LEMMA ConstructPrecise ==
  ASSUME IInv, TInv, PInv, ConstructTemporary
  PROVE  PInv'
<1> PICK n, s, e, p, l : Begun(n, s, e, p, l)
  BY ConstructBegins
<1>1. /\ pc = "running" /\ pc' = pc /\ asked' = asked /\ call' = call /\ constant' = constant
      /\ made' = [x \in Object |-> made'[x]] /\ Len(stack') <= MaxDepth
  <2>1. MaxDepth \in Nat
    BY PrecisionAssumption
  <2>2. n \in Nat /\ n < MaxDepth /\ Len(stack') = n + 1
    BY DEF Begun
  <2>3. Len(stack') <= MaxDepth
    BY <2>1, <2>2
  <2> QED BY <2>3, Zenon DEF Begun
<1>2. Running' /\ Numbers'
  BY BegunSound
<1>3. ConstantInv'
  BY <1>1 DEF PInv, ConstantInv
<1>4. ASSUME ~call'.unpromoted
      PROVE  Correct'
  <2>1. Correct
    BY <1>1, <1>4 DEF PInv
  <2>2. (\A i \in 1..Len(stack) : Exact(i))'
    <3>1. \A i \in 1..Len(stack) : Exact(i)
      BY <2>1 DEF Correct
    <3> QED BY <3>1, BegunExact
  <2>3. ASSUME NEW o \in Object
        PROVE  /\ made'[o].due \in Precisions \cup {0} /\ made'[o].due <= num'[o].prec
               /\ made'[o].kept
               /\ made'[o].served \/ (constant' # NoConstant /\ constant'.room < made'[o].due)
    <3>1. CASE o = n
      <4>1. made'[o] = Given(0) /\ num'[o] = DefaultNumber(default) /\ default \in Nat
        BY <3>1 DEF Begun
      <4> QED BY <4>1 DEF Given, DefaultNumber
    <3>2. CASE o # n
      BY <1>1, <2>1, <3>2 DEF Begun, Correct, Served
    <3> QED BY <3>1, <3>2
  <2>4. Served'
    BY <2>3 DEF Served
  <2> QED BY <2>2, <2>4 DEF Correct
<1>5. ~Computed'
  BY <1>1 DEF Computed
<1> QED BY <1>1, <1>2, <1>3, <1>4, <1>5 DEF PInv

----------------------------------------------------------------------------
(* An assignment ends. *)

\* There is nothing more to do: the target has the precision of the guard.
LEMMA NothingLeft ==
  ASSUME IInv, TInv, PInv, pc = "running", top.todo = <<>>
  PROVE  LET n == Len(stack) IN
         /\ n \in Nat /\ n \in 1..n /\ Running
         /\ num[WrittenTo(n)].prec \in Nat /\ Good(WrittenTo(n))
         /\ num[WrittenTo(n)].prec <= stack[n].new
         /\ stack[n].new \in Nat
         /\ Correct => num[WrittenTo(n)].prec = stack[n].new
<1> PICK n : n = Len(stack)
  OBVIOUS
<1> PICK s : s = WrittenTo(n)
  OBVIOUS
<1>1. Running /\ stack # <<>> /\ top = stack[n]
  BY DEF PInv, IInv, top
<1>2. n \in Nat /\ n \in 1..n
  BY <1>1, Targets
<1>3. Sound(n)
  BY <1>1, <1>2 DEF Running
<1>4. Good(s) /\ num[s].prec \in Nat /\ stack[n].new \in Nat
  BY <1>3, DigitsAreNumbers DEF Sound, Good
<1>5. Len(<<>>) = 0 /\ DOMAIN <<>> = {} /\ 0 + 1 = 1 /\ 0..1 - 1 = {0}
  OBVIOUS
<1>6. num[s].prec <= stack[n].new
  <2>1. ~ByMove(n)
    BY <1>1, <1>5 DEF ByMove
  <2> QED BY <1>3, <2>1 DEF Sound
<1>7. ASSUME Correct
      PROVE  num[s].prec = stack[n].new
  <2> PICK now : now = (num[s].prec = stack[n].new)
    OBVIOUS
  <2>1. Exact(n)
    BY <1>2, <1>7 DEF Correct
  <2>2. Ends(<<>>, now) \/ Outright(<<>>, stack[n].new) \/ Complete(<<>>)
    BY <1>1, <2>1 DEF Exact
  <2>3. ~Outright(<<>>, stack[n].new) /\ ~Complete(<<>>)
    BY <1>5 DEF Outright, Complete
  <2>4. Ends(<<>>, now) => now
    BY <1>5 DEF Ends, Settled
  <2> QED BY <2>2, <2>3, <2>4
<1> QED BY <1>1, <1>2, <1>4, <1>6, <1>7

\* The last assignment ends: that which constructed its temporary goes on, or the program.
LEMMA LeavePrecise ==
  ASSUME IInv, TInv, PInv, Leave
  PROVE  PInv'
<1> PICK n : n = Len(stack)
  OBVIOUS
<1> PICK m : m = n - 1
  OBVIOUS
<1>1. /\ pc = "running" /\ top.todo = <<>> /\ num' = num /\ moved' = moved /\ made' = made
      /\ constant' = constant /\ asked' = asked /\ call' = call
      /\ stack' = SubSeq(stack, 1, n - 1)
      /\ pc' = IF n = 1 THEN "returned" ELSE pc
  BY DEF Leave, history
<1>2. /\ n \in Nat /\ n \in 1..n /\ Running
      /\ num[WrittenTo(n)].prec \in Nat /\ Good(WrittenTo(n))
      /\ num[WrittenTo(n)].prec <= stack[n].new
      /\ stack[n].new \in Nat
      /\ Correct => num[WrittenTo(n)].prec = stack[n].new
  BY <1>1, NothingLeft
<1>3. /\ Len(stack') = m /\ m \in Nat /\ (stack' = <<>> <=> n = 1)
      /\ \A i \in 1..m : stack'[i] = stack[i]
  <2>1. stack # <<>>
    BY <1>1 DEF IInv
  <2>2. /\ Len(stack') = n - 1 /\ (stack' = <<>> <=> n = 1)
        /\ \A i \in 1..n - 1 : stack'[i] = stack[i]
    BY <1>1, <2>1, PoppedStack DEF IInv
  <2>3. m \in Nat
    BY <1>2
  <2> QED BY <2>2, <2>3
<1>4. Numbers' /\ ConstantInv' /\ asked' \in Precisions /\ Len(stack') <= MaxDepth
      /\ made' = [x \in Object |-> made'[x]]
  <2>1. Len(stack') <= MaxDepth
    BY <1>2, <1>3, PrecisionAssumption DEF PInv
  <2> QED BY <1>1, <2>1 DEF PInv, Numbers, ConstantInv, Good
<1>5. Served => Served'
  BY <1>1 DEF Served
<1>6. CASE n = 1
  <2>1. pc' # "running"
    BY <1>1, <1>6
  <2>2. ASSUME Computed'
        PROVE  LargestPrecision' /\ Served' /\ call'.on \in Number
    <3>1. Correct
      BY <1>1, <2>2 DEF Computed, PInv
    <3>2. WrittenTo(n) = call.on /\ call.prec = stack[n].new /\ call.on \in Number
      BY <1>2, <1>6 DEF WrittenTo, Running
    <3>3. num[call.on] = DefaultNumber(call.prec)
      BY <1>2, <3>1, <3>2 DEF Good
    <3> QED BY <1>1, <1>5, <3>1, <3>2, <3>3 DEF Correct, LargestPrecision
  <2> QED BY <1>4, <2>1, <2>2 DEF PInv
<1>7. CASE n # 1
  <2>1. /\ m \in 1..m /\ m \in 1..n /\ m # n /\ m + 1 = n /\ \A i \in 1..m : i \in 1..n /\ i # n
        /\ WrittenTo(n) = m /\ 1 \in 1..m
    BY <1>2, <1>7 DEF WrittenTo
  <2>2. pc' = pc
    BY <1>1, <1>7
  <2>3. ASSUME NEW i \in 1..m
        PROVE  /\ stack'[i] = stack[i] /\ WrittenTo(i)' = WrittenTo(i)
               /\ num'[WrittenTo(i)] = num[WrittenTo(i)]
               /\ Usable(stack[i].new)' = Usable(stack[i].new)
               /\ i # m => Expected(i)' = Expected(i)
               /\ i = m => Expected(i)' = num[m].prec /\ Expected(i) = stack[n].new
    <3>1. stack'[i] = stack[i]
      BY <1>3
    <3>2. WrittenTo(i)' = WrittenTo(i) /\ num'[WrittenTo(i)] = num[WrittenTo(i)]
      BY <1>1 DEF WrittenTo
    <3>3. Usable(stack[i].new)' = Usable(stack[i].new)
      BY <1>1, <3>1 DEF Usable
    <3>4. i # m => Expected(i)' = Expected(i)
      <4>1. i # m => i + 1 \in 1..m
        BY <1>3
      <4>2. i # m => stack'[i + 1].new = stack[i + 1].new
        BY <1>3, <4>1
      <4> QED BY <1>3, <2>1, <4>2 DEF Expected
    <3>5. i = m => Expected(i)' = num[m].prec /\ Expected(i) = stack[n].new
      BY <1>1, <1>3, <2>1 DEF Expected
    <3> QED BY <3>1, <3>2, <3>3, <3>4, <3>5
  <2>4. num[m].prec \in Nat /\ num[m].prec <= stack[n].new /\ Good(m)
    BY <1>2, <2>1
  <2>5. ASSUME NEW i \in 1..m
        PROVE  Sound(i)'
    <3>1. Sound(i)
      BY <1>2, <2>1 DEF Running
    <3>2. Expected(i)' <= stack[i].new
      <4>1. CASE i = m
        <5>1. stack[n].new <= stack[i].new /\ stack[i].new \in Nat
          BY <2>3, <3>1, <4>1, DigitsAreNumbers DEF Sound
        <5> QED BY <1>2, <2>3, <2>4, <4>1, <5>1
      <4>2. CASE i # m
        BY <2>3, <3>1, <4>2 DEF Sound
      <4> QED BY <4>1, <4>2
    <3>3. Good(WrittenTo(i))'
      BY <2>3, <3>1 DEF Sound, Good
    <3>4. num'[WrittenTo(i)'].prec <= stack'[i].new \/ ByMove(i)'
      BY <2>3, <3>1 DEF Sound, ByMove
    <3>5. Fitting(stack[i].todo, WrittenTo(i), i, Usable(stack[i].new)')
      BY <2>3, <3>1 DEF Sound
    <3> QED BY <2>3, <3>1, <3>2, <3>3, <3>4, <3>5 DEF Sound
  <2>6. Good(m)'
    BY <1>1, <2>4 DEF Good
  <2>7. Running'
    <3>1. stack'[1].new = stack[1].new
      BY <1>3, <2>1
    <3>2. num'[m].prec \in Nat
      BY <1>1, <2>4
    <3> QED BY <1>1, <1>2, <1>3, <2>5, <2>6, <3>1, <3>2 DEF Running
  <2>8. ASSUME Correct
        PROVE  Correct'
    <3>1. num[m].prec = stack[n].new
      BY <1>2, <2>1, <2>8
    <3>2. ASSUME NEW i \in 1..m
          PROVE  Exact(i)'
      <4>1. Exact(i) /\ i # Len(stack)
        BY <2>1, <2>8 DEF Correct
      <4>2. Expected(i)' = Expected(i)
        BY <2>3, <3>1
      <4>3. /\ Precise(stack[i].todo, num[WrittenTo(i)].prec = stack[i].new)
            /\ \/ Ends(stack[i].todo, num[WrittenTo(i)].prec = stack[i].new)
               \/ Complete(stack[i].todo) /\ Expected(i) = stack[i].new
        BY <4>1 DEF Exact
      <4>4. (num'[WrittenTo(i)'].prec = stack'[i].new) = (num[WrittenTo(i)].prec = stack[i].new)
        BY <2>3
      <4> QED BY <2>3, <4>2, <4>3, <4>4 DEF Exact, Complete
    <3> QED BY <1>3, <1>5, <2>8, <3>2 DEF Correct
  <2>9. pc' = "running" /\ ~Computed'
    BY <1>1, <2>2 DEF Computed
  <2>10. ~call'.unpromoted => Correct'
    BY <1>1, <2>8 DEF PInv
  <2> QED BY <1>4, <2>7, <2>9, <2>10 DEF PInv
<1> QED BY <1>6, <1>7

----------------------------------------------------------------------------
(* An assignment of the program begins. *)

\* The numbers that the guard chooses the precision by
GuardedBy(f, s, e) == IF f = "assign" THEN e.numbers ELSE {s} \cup e.numbers

\* The assignment operators go by a temporary, if the guard has chosen another precision
\* than that of their target, or leave functions to do that promote it.
LEMMA AssignmentEnds ==
  ASSUME NEW f, NEW s, NEW t, NEW e \in Expression, NEW other, NEW now, other \/ now,
         f # "assign" => operator2(f, terminal(s), e) \in Expression
  PROVE  LET l == operator_assign(f, s, e, t, other) IN
         /\ Precise(l, now)
         /\ \/ Ends(l, now)
            \/ \E w \in Expression : /\ w.numbers = GuardedBy(f, s, e)
                                     /\ MovesValue(l, w) \/ AssignsValue(l, w)
<1> DEFINE l == operator_assign(f, s, e, t, other)
<1>1. ASSUME NEW w
      PROVE  MovesValue(ByTemporary(s, w, t), w) /\ Precise(ByTemporary(s, w, t), now)
  <2>1. operator_assign("assign", s, w, t, TRUE) = ByTemporary(s, w, t)
    BY DEF operator_assign
  <2>2. LET d == operator_assign("assign", s, w, t, TRUE) IN MovesValue(d, w) /\ Precise(d, now)
    BY AssignmentCalls
  <2> QED BY <2>1, <2>2
<1>2. CASE f = "assign"
  <2> DEFINE d == operator_assign("assign", s, e, t, other)
  <2>1. MovesValue(d, e) \/ AssignsValue(d, e)
    BY AssignmentCalls
  <2>2. Precise(d, now)
    BY AssignmentCalls
  <2>3. l = d /\ e.numbers = GuardedBy(f, s, e)
    BY <1>2 DEF GuardedBy
  <2> HIDE DEF d, l
  <2> QED BY <2>1, <2>2, <2>3 DEF l
<1>3. CASE f # "assign" /\ (IsNumber(e) \/ (f \in {"plus", "minus"} /\ IsProduct(e)))
  <2> PICK w : w = operator2(f, terminal(s), e)
    OBVIOUS
  <2>1. w \in Expression /\ w.numbers = GuardedBy(f, s, e)
    BY <1>3, OperandNumbers DEF GuardedBy
  <2>2. \/ other /\ l = ByTemporary(s, w, t)
        \/ l = <<Call(f, s, e)>>
        \/ ~other /\ l = <<Eval(f, s, {s} \cup e.numbers)>>
    BY <1>3 DEF operator_assign
  <2> HIDE DEF l
  <2>3. Precise(<<Call(f, s, e)>>, now) /\ Ends(<<Call(f, s, e)>>, now)
    BY <1>3, PartsPrecise
  <2>4. ~other => /\ Precise(<<Eval(f, s, {s} \cup e.numbers)>>, now)
                  /\ Ends(<<Eval(f, s, {s} \cup e.numbers)>>, now)
    BY PartsPrecise
  <2> QED BY <1>1, <2>1, <2>2, <2>3, <2>4 DEF l
<1>4. CASE f # "assign" /\ ~(IsNumber(e) \/ (f \in {"plus", "minus"} /\ IsProduct(e)))
  <2>1. l = Unknown(f, s, e, t) \/ l = <<Call(f, s, e)>>
    BY <1>4 DEF operator_assign, Unknown
  <2> HIDE DEF l
  <2>2. Precise(<<Call(f, s, e)>>, now) /\ Ends(<<Call(f, s, e)>>, now)
    BY <1>4, PartsPrecise
  <2>3. Precise(Unknown(f, s, e, t), now) /\ Ends(Unknown(f, s, e, t), now)
    BY <1>4, PartsPrecise
  <2> QED BY <2>1, <2>2, <2>3 DEF l
<1> QED BY <1>2, <1>3, <1>4

\* Between assignments there is no temporary.
LEMMA NoTemporary ==
  ASSUME IInv, stack = <<>>
  PROVE  \A t \in Temporary : num[t] = NoNumber /\ num[t].prec = 0
<1>1. 1..Len(stack) = {}
  BY SMT
<1>2. \A t \in Temporary : num[t] = NoNumber \/ (t \in 1..Len(stack) /\ Destroys(stack[t].todo))
  BY DEF IInv, Owned
<1>3. \A t \in Temporary : num[t] = NoNumber
  <2> TAKE t \in Temporary
  <2>1. t \notin 1..Len(stack)
    BY <1>1
  <2> QED BY <1>2, <2>1
<1> QED BY <1>3 DEF NoNumber

\* The guard has the precision of the most precise number that it covers, and the program's
\* first assignment is sound and exact.
LEMMA AssignPrecise ==
  ASSUME IInv, PInv, NEW a \in Assignments, Assign(a)
  PROVE  PInv'
<1> PICK f : f = a.op
  OBVIOUS
<1> PICK s : s = a.on
  OBVIOUS
<1> PICK e : e = a.of
  OBVIOUS
<1> PICK p : p = guard_precision(f, s, e)
  OBVIOUS
<1> PICK now : now = (num[s].prec = p)
  OBVIOUS
<1> PICK ns : ns = GuardedBy(f, s, e)
  OBVIOUS
<1> PICK l : l = operator_assign(f, s, e, 1, p # num[s].prec)
  OBVIOUS
<1>1. /\ pc = "idle" /\ ({s} \cup e.numbers) \cap moved = {}
      /\ stack' = <<[old |-> default, new |-> p, todo |-> l]>>
      /\ default' = p /\ pc' = "running"
      /\ call' = [on |-> s, unpromoted |-> FALSE,
                  prec |-> Largest(e.numbers \cup IF f = "assign" THEN {} ELSE {s})]
      /\ made' = [x \in Object |-> Given(num[x].prec)]
      /\ num' = num /\ moved' = moved /\ constant' = constant /\ asked' = asked
  BY DEF Assign, Guarded
<1>2. /\ s \in Number /\ e \in Expression /\ e.numbers \in SUBSET Number /\ e.numbers # {}
      /\ f # "assign" => operator2(f, terminal(s), e) \in Expression
  BY PrecisionAssumption, ExpressionAssumption
<1>3. /\ ns \in SUBSET (Number \ moved) /\ ns # {} /\ p = Largest(ns)
      /\ call'.prec = p /\ call'.on = s /\ ~call'.unpromoted
      /\ call' = [on |-> call'.on, prec |-> call'.prec, unpromoted |-> call'.unpromoted]
  <2>1. CASE f = "assign"
    <3>1. ns = e.numbers /\ e.numbers \cup {} = e.numbers
      BY <2>1 DEF GuardedBy
    <3>2. p = Largest(ns)
      BY <2>1, <3>1 DEF guard_precision, precision_of
    <3>3. call' = [on |-> s, unpromoted |-> FALSE, prec |-> Largest(e.numbers \cup {})]
      BY <1>1, <2>1
    <3>4. call' = [on |-> s, unpromoted |-> FALSE, prec |-> p]
      BY <3>1, <3>2, <3>3
    <3> QED BY <1>1, <1>2, <3>1, <3>2, <3>4
  <2>2. CASE f # "assign"
    <3>1. ns = {s} \cup e.numbers /\ e.numbers \cup {s} = ns
      BY <2>2 DEF GuardedBy
    <3>2. p = Largest(ns)
      BY <2>2, <3>1 DEF guard_precision
    <3>3. call' = [on |-> s, unpromoted |-> FALSE, prec |-> Largest(e.numbers \cup {s})]
      BY <1>1, <2>2
    <3>4. call' = [on |-> s, unpromoted |-> FALSE, prec |-> p]
      BY <3>1, <3>2, <3>3
    <3> QED BY <1>1, <1>2, <3>1, <3>2, <3>4
  <2> QED BY <2>1, <2>2
<1>4. /\ p \in Precisions /\ p \in Nat /\ \A x \in ns : num[x].prec <= p
      /\ ns \subseteq Usable(p)
  <2>1. ns \in SUBSET Number
    BY <1>3
  <2>2. p \in Precisions /\ \A x \in ns : num[x].prec <= p
    BY <1>3, <2>1, LargestOf DEF PInv
  <2> QED BY <1>3, <2>2, DigitsAreNumbers DEF Usable
<1>5. e.numbers \subseteq Usable(p) /\ (f # "assign" => s \in Usable(p))
  BY <1>4 DEF GuardedBy
<1>6. Fresh(l, s, 1, Usable(p))
  BY <1>2, <1>5, AssignmentFresh
<1>7. /\ Len(stack') = 1 /\ stack'[1].new = p /\ stack'[1].todo = l
      /\ WrittenTo(1)' = s
  BY <1>1, <1>3 DEF WrittenTo
<1>8. /\ Precise(l, now)
      /\ \/ Ends(l, now)
         \/ \E w \in Expression : w.numbers = ns /\ (MovesValue(l, w) \/ AssignsValue(l, w))
  <2> PICK other : other = (p # num[s].prec)
    OBVIOUS
  <2> PICK k : k = operator_assign(f, s, e, 1, other)
    OBVIOUS
  <2>1. other \/ now
    OBVIOUS
  <2>2. /\ Precise(k, now)
        /\ \/ Ends(k, now)
           \/ \E w \in Expression : /\ w.numbers = GuardedBy(f, s, e)
                                    /\ MovesValue(k, w) \/ AssignsValue(k, w)
    BY <1>2, <2>1, AssignmentEnds
  <2>3. l = k
    OBVIOUS
  <2> QED BY <2>2, <2>3
<1>9. Good(s) /\ num[s].prec \in Nat
  BY <1>1, <1>2, DigitsAreNumbers DEF PInv, Numbers, Good
<1>10. num[1].prec = 0 /\ 1 \in Temporary
  <2>1. stack = <<>>
    BY <1>1 DEF IInv
  <2>2. 1 \in Temporary
    BY PrecisionAssumption DEF Temporary
  <2> QED BY <2>1, <2>2, NoTemporary
<1>11. num[s].prec <= p \/ ByMove(1)'
  <2>1. CASE f # "assign"
    BY <1>4, <2>1 DEF GuardedBy
  <2>2. CASE p = num[s].prec
    BY <1>9, <2>2
  <2>3. CASE f = "assign" /\ p # num[s].prec
    <3>1. MovesValue(l, e)
      <4>1. l = operator_assign("assign", s, e, 1, p # num[s].prec)
        BY <2>3
      <4> QED BY <2>3, <4>1, AssignmentCalls
    <3>2. Len(l) = 3 /\ l[2].run = "move" /\ Sequence(l)
      BY <1>6, <3>1 DEF MovesValue, Fresh, Fitting
    <3>3. 2 \in DOMAIN l
      BY <3>2, LenProperties DEF Sequence
    <3> QED BY <1>7, <3>2, <3>3 DEF ByMove
  <2> QED BY <2>1, <2>2, <2>3
<1>12. Sound(1)'
  <2>1. Fitting(l, s, 1, Usable(p)')
    <3>1. Usable(p) \subseteq Usable(p)'
      BY <1>1 DEF Usable
    <3> QED BY <1>6, <3>1, FittingMore DEF Fresh
  <2>2. Good(s)'
    BY <1>1, <1>9 DEF Good
  <2>3. Expected(1)' <= p
    BY <1>1, <1>4, <1>7, <1>10 DEF Expected
  <2> QED BY <1>1, <1>4, <1>7, <1>11, <2>1, <2>2, <2>3 DEF Sound
<1>13. top'.todo # <<>> /\ Transfers(next)' => Good(1)'
  <2>1. top'.todo = l /\ next' = Head(l)
    BY <1>7 DEF top, next
  <2>2. Transfers(next)' = Transfers(Head(l))
    BY <2>1 DEF Transfers
  <2> QED BY <1>6, <2>1, <2>2 DEF Fresh
<1>14. 1..1 = {1}
  OBVIOUS
<1>15. Running'
  <2>1. call'.on \in Number \ moved' /\ call'.prec = stack'[1].new /\ num'[1].prec \in Nat
    BY <1>1, <1>2, <1>3, <1>7, <1>10
  <2> QED BY <1>3, <1>7, <1>12, <1>13, <1>14, <2>1 DEF Running
<1>16. Exact(1)'
  <2>1. now = (num'[WrittenTo(1)'].prec = stack'[1].new)
    BY <1>1, <1>7
  <2>2. ASSUME NEW w \in Expression, w.numbers = ns, MovesValue(l, w) \/ AssignsValue(l, w)
        PROVE  Outright(l, p)'
    <3>1. precision_of(w)' = p
      BY <1>1, <1>3, <2>2 DEF precision_of, Largest
    <3> QED BY <2>2, <3>1 DEF Outright, MovesValue, AssignsValue, Transfers
  <2> QED BY <1>7, <1>8, <2>1, <2>2 DEF Exact
<1>17. Served'
  <2>1. ASSUME NEW o \in Object
        PROVE  /\ made'[o].due \in Precisions \cup {0} /\ made'[o].due <= num'[o].prec
               /\ made'[o].kept /\ made'[o].served
    <3>1. num[o].prec \in Precisions \cup {0}
      <4>1. CASE o \in Number
        BY <4>1 DEF PInv, Numbers
      <4>2. CASE o \notin Number
        <5>1. stack = <<>> /\ o \in Temporary
          BY <1>1, <4>2 DEF IInv, Object
        <5> QED BY <5>1, NoTemporary
      <4> QED BY <4>1, <4>2
    <3>2. num[o].prec \in Nat
      BY <3>1, DigitsAreNumbers
    <3>3. made'[o] = Given(num[o].prec)
      BY <1>1
    <3> QED BY <1>1, <3>1, <3>2, <3>3 DEF Given
  <2> QED BY <2>1 DEF Served
<1>18. Correct'
  BY <1>7, <1>14, <1>16, <1>17 DEF Correct
<1>19. ConstantInv' /\ Numbers' /\ asked' \in Precisions
  BY <1>1 DEF PInv, ConstantInv, Numbers, Good
<1>20. Len(stack') <= MaxDepth /\ made' = [x \in Object |-> made'[x]] /\ ~Computed'
  BY <1>1, <1>7, PrecisionAssumption DEF Computed
<1> QED BY <1>15, <1>18, <1>19, <1>20 DEF PInv

----------------------------------------------------------------------------
(* The program, and the exceptions. *)

\* What is left to show of a step after which no assignment runs, or none that will return
LEMMA ProgramInv ==
  ASSUME PInv, pc' \notin {"running", "returned"}, Numbers', asked' \in Precisions,
         constant' = constant, Len(stack') <= MaxDepth, made' = [x \in Object |-> made'[x]]
  PROVE  PInv'
<1>1. ~Computed'
  BY DEF Computed
<1>2. ConstantInv'
  BY DEF PInv, ConstantInv
<1> QED BY <1>1, <1>2 DEF PInv

\* The numbers of the program are given values.
LEMMA NumbersGiven ==
  ASSUME IInv, PInv,
         \/ \E x \in Number, p \in Precisions : SetPrecision(x, p)
         \/ \E x, y \in Number : CopyNumber(x, y) \/ MoveNumber(x, y)
  PROVE  PInv'
<1>1. Numbers /\ num = [x \in Object |-> num[x]] /\ Number \subseteq Object
  BY DEF PInv, IInv, Owned, Object
<1>2. ASSUME NEW x \in Number, NEW p \in Precisions, SetPrecision(x, p)
      PROVE  Numbers'
  <2>1. /\ num'[x] = DefaultNumber(p) /\ moved' = moved \ {x}
        /\ \A y \in Number : y # x => num'[y] = num[y]
    BY <1>1, <1>2 DEF SetPrecision
  <2>2. ASSUME NEW y \in Number
        PROVE  /\ num'[y].prec \in Precisions /\ num'[y].room \in Precisions
               /\ y \notin moved' => Good(y)'
    <3>1. CASE y = x
      BY <2>1, <3>1 DEF Good, DefaultNumber
    <3>2. CASE y # x
      BY <1>1, <2>1, <3>2 DEF Numbers, Good
    <3> QED BY <3>1, <3>2
  <2> QED BY <2>2 DEF Numbers
<1>3. ASSUME NEW x \in Number, NEW y \in Number, CopyNumber(x, y)
      PROVE  Numbers'
  <2>1. /\ y \notin moved /\ num'[x] = num[y] /\ moved' = moved \ {x}
        /\ \A z \in Number : z # x => num'[z] = num[z]
    BY <1>1, <1>3 DEF CopyNumber
  <2>2. ASSUME NEW z \in Number
        PROVE  /\ num'[z].prec \in Precisions /\ num'[z].room \in Precisions
               /\ z \notin moved' => Good(z)'
    <3>1. CASE z = x
      BY <1>1, <2>1, <3>1 DEF Numbers, Good
    <3>2. CASE z # x
      BY <1>1, <2>1, <3>2 DEF Numbers, Good
    <3> QED BY <3>1, <3>2
  <2> QED BY <2>2 DEF Numbers
<1>4. ASSUME NEW x \in Number, NEW y \in Number, MoveNumber(x, y)
      PROVE  Numbers'
  <2>1. /\ x # y /\ x \notin moved /\ y \notin moved /\ moved' = moved \cup {y}
        /\ num' = [num EXCEPT ![x] = num[y], ![y].room = num[x].room]
    BY <1>4 DEF MoveNumber, Moved
  <2>2. num[y] = [prec |-> num[y].prec, room |-> num[y].prec] /\ Good(y)
    BY <1>1, <2>1 DEF Numbers, Good, DefaultNumber
  <2>3. /\ num'[x] = num[y] /\ num'[y] = [num[y] EXCEPT !.room = num[x].room]
        /\ \A z \in Number : z # x /\ z # y => num'[z] = num[z]
    BY <1>1, <2>1
  <2>4. num'[y].prec = num[y].prec /\ num'[y].room = num[x].room
    BY <2>2, <2>3
  <2>5. ASSUME NEW z \in Number
        PROVE  /\ num'[z].prec \in Precisions /\ num'[z].room \in Precisions
               /\ z \notin moved' => Good(z)'
    <3>1. CASE z = x
      BY <1>1, <2>2, <2>3, <3>1 DEF Numbers, Good
    <3>2. CASE z = y
      BY <1>1, <2>1, <2>4, <3>2 DEF Numbers
    <3>3. CASE z # x /\ z # y
      BY <1>1, <2>1, <2>3, <3>3 DEF Numbers, Good
    <3> QED BY <3>1, <3>2, <3>3
  <2> QED BY <2>5 DEF Numbers
<1>5. /\ pc' = "idle" /\ asked' = asked /\ constant' = constant /\ stack' = stack /\ made' = made
  BY DEF SetPrecision, CopyNumber, MoveNumber, history
<1>6. Numbers'
  BY <1>2, <1>3, <1>4
<1>7. asked' \in Precisions /\ Len(stack') <= MaxDepth /\ made' = [x \in Object |-> made'[x]]
  BY <1>5 DEF PInv
<1> QED BY <1>5, <1>6, <1>7, ProgramInv

\* What else the program does, and what an exception leaves
LEMMA ProgramPrecise ==
  ASSUME IInv, PInv,
         \/ \E p \in Precisions : SetDefault(p)
         \/ Continue \/ DivideByZero \/ Unwind
  PROVE  PInv'
<1>1. Numbers /\ asked \in Precisions /\ Len(stack) <= MaxDepth
      /\ made = [x \in Object |-> made[x]]
  BY DEF PInv
<1>2. CASE \E p \in Precisions : SetDefault(p)
  <2>1. /\ pc' = "idle" /\ asked' \in Precisions /\ constant' = constant /\ stack' = stack
        /\ made' = made /\ num' = num /\ moved' = moved
    BY <1>2 DEF SetDefault
  <2>2. Numbers'
    BY <1>1, <2>1 DEF Numbers, Good
  <2> QED BY <1>1, <2>1, <2>2, ProgramInv
<1>3. CASE Continue
  <2>1. /\ pc' = "idle" /\ asked' = asked /\ constant' = constant /\ stack' = stack
        /\ made' = [x \in Object |-> Given(0)] /\ num' = num /\ moved' = moved
    BY <1>3 DEF Continue
  <2>2. Numbers'
    BY <1>1, <2>1 DEF Numbers, Good
  <2>3. made' = [x \in Object |-> made'[x]]
    BY <2>1
  <2> QED BY <1>1, <2>1, <2>2, <2>3, ProgramInv
<1>4. CASE DivideByZero
  <2>1. /\ pc' = "throwing" /\ asked' = asked /\ constant' = constant /\ stack' = stack
        /\ made' = made /\ num' = num /\ moved' = moved
    BY <1>4 DEF DivideByZero, history
  <2>2. Numbers'
    BY <1>1, <2>1 DEF Numbers, Good
  <2> QED BY <1>1, <2>1, <2>2, ProgramInv
<1>5. CASE Unwind
  <2> PICK n : n = Len(stack)
    OBVIOUS
  <2>1. /\ pc' \notin {"running", "returned"} /\ asked' = asked /\ constant' = constant
        /\ made' = made /\ num' = [num EXCEPT ![n] = NoNumber] /\ moved' = moved
        /\ stack' = SubSeq(stack, 1, n - 1) /\ stack # <<>>
    BY <1>5 DEF Unwind, history, IInv
  <2>2. Len(stack') = n - 1 /\ n \in Nat
    BY <2>1, PoppedStack DEF IInv
  <2>3. n \notin Number
    <3>1. n # 0
      BY <2>1, EmptySeq, SequenceLength DEF IInv, Stacked
    <3>2. n \in 1..MaxDepth
      BY <1>1, <2>2, <3>1, PrecisionAssumption
    <3> QED BY <3>2, PrecisionAssumption
  <2>4. \A x \in Number : num'[x] = num[x]
    <3>1. num = [x \in Object |-> num[x]] /\ Number \subseteq Object
      BY DEF IInv, Owned, Object
    <3> QED BY <2>1, <2>3, <3>1
  <2>5. Numbers'
    BY <1>1, <2>1, <2>4 DEF Numbers, Good
  <2>6. Len(stack') <= MaxDepth
    BY <1>1, <2>2, PrecisionAssumption
  <2> QED BY <1>1, <2>1, <2>5, <2>6, ProgramInv
<1> QED BY <1>2, <1>3, <1>4, <1>5

\* A step that changes nothing
LEMMA StutterPrecise ==
  ASSUME PInv, UNCHANGED <<vars, history>>
  PROVE  PInv'
<1>1. /\ default' = default /\ num' = num /\ moved' = moved /\ constant' = constant
      /\ stack' = stack /\ pc' = pc /\ asked' = asked /\ call' = call /\ made' = made
  BY DEF vars, history
<1>2. /\ \A i : WrittenTo(i)' = WrittenTo(i)
      /\ \A i : Expected(i)' = Expected(i)
      /\ \A o : Good(o)' = Good(o)
      /\ \A i : ByMove(i)' = ByMove(i)
      /\ \A i : Usable(stack[i].new)' = Usable(stack[i].new)
      /\ top' = top /\ next' = next
  BY <1>1 DEF WrittenTo, Expected, Good, ByMove, Usable, top, next
<1>3. \A i : Sound(i)' = Sound(i)
  BY <1>1, <1>2 DEF Sound
<1>4. \A i : Exact(i)' = Exact(i)
  <2>1. \A i : Outright(stack[i].todo, stack[i].new)' = Outright(stack[i].todo, stack[i].new)
    BY <1>1 DEF Outright, precision_of, Largest
  <2> QED BY <1>1, <1>2, <2>1 DEF Exact
<1>5. Numbers' = Numbers /\ ConstantInv' = ConstantInv /\ Served' = Served
  BY <1>1, <1>2 DEF Numbers, ConstantInv, Served
<1>6. Running' = Running
  BY <1>1, <1>2, <1>3 DEF Running, Transfers
<1>7. Correct' = Correct
  BY <1>1, <1>4, <1>5 DEF Correct
<1>8. Computed' = Computed /\ LargestPrecision' = LargestPrecision
  BY <1>1 DEF Computed, LargestPrecision
<1> QED BY <1>1, <1>5, <1>6, <1>7, <1>8 DEF PInv

\* At the start every number has the default precision.
LEMMA InitPrecise == Init => PInv
<1> SUFFICES ASSUME Init PROVE PInv
  OBVIOUS
<1>1. /\ default \in Precisions /\ asked = default /\ moved = {} /\ constant = NoConstant
      /\ stack = <<>> /\ pc = "idle" /\ made = [x \in Object |-> Given(0)]
      /\ num = [x \in Object |-> IF x \in Number THEN DefaultNumber(default) ELSE NoNumber]
  BY DEF Init
<1>2. Numbers
  <2>1. \A x \in Number : num[x] = DefaultNumber(default)
    BY <1>1 DEF Object
  <2> QED BY <1>1, <2>1 DEF Numbers, Good, DefaultNumber
<1>3. ConstantInv /\ ~Computed
  BY <1>1 DEF ConstantInv, Computed
<1>4. Len(stack) <= MaxDepth
  BY <1>1, PrecisionAssumption
<1>5. made = [x \in Object |-> made[x]]
  BY <1>1
<1> QED BY <1>1, <1>2, <1>3, <1>4, <1>5 DEF PInv

\* Every step preserves the invariant.
LEMMA NextPrecise == IInv /\ TInv /\ PInv /\ [Next]_<<vars, history>> => PInv'
<1> SUFFICES ASSUME IInv, TInv, PInv, [Next]_<<vars, history>> PROVE PInv'
  OBVIOUS
<1>1. CASE Step
  BY <1>1, EnterPrecise, PromotePrecise, ComputePrecise, CopyPrecise, ConstructPrecise,
     TransferPrecise, LeavePrecise, ProgramPrecise DEF Step
<1>2. CASE \E a \in Assignments : Assign(a)
  BY <1>2, AssignPrecise
<1>3. CASE \/ \E p \in Precisions : SetDefault(p)
           \/ \E x \in Number, p \in Precisions : SetPrecision(x, p)
           \/ \E x, y \in Number : CopyNumber(x, y) \/ MoveNumber(x, y)
           \/ Continue
  BY <1>3, NumbersGiven, ProgramPrecise
<1>4. CASE UNCHANGED <<vars, history>>
  BY <1>4, StutterPrecise
<1> QED BY <1>1, <1>2, <1>3, <1>4 DEF Next

\* For all numbers, precisions and expressions: when an assignment has returned, its target
\* has the precision of the most precise operand, and the room for it, but where do_subtract
\* has overlooked a promotion.
THEOREM ResultIsMostPrecise == Spec => []LargestPrecision
<1>1. PInv => LargestPrecision
  BY DEF PInv, LargestPrecision
<1> QED BY <1>1, InitHolds, NextKeeps, TailInit, NextPlain, InitPrecise, NextPrecise, PTL DEF Spec

\* For all numbers, precisions and expressions: no operation on the way had fewer digits
\* than its most precise operand, nor had a constant that could have had more.
THEOREM DigitsAreKept == Spec => []KeepsDigits
<1>1. PInv => KeepsDigits
  <2> SUFFICES ASSUME PInv, Computed PROVE KeepsDigits
    BY DEF KeepsDigits
  <2>1. Served /\ call.on \in Object
    BY DEF PInv, Object
  <2> QED BY <2>1 DEF KeepsDigits, Served
<1> QED BY <1>1, InitHolds, NextKeeps, TailInit, NextPlain, InitPrecise, NextPrecise, PTL DEF Spec
=============================================================================
