--------------------------- MODULE CppIntKaratsuba --------------------------
(***************************************************************************)
(* Karatsuba multiplication of cpp_int's: the second half of eval_multiply *)
(* and the functions it calls in cpp_int/multiply.hpp.  The recursion      *)
(* multiplies parts of its operands into parts of its result; for the sums *)
(* it takes scratch memory from a block that setup_karatsuba allocated, by *)
(* a rule of thumb, for the whole recursion.                               *)
(*                                                                         *)
(* All numbers of a multiplication lie in one memory of limbs, the number  *)
(* zero that replaces an empty high part at address 0.  A number is a view: *)
(* an address, the limbs there are, and the limbs in use.  The             *)
(* multiplication of parts shorter than the cut-off is CppIntMultiply's,   *)
(* sums and differences are CppIntAddSubtract's: here they are one step.   *)
(***************************************************************************)
EXTENDS LimbNumbers, Sequences

CONSTANTS
  karatsuba_cutoff,   \* parts with fewer limbs are not split
  Types,              \* of the result: limbs, zero for no limit; checked
  Factors             \* pairs of magnitudes to multiply

CutoffAssumption == karatsuba_cutoff \in Nat \ {0}
TypesAssumption == Types \subseteq [limbs : Nat, checked : BOOLEAN]
FactorsAssumption ==
  /\ Factors \subseteq Nat \X Nat
  /\ \A f \in Factors : Size(f[1]) >= karatsuba_cutoff /\ Size(f[2]) >= karatsuba_cutoff

VARIABLES
  call,      \* the running call: the type of the result and the factors
  cells,     \* the memory
  storage,   \* the scratch memory: where it is, how much there is and is taken
  stack,     \* the invocations of multiply_karatsuba, the innermost last
  ret,       \* the size of the last product
  pc

vars == <<call, cells, storage, stack, ret, pc>>

type == call.type
sz == Size(call.a) + Size(call.b)

HasRoom == type.limbs = 0 \/ sz <= type.limbs     \* the product goes to the result
ResultLimbs == IF HasRoom THEN sz ELSE type.limbs

NoCall == [type |-> CHOOSE t \in Types : TRUE, a |-> 0, b |-> 0]
NoStorage == [at |-> 0, capacity |-> 0, allocated |-> 0]

Init ==
  /\ call = NoCall /\ cells = [k \in {0} |-> 0] /\ storage = NoStorage
  /\ stack = <<>> /\ ret = 0 /\ pc = "idle"

----------------------------------------------------------------------------
(* Views of the memory.                                                    *)

View(at, size) == [at |-> at, cap |-> size, size |-> size]
Addresses(v) == v.at .. v.at + v.cap - 1

\* From the top limb down: above[k] is the value of the k topmost limbs.
ValueIn(c, v) ==
  LET above[k \in 0 .. v.size] ==
        IF k = 0 THEN 0 ELSE Base * above[k - 1] + c[v.at + v.size - k]
  IN above[v.size]
Value(v) == ValueIn(cells, v)

\* A const view is normalized when it is made.
ConstView(at, size) ==
  [at |-> at, cap |-> size, size |-> Size(Value(View(at, size)))]

\* The memory after size limbs of n have been written at an address
Written(c, at, n, size) ==
  [k \in DOMAIN c |-> IF k \in at .. at + size - 1 THEN Limb(n, k - at) ELSE c[k]]

\* Where the operands, the result and the scratch memory of a call are
aView == View(1, Size(call.a))
bView == View(1 + Size(call.a), Size(call.b))
resultView == View(1 + sz, ResultLimbs)

----------------------------------------------------------------------------
(* The outermost level.                                                    *)

Call ==
  /\ pc = "idle" /\ pc' = "entered"
  /\ \E t \in Types, f \in Factors : call' = [type |-> t, a |-> f[1], b |-> f[2]]
  /\ UNCHANGED <<cells, storage, stack, ret>>

\* Fault: the temporaries of the inner levels are not counted.
karatsuba_storage_sizeShort(s) == 4 * s

karatsuba_storage_size(s) == 5 * s

Frame(res, a, b) ==
  [res |-> res, a |-> a, b |-> b, step |-> "enter", n |-> 0, t |-> 0, low |-> 0, high |-> 0]

\* result.resize(as + bs, as + bs - 1) and setup_karatsuba.  If the result has no
\* room for the product, the product is scratch memory, too.
Setup ==
  /\ pc = "entered"
  /\ IF type.checked /\ ResultLimbs < sz - 1
     THEN pc' = "threw" /\ UNCHANGED <<call, cells, storage, stack, ret>>
     ELSE LET scratch == 1 + sz + ResultLimbs
              own == IF HasRoom THEN 0 ELSE sz
              size == own + karatsuba_storage_size(Larger(Size(call.a), Size(call.b)))
              dirty == [k \in 0 .. scratch + size - 1 |-> IF k = 0 THEN 0 ELSE Base - 1]
          IN /\ cells' = Written(Written(dirty, aView.at, call.a, aView.cap),
                                 bView.at, call.b, bView.cap)
             /\ storage' = [at |-> scratch, capacity |-> size, allocated |-> own]
             /\ stack' = <<Frame(IF HasRoom THEN resultView ELSE View(scratch, sz),
                                 aView, bView)>>
             /\ pc' = "running" /\ UNCHANGED <<call, ret>>

\* The product is where it belongs; a fixed precision result is as long as the
\* product may be.
Place ==
  /\ pc = "running" /\ stack = <<>> /\ HasRoom
  /\ ret' = IF type.limbs = 0 THEN ret ELSE sz
  /\ pc' = "returned" /\ UNCHANGED <<call, cells, storage, stack>>

\* result = t: what fits is copied, in a checked type everything must.
Truncate ==
  /\ pc = "running" /\ stack = <<>> /\ ~HasRoom
  /\ IF type.checked /\ ret > type.limbs
     THEN pc' = "threw" /\ UNCHANGED <<cells, ret>>
     ELSE LET count == Smaller(ret, type.limbs)
              product == Value(View(storage.at, count))
          IN /\ cells' = Written(cells, resultView.at, product, count)
             /\ ret' = Size(product) /\ pc' = "returned"
  /\ UNCHANGED <<call, storage, stack>>

Return ==
  /\ pc \in {"returned", "threw"} /\ pc' = "idle"
  /\ call' = NoCall /\ cells' = [k \in {0} |-> 0] /\ storage' = NoStorage /\ ret' = 0
  /\ UNCHANGED stack

----------------------------------------------------------------------------
(* multiply_karatsuba.                                                     *)

top == stack[Len(stack)]
Running(step) == pc = "running" /\ stack # <<>> /\ top.step = step
Descend(f, res, a, b) == stack' = Append([stack EXCEPT ![Len(stack)] = f], Frame(res, a, b))
Ascend(size) == stack' = SubSeq(stack, 1, Len(stack) - 1) /\ ret' = size

TooShort == top.a.size < karatsuba_cutoff \/ top.b.size < karatsuba_cutoff

\* The limbs that eval_multiply writes: a product of two limbs is assigned, one by
\* a limb is resized as needed, any other is cleared first.
LeafLimbs ==
  LET as == top.a.size
      bs == top.b.size
      product == Value(top.a) * Value(top.b)
  IN IF as = 1 /\ bs = 1 THEN 2
     ELSE IF as = 1 \/ bs = 1 THEN Size(product)
     ELSE as + bs

Leaf ==
  /\ Running("enter") /\ TooShort
  /\ LET product == Value(top.a) * Value(top.b)
     IN /\ cells' = Written(cells, top.res.at, product, LeafLimbs)
        /\ Ascend(Size(product))
  /\ UNCHANGED <<call, storage, pc>>

\* n of the invocation that is about to split its operands
half == (Larger(top.a.size, top.b.size) \div 2) + 1

\* The parts of an operand
Low(v, n) == ConstView(v.at, Smaller(v.size, n))
High(v, n) == IF v.size > n THEN ConstView(v.at + n, v.size - n) ELSE ConstView(0, 1)

\* The limbs of t1, t2 and t3
temporaries(n) == <<2 * n + 2, n + 1, n + 1>>
Taken(n) == temporaries(n)[1] + temporaries(n)[2] + temporaries(n)[3]
t1(f) == View(f.t, temporaries(f.n)[1])
t2(f) == View(f.t + temporaries(f.n)[1], temporaries(f.n)[2])
t3(f) == View(f.t + temporaries(f.n)[1] + temporaries(f.n)[2], temporaries(f.n)[3])

result_low(f) == View(f.res.at, 2 * f.n)
result_high(f) == View(f.res.at + 2 * f.n, f.res.size - 2 * f.n)

\* The temporaries are taken, and the low part of the result is a_l * b_l.
Split ==
  /\ Running("enter") /\ ~TooShort
  /\ LET f == [top EXCEPT !.step = "low", !.n = half, !.t = storage.at + storage.allocated]
     IN /\ storage' = [storage EXCEPT !.allocated = @ + Taken(f.n)]
        /\ Descend(f, result_low(f), Low(f.a, f.n), Low(f.b, f.n))
  /\ UNCHANGED <<call, cells, ret, pc>>

\* Fault: what a product did not need of its part is not cleared.
clearedNever(v) == cells

\* The limbs of a part of the result above the product are cleared.
cleared(v) == Written(cells, v.at + ret, 0, v.cap - ret)

\* The high part of the result is a_h * b_h.
LowDone ==
  /\ Running("low")
  /\ LET f == [top EXCEPT !.step = "high", !.low = ret]
     IN Descend(f, result_high(f), High(f.a, f.n), High(f.b, f.n))
  /\ cells' = cleared(result_low(top))
  /\ UNCHANGED <<call, storage, ret, pc>>

\* t1 = (a_l + a_h) * (b_l + b_h)
HighDone ==
  /\ Running("high")
  /\ LET f == [top EXCEPT !.step = "middle", !.high = ret]
         sum(v) == Value(Low(v, f.n)) + Value(High(v, f.n))
         with(c, t, n) == Written(c, t.at, n, Size(n))
         view(t, n) == [t EXCEPT !.size = Size(n)]
     IN /\ cells' = with(with(cleared(result_high(top)), t2(f), sum(f.a)), t3(f), sum(f.b))
        /\ Descend(f, t1(f), view(t2(f), sum(f.a)), view(t3(f), sum(f.b)))
  /\ UNCHANGED <<call, storage, ret, pc>>

\* What the invocation gives back
givenBack(n) == Taken(n)

\* t1 -= a_h * b_h, t1 -= a_l * b_l, and the rest is added n limbs up.  All the
\* limbs of t1 are written, the leading zeros, too.
Combine ==
  /\ Running("middle")
  /\ LET f == top
         high == [result_high(f) EXCEPT !.size = f.high]
         low == [result_low(f) EXCEPT !.size = f.low]
         middle == Value([t1(f) EXCEPT !.size = ret]) - Value(high) - Value(low)
         result_alias == View(f.res.at + f.n, f.res.size - f.n)
         new == Written(Written(cells, t1(f).at, middle, ret), result_alias.at,
                        Value(result_alias) + middle, result_alias.size)
     IN /\ cells' = new
        /\ storage' = [storage EXCEPT !.allocated = @ - givenBack(f.n)]
        /\ Ascend(Size(ValueIn(new, f.res)))
  /\ UNCHANGED <<call, pc>>

Step == Setup \/ Leaf \/ Split \/ LowDone \/ HighDone \/ Combine \/ Place \/ Truncate

Next == Call \/ Step \/ Return

Spec == Init /\ [][Next]_vars /\ WF_vars(Step)

----------------------------------------------------------------------------
(* Properties.                                                             *)

Views == [at : Nat, cap : Nat, size : Nat]

TypeOK ==
  /\ call \in [type : Types, a : Nat, b : Nat]
  /\ \A k \in DOMAIN cells : cells[k] \in 0 .. Base - 1
  /\ storage \in [at : Nat, capacity : Nat, allocated : Nat]
  /\ \A i \in DOMAIN stack :
       stack[i] \in [res : Views, a : Views, b : Views,
                     step : {"enter", "low", "high", "middle"},
                     n : Nat, t : Nat, low : Nat, high : Nat]
  /\ ret \in Nat /\ pc \in {"idle", "entered", "running", "returned", "threw"}

Splits(f) == f.step # "enter"
Scratch(f) == f.t .. f.t + Taken(f.n) - 1

\* The scratch memory suffices for the whole recursion (multiply.hpp:215 calls
\* its size an estimate; allocate() has only an assertion, cpp_int.hpp:305), what
\* is taken of it, one part behind the other, is given back, no product is longer
\* than the part it is written to, and no invocation writes over what it, or one
\* that it serves, has to read: its temporaries are apart from those of the others,
\* its result from its operands.
ScratchIsPrivate ==
  pc = "running" =>
    LET split == {i \in DOMAIN stack : Splits(stack[i])}
        scratch == storage.at .. storage.at + storage.capacity - 1
        behind(i) == IF i = 0 THEN storage.at + (IF HasRoom THEN 0 ELSE sz)
                     ELSE stack[i].t + Taken(stack[i].n)
    IN /\ storage.allocated <= storage.capacity
       /\ storage.at + storage.allocated =
            behind(IF Running("enter") THEN Len(stack) - 1 ELSE Len(stack))
       /\ \A i \in split :
            /\ stack[i].t = behind(i - 1)
            /\ Scratch(stack[i]) \subseteq scratch
            /\ \A j \in split \ {i} : Scratch(stack[i]) \cap Scratch(stack[j]) = {}
       /\ \A i \in DOMAIN stack :
            LET f == stack[i]
                operands == Addresses(f.a) \cup Addresses(f.b)
            IN /\ Addresses(f.res) \cap operands = {}
               /\ Splits(f) => Scratch(f) \cap (Addresses(f.res) \cup operands) = {}
       /\ Running("enter") /\ TooShort => LeafLimbs <= top.res.cap

\* The magnitude that the result of a call holds
Result == Value(View(resultView.at, Smaller(ret, ResultLimbs)))
Product == call.a * call.b

\* At every level the low and the high product stay as they were computed, and
\* nothing else remains in their parts of the result, until they are combined;
\* in the end the result is the product of the factors, or what the type has room
\* for of it.  Only a checked type throws, and only if the product does not fit.
ProductExact ==
  /\ pc = "running" =>
       \A i \in DOMAIN stack :
         LET f == stack[i] IN
         /\ f.step \in {"high", "middle"} =>
              Value(result_low(f)) = Value(Low(f.a, f.n)) * Value(Low(f.b, f.n))
         /\ f.step = "middle" =>
              Value(result_high(f)) = Value(High(f.a, f.n)) * Value(High(f.b, f.n))
  /\ pc = "returned" =>
       /\ Result = IF HasRoom THEN Product ELSE Product % Power(type.limbs)
       /\ type.checked => Result = Product
       /\ ret = Size(Result) \/ (type.limbs # 0 /\ HasRoom)
  /\ pc = "threw" => type.checked /\ Product >= Power(type.limbs)
=============================================================================
