--------------------------- MODULE CppIntStorage ---------------------------
(***************************************************************************)
(* The storage of the variable precision cpp_int: the specialisation       *)
(*     cpp_int_base<MinBits, MaxBits, signed_magnitude, Checked, Allocator>*)
(* of cpp_int.hpp.  An object keeps its limbs in a buffer of its own or in *)
(* a heap block; the two share one union (m_data) and m_internal says      *)
(* which member is the live one.  m_alias marks an object that looks at    *)
(* memory somebody else owns.                                              *)
(*                                                                         *)
(* Numbers are abstract: a magnitude is a member of Value that occupies    *)
(* Len[v] limbs, Wrap[v] is what is left of it in MaxLimbs limbs.  Junk    *)
(* stands for limbs that no completed operation wrote.                     *)
(*                                                                         *)
(* A member function is an operator on a memory, a record of the objects,  *)
(* the heap and whether an exception left the function; it returns the set *)
(* of memories the function can end in (an allocation may always fail).    *)
(***************************************************************************)
EXTENDS Integers, FiniteSets

CONSTANTS
  Obj,            \* names of cpp_int objects: variables and stack temporaries
  Block,          \* heap blocks the allocator can hand out
  Value,          \* magnitudes
  Zero,           \* the magnitude 0
  Len,            \* number of limbs of a magnitude
  Wrap,           \* a magnitude modulo 2^(MaxLimbs * limb_bits)
  Junk,           \* limbs with no defined value
  Lit,            \* the memory of a constant: const limb_type* data
  LitValue,       \* the magnitude stored there
  InternalLimbs,  \* internal_limb_count
  MaxLimbs        \* max_limbs of resize()

ASSUME SizesAssumption ==
  /\ InternalLimbs \in Nat /\ InternalLimbs >= 2
  /\ MaxLimbs \in Nat /\ MaxLimbs >= InternalLimbs
ASSUME ValueAssumption ==
  /\ Len \in [Value -> Nat \ {0}]
  /\ Wrap \in [Value -> Value]
  /\ \A v \in Value : Len[Wrap[v]] <= MaxLimbs
  /\ Zero \in Value /\ Len[Zero] = 1
  /\ LitValue \in Value /\ Len[LitValue] <= MaxLimbs
  /\ Junk \notin Value
ASSUME MemoryAssumption == Lit \notin Block

VARIABLES
  checked, \* the cpp_int_check_type of the numbers, the same throughout
  obj,     \* the objects
  heap,    \* the allocator's blocks
  threw    \* did the last call end in an exception?

vars == <<checked, obj, heap, threw>>

Contents == Value \cup {Junk}
Buffer   == [limbs : Contents]                           \* data_type::la
Pointer  == [data : Block \cup {Lit}, capacity : Nat]    \* data_type::ld
Object   == [alive : BOOLEAN, m_limbs : Nat, m_sign : BOOLEAN,
             m_internal : BOOLEAN, m_alias : BOOLEAN,
             m_data : Buffer \cup Pointer]
HeapBlock == [cap : Nat, limbs : Contents]

Free == [cap |-> 0, limbs |-> Junk]

\* cpp_int_base(): zero, in the internal buffer
Default == [alive |-> TRUE, m_limbs |-> 1, m_sign |-> FALSE,
            m_internal |-> TRUE, m_alias |-> FALSE,
            m_data |-> [limbs |-> Zero]]
Dead == [Default EXCEPT !.alive = FALSE]

Smaller(a, b) == IF a < b THEN a ELSE b
Larger(a, b)  == IF a < b THEN b ELSE a

----------------------------------------------------------------------------
(* Reading an object. *)

capacity(r) == IF r.m_internal THEN InternalLimbs ELSE r.m_data.capacity

Owns(r) == r.alive /\ ~r.m_internal /\ ~r.m_alias

\* What limbs() points at.  The internal member of an object whose value was
\* moved out still holds the pointer that was taken from it.
LimbsIn(h, r) ==
  IF r.m_internal
  THEN IF r.m_data \in Buffer THEN r.m_data.limbs ELSE Junk
  ELSE IF r.m_data.data = Lit THEN LitValue ELSE h[r.m_data.data].limbs

\* The limbs that memcpy(.., limbs(), size()) carries over
Content(h, r) == IF r.m_limbs = 0 THEN Junk ELSE LimbsIn(h, r)

\* An object whose value was moved out, or whose assignment threw, has no limb.
Hollow(r) == r.m_limbs = 0
Usable(r) == r.alive /\ ~Hollow(r)

FreeBlocks(h) == {b \in Block : h[b].cap = 0}

----------------------------------------------------------------------------
(* The member functions. *)

Mem(o, h, t) == [obj |-> o, heap |-> h, threw |-> t]
Now == Mem(obj, heap, FALSE)
Put(m, x, r) == [m EXCEPT !.obj = [@ EXCEPT ![x] = r]]
PutBlock(m, b, e) == [m EXCEPT !.heap = [@ EXCEPT ![b] = e]]
Throw(m) == [m EXCEPT !.threw = TRUE]

\* allocator().deallocate(limbs(), capacity()), for an object that owns a block
Release(h, r) == IF Owns(r) THEN [h EXCEPT ![r.m_data.data] = Free] ELSE h

\* Writes c through limbs().  Only objects that are not aliases are written to.
Write(m, x, c) ==
  LET r == m.obj[x]
      b == r.m_data.data
  IN IF r.m_internal THEN Put(m, x, [r EXCEPT !.m_data = [limbs |-> c]])
     ELSE PutBlock(m, b, [cap |-> m.heap[b].cap, limbs |-> c])

\* The buffer resize() allocates when the capacity cap is too small for n limbs
Grow(cap, n) == Smaller(Larger(4 * cap, n), MaxLimbs)

\* Fault: the old block is not handed back.
ReallocateLeaks(m, x, n, b) ==
  LET cap == Grow(capacity(m.obj[x]), n) IN
  Mem([m.obj EXCEPT ![x] = [@ EXCEPT !.m_internal = FALSE, !.m_limbs = n,
                                     !.m_data = [data |-> b, capacity |-> cap]]],
      [m.heap EXCEPT ![b] = [cap |-> cap, limbs |-> Content(m.heap, m.obj[x])]],
      m.threw)

Reallocate(m, x, n, b) ==
  LET r   == m.obj[x]
      cap == Grow(capacity(r), n)
      q   == [r EXCEPT !.m_internal = FALSE, !.m_limbs = n,
                       !.m_data = [data |-> b, capacity |-> cap]]
      h   == [m.heap EXCEPT ![b] = [cap |-> cap, limbs |-> Content(m.heap, r)]]
  IN Mem([m.obj EXCEPT ![x] = q], Release(h, r), m.threw)

\* With room enough only m_limbs changes; from now on whatever is in the union
\* of an internal object counts as limbs.
ResizeInPlace(m, x, n) ==
  LET r == m.obj[x] IN
  Put(m, x, [r EXCEPT !.m_limbs = n,
    !.m_data = IF r.m_internal THEN [limbs |-> LimbsIn(m.heap, r)] ELSE @])

\* resize(new_size, min_size)
resize(m, x, new_size, min_size) ==
  LET n == Smaller(new_size, MaxLimbs) IN
  IF checked /\ n < min_size THEN {Throw(m)}
  ELSE IF n <= capacity(m.obj[x]) THEN {ResizeInPlace(m, x, n)}
  ELSE {Throw(m)} \cup {Reallocate(m, x, n, b) : b \in FreeBlocks(m.heap)}

\* Fault: the sign is stored without a look at the limbs.
SetSignBlindly(m, x, s) == Put(m, x, [m.obj[x] EXCEPT !.m_sign = s])

\* sign(b): zero is never negative
SetSign(m, x, s) ==
  LET r == m.obj[x] IN
  Put(m, x, [r EXCEPT !.m_sign = s /\ ~(r.m_limbs = 1 /\ LimbsIn(m.heap, r) = Zero)])

\* The end of an operation whose result is the magnitude v with sign s:  the
\* limbs that fit are in place, then normalize() and sign(s).
Finish(m, x, v, s) ==
  LET c == IF m.obj[x].m_limbs >= Len[v] THEN v ELSE Wrap[v]
      w == Write(m, x, c)
  IN SetSign(Put(w, x, [w.obj[x] EXCEPT !.m_limbs = Len[c]]), x, s)

\* An operation that asks for all its limbs, n, before it writes the first one
store(m, x, n, v, s) ==
  {IF u.threw THEN u ELSE Finish(u, x, v, s) : u \in resize(m, x, n, Len[v])}

\* An operation that writes all limbs but the last, and then finds a carry:
\* the second resize can throw with the new low limbs already in place.
storeWithCarry(m, x, v, s) ==
  UNION {IF u.threw THEN {u}
         ELSE {IF w.threw THEN w ELSE Finish(w, x, v, s) :
                 w \in resize(Write(u, x, Junk), x, Len[v], Len[v])}
         : u \in resize(m, x, Len[v] - 1, Len[v] - 1)}

\* ~cpp_int_base()
destroy(m, x) == [m EXCEPT !.obj = [@ EXCEPT ![x] = Dead],
                           !.heap = Release(@, m.obj[x])]

\* The end of the copy constructor and of assign(): the memcpy of size() limbs
CopyLimbs(u, x, y) ==
  IF Hollow(u.obj[y]) THEN u ELSE Write(u, x, LimbsIn(u.heap, u.obj[y]))

\* cpp_int_base(const cpp_int_base& o).  If resize throws there is no object.
copyConstruct(m, x, y) ==
  LET o == m.obj[y] IN
  IF o.m_alias
  THEN {Put(m, x, [o EXCEPT !.m_internal = FALSE])}
  ELSE LET e == Put(m, x, [Default EXCEPT !.m_limbs = 0, !.m_sign = o.m_sign])
       IN {IF u.threw THEN Throw(m) ELSE CopyLimbs(u, x, y) :
             u \in resize(e, x, o.m_limbs, o.m_limbs)}

\* Fault: the source keeps m_limbs.
TakeOverKeepsLimbs(m, x, y) ==
  LET p == Put(m, x, m.obj[y])
  IN IF m.obj[y].m_internal THEN p
     ELSE Put(p, y, [p.obj[y] EXCEPT !.m_internal = TRUE])

\* Fault: the source keeps m_internal.
TakeOverKeepsPointer(m, x, y) ==
  LET p == Put(m, x, m.obj[y])
  IN IF m.obj[y].m_internal THEN p
     ELSE Put(p, y, [p.obj[y] EXCEPT !.m_limbs = 0])

\* Both move operations, once the target has let go of its own block
TakeOver(m, x, y) ==
  LET o == m.obj[y] IN
  IF o.m_internal
  THEN Put(m, x, [o EXCEPT !.m_data = [limbs |-> Content(m.heap, o)]])
  ELSE LET p == Put(m, x, o)
       IN Put(p, y, [p.obj[y] EXCEPT !.m_limbs = 0, !.m_internal = TRUE])

\* Fault: the target's block is freed after its members were overwritten.
moveAssignFreesLate(m, x, y) ==
  LET t == TakeOver(m, x, y) IN [t EXCEPT !.heap = Release(@, t.obj[x])]

\* operator=(cpp_int_base&& o), which does not test for this == &o
moveAssign(m, x, y) ==
  TakeOver([m EXCEPT !.heap = Release(@, m.obj[x])], x, y)

\* Fault: the target keeps its sign.
assignLimbsOnly(m, x, y) ==
  IF x = y THEN {m}
  ELSE {IF u.threw THEN u ELSE CopyLimbs(u, x, y) :
          u \in resize(Put(m, x, [m.obj[x] EXCEPT !.m_limbs = 0]), x,
                       m.obj[y].m_limbs, m.obj[y].m_limbs)}

\* assign(const cpp_int_base& o): the target drops its limbs before it asks
\* for room, so that resize copies nothing.
assign(m, x, y) ==
  IF x = y THEN {m}
  ELSE LET o == m.obj[y]
           e == Put(m, x, [m.obj[x] EXCEPT !.m_limbs = 0])
           \* m_sign = o.m_sign, a plain member assignment
           Signed(u) == Put(u, x, [u.obj[x] EXCEPT !.m_sign = o.m_sign])
       IN {IF u.threw THEN u ELSE Signed(CopyLimbs(u, x, y)) :
             u \in resize(e, x, o.m_limbs, o.m_limbs)}

\* Fault: the signs are not exchanged.
do_swapKeepsSigns(m, x, y) ==
  LET a == m.obj[x]
      b == m.obj[y]
  IN [m EXCEPT !.obj = [@ EXCEPT
       ![x] = [b EXCEPT !.m_alias = a.m_alias, !.m_sign = a.m_sign],
       ![y] = [a EXCEPT !.m_alias = b.m_alias, !.m_sign = b.m_sign]]]

\* do_swap(): m_alias stays where it is, so neither side may be an alias
do_swap(m, x, y) ==
  LET a == m.obj[x]
      b == m.obj[y]
  IN [m EXCEPT !.obj = [@ EXCEPT
       ![x] = [b EXCEPT !.m_alias = a.m_alias],
       ![y] = [a EXCEPT !.m_alias = b.m_alias]]]

\* do_assign_string(s): *this = 0, a temporary receives the digits, and its
\* representation is swapped in.  A bad digit, or digits that do not fit, throw.
do_assign_string(m, x, t, v, s, bad) ==
  UNION {{LET r == IF u.threw \/ bad THEN Throw(u) ELSE do_swap(u, t, x)
          IN destroy(r, t) :
            u \in store(Put(z, t, Default), t, Len[v], v, s)}
         : z \in store(m, x, 1, Zero, FALSE)}

\* A product asks for the sum of its operands' sizes, one limb more than it may
\* turn out to need.
Room(v) == {Len[v], Len[v] + 1}

\* eval_multiply(result, a, b) where result is a or b: copies it first
computeFromCopy(m, x, t, v, s) ==
  UNION {IF c.threw THEN {c}
         ELSE {destroy(u, t) : u \in UNION {store(c, x, n, v, s) : n \in Room(v)}}
         : c \in copyConstruct(m, t, x)}

----------------------------------------------------------------------------
(* The calls a program makes. *)

Live    == {x \in Obj : obj[x].alive}
Unused  == Obj \ Live
Targets == {x \in Live : ~obj[x].m_alias}     \* objects that may be written to
Sources == {x \in Live : Usable(obj[x])}     \* operands of an operation

Become(m) ==
  obj' = m.obj /\ heap' = m.heap /\ threw' = m.threw /\ UNCHANGED checked

Init ==
  /\ checked \in BOOLEAN
  /\ obj = [x \in Obj |-> Dead]
  /\ heap = [b \in Block |-> Free]
  /\ threw = FALSE

\* number x(v), for an arithmetic v of at most two limbs
Construct(x, v, s) ==
  /\ Len[v] <= 2
  /\ Become(Put(Now, x, [Default EXCEPT
       !.m_limbs = Len[v], !.m_sign = s /\ v # Zero, !.m_data = [limbs |-> v]]))

\* cpp_int_base(const limb_type* data, 0, len): looks at a constant
ConstructAlias(x) ==
  Become(Put(Now, x, [Default EXCEPT
    !.m_limbs = Len[LitValue], !.m_internal = FALSE, !.m_alias = TRUE,
    !.m_data = [data |-> Lit, capacity |-> Len[LitValue]]]))

CopyConstruct(x, y) == \E m \in copyConstruct(Now, x, y) : Become(m)
MoveConstruct(x, y) == Become(TakeOver(Now, x, y))
Assign(x, y)        == \E m \in assign(Now, x, y) : Become(m)
MoveAssign(x, y)    == Become(moveAssign(Now, x, y))
Swap(x, y)          == Become(do_swap(Now, x, y))
Destroy(x)          == Become(destroy(Now, x))

\* x = y op z, x op= y, ++x ..: any result, from operands that have a value
Compute(x, v, s) ==
  \E n \in Room(v) : \E m \in store(Now, x, n, v, s) : Become(m)
ComputeWithCarry(x, v, s) ==
  /\ Len[v] > 1
  /\ \E m \in storeWithCarry(Now, x, v, s) : Become(m)

ComputeFromCopy(x, t, v, s) ==
  \E m \in computeFromCopy(Now, x, t, v, s) : Become(m)

AssignString(x, t, v, s, bad) ==
  \E m \in do_assign_string(Now, x, t, v, s, bad) : Become(m)

Create ==
  \E x \in Unused :
    \/ \E v \in Value, s \in BOOLEAN : Construct(x, v, s)
    \/ ConstructAlias(x)
    \/ \E y \in Live : CopyConstruct(x, y)
    \/ \E y \in Targets : MoveConstruct(x, y)

Update ==
  \E x \in Targets :
    \/ \E y \in Live : Assign(x, y)
    \/ \E y \in Targets : MoveAssign(x, y)
    \/ \E y \in Targets : Swap(x, y)
    \/ /\ Sources # {}
       /\ \E v \in Value, s \in BOOLEAN :
            Compute(x, v, s) \/ ComputeWithCarry(x, v, s)
    \/ \E t \in Unused, v \in Value, s \in BOOLEAN :
         \/ Usable(obj[x]) /\ ComputeFromCopy(x, t, v, s)
         \/ \E bad \in BOOLEAN : AssignString(x, t, v, s, bad)

Next == Create \/ Update \/ \E x \in Live : Destroy(x)

Spec == Init /\ [][Next]_vars

----------------------------------------------------------------------------
(* Properties. *)

\* Type invariant: objects and blocks have the fields the class declares.
TypeOK ==
  /\ obj \in [Obj -> Object]
  /\ heap \in [Block -> HeapBlock]
  /\ threw \in BOOLEAN /\ checked \in BOOLEAN

\* The union member that m_internal selects is the one that was written last:
\* a stale pointer is never read as limbs, nor limbs as a pointer.  An alias
\* looks at the constant; limbs never exceed the buffer that holds them.
RepresentationOK ==
  \A x \in Live :
    LET r == obj[x] IN
    /\ r.m_alias => ~r.m_internal /\ r.m_data.data = Lit
    /\ ~r.m_internal => r.m_data \in Pointer
    /\ r.m_internal /\ Usable(r) => r.m_data \in Buffer
    /\ r.m_limbs <= capacity(r)

\* No dangling pointer: the block of every owner is allocated, with exactly the
\* capacity the owner will hand to deallocate(); the constant is never owned.
OwnedBlocksAllocated ==
  \A x \in Live : Owns(obj[x]) =>
    /\ obj[x].m_data.data \in Block
    /\ heap[obj[x].m_data.data].cap = obj[x].m_data.capacity
    /\ obj[x].m_data.capacity > 0

\* No double free: after any copies, moves, swaps and failures, two objects
\* never own the same block.
SoleOwner ==
  \A x, y \in Live :
    Owns(obj[x]) /\ Owns(obj[y]) /\ obj[x].m_data.data = obj[y].m_data.data
      => x = y

\* No leak: every allocated block has an owner that will free it, also after
\* an exception left the operation that had allocated it.
NoLeak ==
  \A b \in Block : heap[b].cap > 0 =>
    \E x \in Live : Owns(obj[x]) /\ obj[x].m_data.data = b

\* Every number that an operation completed is in normal form: no leading zero
\* limb, all its limbs stored, and zero is not negative.
NormalForm ==
  \A x \in Live :
    LET r == obj[x] IN
    Usable(r) /\ LimbsIn(heap, r) \in Value =>
      /\ r.m_limbs = Len[LimbsIn(heap, r)]
      /\ LimbsIn(heap, r) = Zero => ~r.m_sign

\* The number that an object holds, for a program that does not know about storage.
\* NoNumber: no such object; Unspecified: moved from, or an operation threw.
CONSTANTS NoNumber, Unspecified

ASSUME NumberAssumption ==
  /\ NoNumber # Unspecified
  /\ \A v \in Value, s \in BOOLEAN : <<v, s>> # NoNumber

NumberIn(h, r) ==
  IF ~r.alive THEN NoNumber
  ELSE IF r.m_limbs # 0 /\ LimbsIn(h, r) \in Value
       THEN <<LimbsIn(h, r), r.m_sign>>
       ELSE Unspecified

Number(x)  == NumberIn(heap, obj[x])
Held(m, x) == NumberIn(m.heap, m.obj[x])

Numbers == INSTANCE NumberValues WITH val <- [x \in Obj |-> Number(x)]

\* Objects behave as independent values: buffers that are shared, stolen,
\* swapped or reallocated never show through in another object.
ImplementsNumberValues == Numbers!Spec

\* In m, x holds n, and all other objects what they hold now.
Leaves(m, x, n) == \A z \in Obj : Held(m, z) = IF z = x THEN n ELSE Number(z)

\* What the bound on the precision leaves of a result
Delivered(v, s) ==
  LET c == IF Len[v] <= MaxLimbs THEN v ELSE Wrap[v] IN <<c, s /\ c # Zero>>

\* A copy equals its source.  If there is no room for it, a new object does not
\* come to be, and an old one has lost its number.
CopiesDeliver ==
  \A y \in Live :
    /\ \A x \in Unused : \A m \in copyConstruct(Now, x, y) :
         Leaves(m, x, IF m.threw THEN NoNumber ELSE Number(y))
    /\ \A x \in Targets : \A m \in assign(Now, x, y) :
         Leaves(m, x, IF m.threw THEN Unspecified ELSE Number(y))

\* A move takes the number of its source along and leaves the source with it or with
\* none, a self-move too; a swap exchanges two.
MovesDeliver ==
  \A y \in Targets :
    /\ \A x \in Unused \cup Targets :
         LET m == IF x \in Unused THEN TakeOver(Now, x, y) ELSE moveAssign(Now, x, y)
         IN \A z \in Obj :
              Held(m, z) \in IF z = y THEN {Number(y), Unspecified}
                            ELSE {Number(IF z = x THEN y ELSE z)}
    /\ \A x \in Targets, z \in Obj :
         Held(do_swap(Now, x, y), z)
           = Number(IF z = x THEN y ELSE IF z = y THEN x ELSE z)

\* An operation leaves its result.  If it throws, its target is as it was; where it had
\* written limbs before it asked for another, the target may have lost its number; and
\* an assignment from a string leaves zero (against the comment at cpp_int.hpp:1674).
Delivers(x, v, s) ==
  /\ \A n \in Room(v) : \A m \in store(Now, x, n, v, s) :
       Leaves(m, x, IF m.threw THEN Number(x) ELSE Delivered(v, s))
  /\ Len[v] > 1 => \A m \in storeWithCarry(Now, x, v, s) :
       IF m.threw THEN Leaves(m, x, Number(x)) \/ Leaves(m, x, Unspecified)
       ELSE Leaves(m, x, Delivered(v, s))
  /\ \A t \in Unused :
       /\ Usable(obj[x]) => \A m \in computeFromCopy(Now, x, t, v, s) :
            Leaves(m, x, IF m.threw THEN Number(x) ELSE Delivered(v, s))
       /\ \A bad \in BOOLEAN : \A m \in do_assign_string(Now, x, t, v, s, bad) :
            IF m.threw THEN Leaves(m, x, <<Zero, FALSE>>)
            ELSE ~bad /\ Leaves(m, x, Delivered(v, s))

ResultsDeliver == \A x \in Targets, v \in Value, s \in BOOLEAN : Delivers(x, v, s)

\* Each call does to the numbers what it says, from every state that earlier calls have
\* led to, whether or not it ends in an exception: NumberValues allows all of that, but
\* does not say which call does what.
CallsDeliver == CopiesDeliver /\ MovesDeliver /\ ResultsDeliver
=============================================================================
