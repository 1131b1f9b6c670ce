------------------------ MODULE CppIntStorageProofs ------------------------
(***************************************************************************)
(* Memory safety of CppIntStorage, and that its objects are values         *)
(* (NormalForm, and the refinement of NumberValues), for every set of      *)
(* objects and blocks, every set of magnitudes, every size of the internal *)
(* buffer and every bound on the precision.                                *)
(*                                                                         *)
(* The invariants of the runs are conjoined in Sound, over a memory rather *)
(* than over the variables: a member function passes through intermediate  *)
(* memories that no step shows.  Each lemma says that one member function  *)
(* leads from sound memories to sound memories; the theorem joins them     *)
(* along Next.                                                             *)
(***************************************************************************)
EXTENDS CppIntStorage, TLAPS

Memory == [obj : [Obj -> Object], heap : [Block -> HeapBlock], threw : BOOLEAN]

\* RepresentationOK of one object
WellFormed(r) ==
  r.alive => /\ r.m_alias => ~r.m_internal /\ r.m_data.data = Lit
             /\ ~r.m_internal => r.m_data \in Pointer
             /\ r.m_internal /\ r.m_limbs # 0 => r.m_data \in Buffer
             /\ r.m_limbs <= capacity(r)

\* The blocks belong to the objects of S, each to one: in the middle of a call
\* an object may hold a pointer that is no longer, or not yet, its own.
SoundOn(m, S) ==
  /\ m \in Memory
  /\ \A x \in Obj : WellFormed(m.obj[x])
  /\ \A x \in S : Owns(m.obj[x]) =>
       /\ m.obj[x].m_data.data \in Block
       /\ m.heap[m.obj[x].m_data.data].cap = m.obj[x].m_data.capacity
       /\ m.obj[x].m_data.capacity > 0
  /\ \A x, y \in S :
       Owns(m.obj[x]) /\ Owns(m.obj[y]) /\ m.obj[x].m_data.data = m.obj[y].m_data.data
         => x = y
  /\ \A b \in Block : m.heap[b].cap > 0 =>
       \E x \in S : Owns(m.obj[x]) /\ m.obj[x].m_data.data = b

Sound(m) == SoundOn(m, Obj)

\* The objects that members other than the destructor may be called on to write
Writable(r) == r.alive /\ ~r.m_alias

----------------------------------------------------------------------------
(* Changes of one object. *)

\* Put replaces one object and leaves the heap and the other objects alone.
LEMMA PutEffect ==
  ASSUME NEW m \in Memory, NEW x \in Obj, NEW r \in Object
  PROVE  /\ Put(m, x, r) \in Memory
         /\ Put(m, x, r).heap = m.heap
         /\ Put(m, x, r).threw = m.threw
         /\ Put(m, x, r).obj[x] = r
         /\ \A y \in Obj \ {x} : Put(m, x, r).obj[y] = m.obj[y]
BY DEF Put, Memory

\* An object may be replaced by one that owns the same block, or none as before.
LEMMA PutSound ==
  ASSUME NEW m, Sound(m), NEW x \in Obj, NEW r \in Object, WellFormed(r),
         Owns(r) <=> Owns(m.obj[x]),
         Owns(r) => r.m_data = m.obj[x].m_data
  PROVE  Sound(Put(m, x, r))
<1> DEFINE p == Put(m, x, r)
<1>1. /\ p \in Memory
      /\ p.heap = m.heap
      /\ p.obj[x] = r
      /\ \A y \in Obj \ {x} : p.obj[y] = m.obj[y]
  BY PutEffect DEF Sound, SoundOn
<1> HIDE DEF p
<1>2. \A y \in Obj : /\ Owns(p.obj[y]) <=> Owns(m.obj[y])
                     /\ Owns(p.obj[y]) => p.obj[y].m_data = m.obj[y].m_data
                     /\ WellFormed(p.obj[y])
  BY <1>1 DEF Sound, SoundOn
<1>3. \A y \in Obj : Owns(p.obj[y]) =>
        /\ p.obj[y].m_data.data \in Block
        /\ p.heap[p.obj[y].m_data.data].cap = p.obj[y].m_data.capacity
        /\ p.obj[y].m_data.capacity > 0
  BY <1>1, <1>2 DEF Sound, SoundOn
<1>4. \A y, z \in Obj :
        Owns(p.obj[y]) /\ Owns(p.obj[z]) /\ p.obj[y].m_data.data = p.obj[z].m_data.data
          => y = z
  BY <1>2 DEF Sound, SoundOn
<1>5. \A b \in Block : p.heap[b].cap > 0 =>
        \E y \in Obj : Owns(p.obj[y]) /\ p.obj[y].m_data.data = b
  BY <1>1, <1>2 DEF Sound, SoundOn
<1>6. Sound(p)
  BY <1>1, <1>2, <1>3, <1>4, <1>5 DEF Sound, SoundOn
<1> QED BY <1>6 DEF p

\* An object that gave up its block may be replaced by one that owns none.
LEMMA PutOwnerless ==
  ASSUME NEW m, NEW x \in Obj, SoundOn(m, Obj \ {x}),
         NEW r \in Object, WellFormed(r), ~Owns(r)
  PROVE  Sound(Put(m, x, r))
<1> DEFINE p == Put(m, x, r)
<1>1. /\ p \in Memory
      /\ p.heap = m.heap
      /\ p.obj[x] = r
      /\ \A y \in Obj \ {x} : p.obj[y] = m.obj[y]
  BY PutEffect DEF SoundOn
<1> HIDE DEF p
<1>2. Sound(p)
  BY SMTT(30), <1>1 DEF Sound, SoundOn
<1> QED BY <1>2 DEF p

\* A block changes hands: y is the one that has to let go of it now.
LEMMA TransferSound ==
  ASSUME NEW m, NEW x \in Obj, NEW y \in Obj \ {x}, SoundOn(m, Obj \ {x}),
         Owns(m.obj[y])
  PROVE  SoundOn(Put(m, x, m.obj[y]), Obj \ {y})
<1> DEFINE p == Put(m, x, m.obj[y])
<1>1. /\ p \in Memory
      /\ p.heap = m.heap
      /\ p.obj[x] = m.obj[y]
      /\ \A z \in Obj \ {x} : p.obj[z] = m.obj[z]
  BY PutEffect DEF SoundOn, Memory
<1> HIDE DEF p
<1>2. SoundOn(p, Obj \ {y})
  BY SMTT(30), <1>1 DEF SoundOn
<1> QED BY <1>2 DEF p

\* Among objects that own nothing, a memory is sound when it was sound before.
LEMMA OwnerlessSound ==
  ASSUME NEW m, Sound(m), NEW x \in Obj, ~Owns(m.obj[x])
  PROVE  SoundOn(m, Obj \ {x})
BY DEF Sound, SoundOn

\* deallocate() takes back the one block that no other object owns.
LEMMA ReleaseSound ==
  ASSUME NEW m, Sound(m), NEW x \in Obj
  PROVE  SoundOn([m EXCEPT !.heap = Release(m.heap, m.obj[x])], Obj \ {x})
<1> DEFINE d == [m EXCEPT !.heap = Release(m.heap, m.obj[x])]
<1>1. Free \in HeapBlock /\ Free.cap = 0
  BY DEF Free, HeapBlock, Contents
<1>2. Release(m.heap, m.obj[x]) \in [Block -> HeapBlock]
  BY <1>1 DEF Release, Sound, SoundOn, Memory
<1>3. d \in Memory /\ d.obj = m.obj /\ d.heap = Release(m.heap, m.obj[x])
  BY <1>2 DEF Sound, SoundOn, Memory
<1>4. \A b \in Block : d.heap[b] = IF Owns(m.obj[x]) /\ m.obj[x].m_data.data = b
                                   THEN Free ELSE m.heap[b]
  BY <1>3 DEF Release, Sound, SoundOn, Memory
<1> HIDE DEF d
<1>5. SoundOn(d, Obj \ {x})
  BY <1>1, <1>3, <1>4 DEF Sound, SoundOn
<1> QED BY <1>5 DEF d

\* An object that is not alive owns no block.
LEMMA DeadOwnsNothing == Dead \in Object /\ WellFormed(Dead) /\ ~Owns(Dead)
BY ValueAssumption DEF Dead, Default, Object, Buffer, Contents, WellFormed, Owns

\* The destructor leaves a sound memory: the block goes back with its owner.
LEMMA DestroySound ==
  ASSUME NEW m, Sound(m), NEW x \in Obj
  PROVE  /\ Sound(destroy(m, x))
         /\ destroy(m, x).obj[x] = Dead
         /\ \A y \in Obj \ {x} : destroy(m, x).obj[y] = m.obj[y]
<1> DEFINE d == [m EXCEPT !.heap = Release(m.heap, m.obj[x])]
<1>1. SoundOn(d, Obj \ {x})
  BY ReleaseSound
<1>2. destroy(m, x) = Put(d, x, Dead) /\ d.obj = m.obj /\ d \in Memory
  BY <1>1 DEF destroy, Put, SoundOn, Sound, Memory
<1> HIDE DEF d
<1>3. Sound(Put(d, x, Dead))
  BY <1>1, PutOwnerless, DeadOwnsNothing
<1> QED BY <1>2, <1>3, PutEffect, DeadOwnsNothing

----------------------------------------------------------------------------
(* Writing limbs. *)

\* limbs() points at contents, whichever union member is live.
LEMMA LimbsInType ==
  ASSUME NEW m, Sound(m), NEW x \in Obj, m.obj[x].alive
  PROVE  LimbsIn(m.heap, m.obj[x]) \in Contents /\ capacity(m.obj[x]) \in Nat
<1> DEFINE r == m.obj[x]
<1>1. r \in Object /\ WellFormed(r)
  BY DEF Sound, SoundOn, Memory
<1>2. r.m_internal => capacity(r) \in Nat
  BY <1>1, SizesAssumption DEF capacity
<1>3. ~r.m_internal => r.m_data \in Pointer
  BY <1>1 DEF WellFormed
<1>4. ~r.m_internal => capacity(r) \in Nat
  BY <1>3 DEF capacity, Pointer
<1>5. CASE r.m_internal
  BY <1>2, <1>5 DEF LimbsIn, Buffer, Contents
<1>6. CASE ~r.m_internal
  <2>1. r.m_data.data = Lit => LimbsIn(m.heap, r) \in Contents
    BY <1>6, ValueAssumption DEF LimbsIn, Contents
  <2>2. r.m_data.data # Lit => m.heap[r.m_data.data] \in HeapBlock
    BY <1>3, <1>6 DEF Pointer, Sound, SoundOn, Memory
  <2>3. r.m_data.data # Lit => LimbsIn(m.heap, r) \in Contents
    BY <1>6, <2>2 DEF LimbsIn, HeapBlock
  <2> QED BY <2>1, <2>3, <1>4, <1>6
<1> QED BY <1>5, <1>6

\* u is a sound memory that differs from m in the object x only (and in the
\* heap), and x may still be written to.
Keeps(u, m, x) ==
  /\ Sound(u)
  /\ Writable(u.obj[x])
  /\ \A y \in Obj \ {x} : u.obj[y] = m.obj[y]

\* What holds of objects in a sound memory
LEMMA ObjectFacts ==
  ASSUME NEW m, Sound(m), NEW x \in Obj
  PROVE  m.obj[x] \in Object /\ WellFormed(m.obj[x]) /\ m \in Memory
BY DEF Sound, SoundOn, Memory

\* A write leaves the shape of the object, and all other objects, as they are.
LEMMA WriteSound ==
  ASSUME NEW m, Sound(m), NEW x \in Obj, Writable(m.obj[x]), NEW c \in Contents
  PROVE  /\ Keeps(Write(m, x, c), m, x)
         /\ Write(m, x, c).threw = m.threw
         /\ Write(m, x, c).obj[x].m_limbs = m.obj[x].m_limbs
         /\ capacity(Write(m, x, c).obj[x]) = capacity(m.obj[x])
         /\ Write(m, x, c).obj[x].m_internal => Write(m, x, c).obj[x].m_data \in Buffer
<1> DEFINE r == m.obj[x]
           w == Write(m, x, c)
<1>1. r \in Object /\ WellFormed(r) /\ m \in Memory
  BY ObjectFacts
<1> SUFFICES /\ Keeps(w, m, x)
             /\ w.threw = m.threw
             /\ w.obj[x].m_limbs = r.m_limbs
             /\ capacity(w.obj[x]) = capacity(r)
             /\ w.obj[x].m_internal => w.obj[x].m_data \in Buffer
  OBVIOUS
<1>2. CASE r.m_internal
  <2> DEFINE q == [r EXCEPT !.m_data = [limbs |-> c]]
  <2>1. /\ q \in Object /\ q.m_data \in Buffer /\ q.alive = r.alive
        /\ q.m_internal = r.m_internal /\ q.m_alias = r.m_alias
        /\ q.m_limbs = r.m_limbs
    BY <1>1 DEF Object, Buffer
  <2>2. WellFormed(q) /\ ~Owns(q) /\ ~Owns(r) /\ capacity(q) = capacity(r) /\ Writable(q)
    BY <1>1, <1>2, <2>1 DEF WellFormed, Owns, capacity, Writable
  <2>3. w = Put(m, x, q)
    BY <1>2 DEF Write
  <2> HIDE DEF q, w
  <2>4. Sound(w)
    BY <2>1, <2>2, <2>3, PutSound
  <2>5. /\ w.threw = m.threw /\ w.obj[x] = q
        /\ \A y \in Obj \ {x} : w.obj[y] = m.obj[y]
    BY <1>1, <2>1, <2>3, PutEffect
  <2> QED BY <2>1, <2>2, <2>4, <2>5 DEF Keeps
<1>3. CASE ~r.m_internal
  <2> DEFINE b == r.m_data.data
             e == [cap |-> m.heap[b].cap, limbs |-> c]
  <2>1. Owns(r) /\ b \in Block
    BY <1>1, <1>3 DEF Owns, Writable, Sound, SoundOn
  <2>2. e \in HeapBlock /\ e.cap = m.heap[b].cap
    BY <2>1, <1>1 DEF HeapBlock, Memory
  <2>3. w = PutBlock(m, b, e)
    BY <1>3 DEF Write
  <2> HIDE DEF e, w
  <2>4. /\ w \in Memory /\ w.obj = m.obj /\ w.threw = m.threw
        /\ \A d \in Block : w.heap[d].cap = m.heap[d].cap
    BY <1>1, <2>1, <2>2, <2>3 DEF Memory, PutBlock
  <2>5. Sound(w)
    BY <2>4 DEF Sound, SoundOn
  <2> QED BY <2>4, <2>5, <1>3 DEF Keeps
<1> QED BY <1>2, <1>3

\* Any assignment to m_sign
PutSign(m, x, t) == Put(m, x, [m.obj[x] EXCEPT !.m_sign = t])

\* m_sign plays no part in who owns which block.
LEMMA PutSignSound ==
  ASSUME NEW m, Sound(m), NEW x \in Obj, Writable(m.obj[x]), NEW t \in BOOLEAN
  PROVE  Keeps(PutSign(m, x, t), m, x) /\ PutSign(m, x, t).threw = m.threw
<1> DEFINE r == m.obj[x]
           w == PutSign(m, x, t)
           q == [r EXCEPT !.m_sign = t]
<1>1. r \in Object /\ WellFormed(r) /\ m \in Memory
  BY ObjectFacts
<1>2. w = Put(m, x, q)
  BY DEF PutSign
<1>3. /\ q \in Object /\ q.m_data = r.m_data /\ q.alive = r.alive
      /\ q.m_internal = r.m_internal /\ q.m_alias = r.m_alias
      /\ q.m_limbs = r.m_limbs
  BY <1>1 DEF Object
<1>4. WellFormed(q) /\ (Owns(q) <=> Owns(r)) /\ Writable(q)
  BY <1>1, <1>3 DEF WellFormed, Owns, capacity, Writable
<1> HIDE DEF q, w
<1>5. Sound(w)
  BY <1>2, <1>3, <1>4, PutSound
<1>6. /\ w.threw = m.threw /\ w.obj[x] = q
      /\ \A y \in Obj \ {x} : w.obj[y] = m.obj[y]
  BY <1>1, <1>2, <1>3, PutEffect
<1>7. Keeps(w, m, x) /\ w.threw = m.threw
  BY <1>4, <1>5, <1>6 DEF Keeps
<1> QED BY <1>7 DEF w

\* sign(b) keeps a memory sound.
LEMMA SetSignSound ==
  ASSUME NEW m, Sound(m), NEW x \in Obj, Writable(m.obj[x]), NEW s \in BOOLEAN
  PROVE  Keeps(SetSign(m, x, s), m, x) /\ SetSign(m, x, s).threw = m.threw
<1> DEFINE r == m.obj[x]
           t == s /\ ~(r.m_limbs = 1 /\ LimbsIn(m.heap, r) = Zero)
<1>1. SetSign(m, x, s) = PutSign(m, x, t)
  BY DEF SetSign, PutSign
<1>2. t \in BOOLEAN
  OBVIOUS
<1> HIDE DEF t
<1> QED BY <1>1, <1>2, PutSignSound

\* normalize(), and resize() without an allocation: only m_limbs changes.
SetLimbs(m, x, n) == Put(m, x, [m.obj[x] EXCEPT !.m_limbs = n])

\* A smaller m_limbs keeps a memory sound: the limbs still fit the buffer.
LEMMA SetLimbsSound ==
  ASSUME NEW m, Sound(m), NEW x \in Obj, NEW n \in Nat, Writable(m.obj[x]),
         n <= capacity(m.obj[x]),
         m.obj[x].m_internal => n = 0 \/ m.obj[x].m_data \in Buffer
  PROVE  /\ Keeps(SetLimbs(m, x, n), m, x)
         /\ SetLimbs(m, x, n).threw = m.threw
         /\ SetLimbs(m, x, n).obj[x].m_limbs = n
<1> DEFINE r == m.obj[x]
           w == SetLimbs(m, x, n)
           q == [r EXCEPT !.m_limbs = n]
<1>1. r \in Object /\ WellFormed(r) /\ m \in Memory
  BY ObjectFacts
<1>2. /\ q \in Object /\ q.m_data = r.m_data /\ q.alive = r.alive
      /\ q.m_internal = r.m_internal /\ q.m_alias = r.m_alias
      /\ q.m_limbs = n
  BY <1>1 DEF Object
<1>3. WellFormed(q) /\ (Owns(q) <=> Owns(r)) /\ Writable(q)
  BY <1>1, <1>2 DEF WellFormed, Owns, capacity, Writable
<1>4. w = Put(m, x, q)
  BY DEF SetLimbs
<1> HIDE DEF q, w
<1>5. Sound(w)
  BY <1>2, <1>3, <1>4, PutSound
<1>6. /\ w.threw = m.threw /\ w.obj[x] = q
      /\ \A y \in Obj \ {x} : w.obj[y] = m.obj[y]
  BY <1>1, <1>2, <1>4, PutEffect
<1>7. Keeps(w, m, x) /\ w.threw = m.threw /\ w.obj[x] = q /\ w.obj[x].m_limbs = n
  BY <1>2, <1>3, <1>5, <1>6 DEF Keeps
<1> QED BY <1>7 DEF w, q

----------------------------------------------------------------------------
(* resize() *)

\* resize() with room enough allocates nothing and keeps a memory sound.
LEMMA ResizeInPlaceSound ==
  ASSUME NEW m, Sound(m), NEW x \in Obj, NEW n \in Nat, Writable(m.obj[x]),
         n <= capacity(m.obj[x])
  PROVE  /\ Keeps(ResizeInPlace(m, x, n), m, x)
         /\ ResizeInPlace(m, x, n).threw = m.threw
         /\ ResizeInPlace(m, x, n).obj[x].m_limbs = n
<1> DEFINE r == m.obj[x]
           w == ResizeInPlace(m, x, n)
           c == LimbsIn(m.heap, r)
           d == IF r.m_internal THEN [limbs |-> c] ELSE r.m_data
           q == [r EXCEPT !.m_limbs = n, !.m_data = d]
<1>1. r \in Object /\ WellFormed(r) /\ m \in Memory /\ c \in Contents
  BY ObjectFacts, LimbsInType DEF Writable
<1>2. w = Put(m, x, q)
  BY DEF ResizeInPlace
<1> HIDE DEF c
<1>3. /\ d \in Buffer \cup Pointer
      /\ r.m_internal => d \in Buffer
      /\ ~r.m_internal => d = r.m_data
  BY <1>1 DEF Object, Buffer
<1> HIDE DEF d
<1>4. /\ q \in Object /\ q.m_data = d /\ q.alive = r.alive
      /\ q.m_internal = r.m_internal /\ q.m_alias = r.m_alias
      /\ q.m_limbs = n
  BY <1>1, <1>3 DEF Object
<1> HIDE DEF q, w
<1>5. Owns(q) => q.m_data = r.m_data
  BY <1>3, <1>4 DEF Owns
<1>6. WellFormed(q) /\ (Owns(q) <=> Owns(r)) /\ Writable(q)
  BY <1>1, <1>3, <1>4 DEF WellFormed, Owns, capacity, Writable
<1>7. Sound(w)
  BY <1>2, <1>4, <1>5, <1>6, PutSound
<1>8. /\ w.threw = m.threw /\ w.obj[x] = q
      /\ \A y \in Obj \ {x} : w.obj[y] = m.obj[y]
  BY <1>1, <1>2, <1>4, PutEffect
<1>9. Keeps(w, m, x) /\ w.threw = m.threw /\ w.obj[x].m_limbs = n
  BY <1>4, <1>6, <1>7, <1>8 DEF Keeps
<1> QED BY <1>9 DEF w

\* The buffer that resize() asks for is large enough, and not empty.
LEMMA GrowEnough ==
  ASSUME NEW cap \in Nat, NEW n \in Nat, cap < n, n <= MaxLimbs
  PROVE  Grow(cap, n) \in Nat /\ Grow(cap, n) >= n /\ Grow(cap, n) > 0
BY SizesAssumption DEF Grow, Smaller, Larger

\* resize() frees the old block exactly when the object owned one, and owns the
\* new one afterwards.
LEMMA ReallocateSound ==
  ASSUME NEW m, Sound(m), NEW x \in Obj, NEW n \in Nat, Writable(m.obj[x]),
         capacity(m.obj[x]) < n, n <= MaxLimbs, NEW b \in FreeBlocks(m.heap)
  PROVE  /\ Keeps(Reallocate(m, x, n, b), m, x)
         /\ Reallocate(m, x, n, b).threw = m.threw
         /\ Reallocate(m, x, n, b).obj[x].m_limbs = n
<1> DEFINE r   == m.obj[x]
           cap == Grow(capacity(r), n)
           ld  == [data |-> b, capacity |-> cap]
           q   == [r EXCEPT !.m_internal = FALSE, !.m_limbs = n, !.m_data = ld]
           e   == [cap |-> cap, limbs |-> Content(m.heap, r)]
           h   == [m.heap EXCEPT ![b] = e]
           w   == Reallocate(m, x, n, b)
<1>1. r \in Object /\ WellFormed(r) /\ m \in Memory
  BY ObjectFacts
<1>2. LimbsIn(m.heap, r) \in Contents /\ capacity(r) \in Nat
  BY LimbsInType DEF Writable
<1>3. cap \in Nat /\ cap >= n /\ cap > 0
  BY <1>2, GrowEnough
<1>4. b \in Block /\ m.heap[b].cap = 0
  BY DEF FreeBlocks
<1>5. e \in HeapBlock /\ e.cap = cap
  BY <1>2, <1>3 DEF HeapBlock, Content, Contents
<1>6. w = Mem([m.obj EXCEPT ![x] = q], Release(h, r), m.threw)
  BY DEF Reallocate
<1> HIDE DEF cap, e
<1>7. ld \in Pointer /\ ld.data = b /\ ld.capacity = cap
  BY <1>3, <1>4 DEF Pointer
<1> HIDE DEF ld
<1>8. /\ q \in Object /\ q.m_data = ld /\ q.alive = r.alive
      /\ q.m_internal = FALSE /\ q.m_alias = r.m_alias
      /\ q.m_limbs = n
  BY <1>1, <1>7 DEF Object
<1> HIDE DEF q
<1>9. WellFormed(q) /\ Owns(q) /\ Writable(q)
  BY <1>1, <1>3, <1>7, <1>8 DEF WellFormed, Owns, capacity, Writable
<1>10. Free \in HeapBlock /\ Free.cap = 0
  BY DEF Free, HeapBlock, Contents
<1>11. /\ h \in [Block -> HeapBlock] /\ h[b].cap = cap
       /\ \A c \in Block \ {b} : h[c] = m.heap[c]
  BY <1>1, <1>4, <1>5 DEF Memory
<1> HIDE DEF h
<1>12. Owns(r) => r.m_data.data \in Block /\ r.m_data.data # b
  BY <1>4 DEF Sound, SoundOn
<1>13. /\ Release(h, r) \in [Block -> HeapBlock] /\ Release(h, r)[b].cap = cap
       /\ \A c \in Block \ {b} : Release(h, r)[c] =
            IF Owns(r) /\ r.m_data.data = c THEN Free ELSE m.heap[c]
  BY <1>10, <1>11, <1>12 DEF Release
<1>14. /\ w \in Memory /\ w.obj[x] = q /\ w.threw = m.threw /\ w.heap = Release(h, r)
       /\ \A y \in Obj \ {x} : w.obj[y] = m.obj[y]
  BY <1>1, <1>6, <1>8, <1>13 DEF Mem, Memory
<1> HIDE DEF w
<1>15. /\ w.heap[b].cap = cap
       /\ \A c \in Block \ {b} : w.heap[c] =
            IF Owns(r) /\ r.m_data.data = c THEN Free ELSE m.heap[c]
  BY <1>13, <1>14
<1>16. \A y \in Obj \ {x} : Owns(w.obj[y]) =>
         /\ w.obj[y].m_data.data \in Block \ {b}
         /\ w.obj[y].m_data.data # r.m_data.data \/ ~Owns(r)
  BY <1>4, <1>14 DEF Sound, SoundOn
<1>17. Sound(w)
  <2>1. \A y \in Obj : WellFormed(w.obj[y])
    BY <1>9, <1>14 DEF Sound, SoundOn
  <2>2. \A y \in Obj : Owns(w.obj[y]) =>
          /\ w.obj[y].m_data.data \in Block
          /\ w.heap[w.obj[y].m_data.data].cap = w.obj[y].m_data.capacity
          /\ w.obj[y].m_data.capacity > 0
    <3>1. CASE Owns(r)
      BY <3>1, <1>3, <1>4, <1>7, <1>8, <1>14, <1>15, <1>16, SMTT(60) DEF Sound, SoundOn
    <3>2. CASE ~Owns(r)
      BY <3>2, <1>3, <1>4, <1>7, <1>8, <1>14, <1>15, <1>16, SMTT(60) DEF Sound, SoundOn
    <3> QED BY <3>1, <3>2
  <2>3. \A y, z \in Obj :
          Owns(w.obj[y]) /\ Owns(w.obj[z]) /\ w.obj[y].m_data.data = w.obj[z].m_data.data
            => y = z
    BY <1>7, <1>8, <1>14, <1>16 DEF Sound, SoundOn
  <2>4. \A c \in Block : w.heap[c].cap > 0 =>
          \E y \in Obj : Owns(w.obj[y]) /\ w.obj[y].m_data.data = c
    BY <1>7, <1>8, <1>9, <1>10, <1>14, <1>15 DEF Sound, SoundOn
  <2> QED BY <1>14, <2>1, <2>2, <2>3, <2>4 DEF Sound, SoundOn
<1>18. Keeps(w, m, x) /\ w.threw = m.threw /\ w.obj[x].m_limbs = n
  BY <1>8, <1>9, <1>14, <1>17 DEF Keeps
<1> QED BY <1>18 DEF w

\* That an exception was thrown does not change the memory.
LEMMA ThrowSound ==
  ASSUME NEW m, Sound(m)
  PROVE  Sound(Throw(m)) /\ Throw(m).obj = m.obj /\ Throw(m).threw
<1>1. /\ Throw(m) \in Memory /\ Throw(m).obj = m.obj /\ Throw(m).heap = m.heap
      /\ Throw(m).threw
  BY DEF Throw, Sound, SoundOn, Memory
<1> QED BY <1>1 DEF Sound, SoundOn

\* resize() ends in a sound memory, also when it throws, and when it does not
\* throw the object has at least the limbs that were asked for.
LEMMA ResizeSound ==
  ASSUME NEW m, Sound(m), ~m.threw, NEW x \in Obj, Writable(m.obj[x]),
         NEW n \in Nat, NEW k \in Nat, NEW u \in resize(m, x, n, k)
  PROVE  /\ Keeps(u, m, x)
         /\ ~u.threw => u.obj[x].m_limbs = Smaller(n, MaxLimbs)
<1> DEFINE l == Smaller(n, MaxLimbs)
<1>1. l \in Nat /\ l <= MaxLimbs
  BY SizesAssumption DEF Smaller
<1>2. capacity(m.obj[x]) \in Nat
  BY LimbsInType DEF Writable
<1>3. CASE u = Throw(m)
  BY <1>3, ThrowSound DEF Keeps
<1>4. CASE l <= capacity(m.obj[x]) /\ u = ResizeInPlace(m, x, l)
  BY <1>1, <1>4, ResizeInPlaceSound
<1>5. CASE /\ ~(l <= capacity(m.obj[x]))
           /\ \E b \in FreeBlocks(m.heap) : u = Reallocate(m, x, l, b)
  <2>1. PICK b \in FreeBlocks(m.heap) : u = Reallocate(m, x, l, b)
    BY <1>5
  <2> QED BY <1>1, <1>2, <1>5, <2>1, ReallocateSound
<1> HIDE DEF l
<1>6. \/ u = Throw(m)
      \/ l <= capacity(m.obj[x]) /\ u = ResizeInPlace(m, x, l)
      \/ /\ ~(l <= capacity(m.obj[x]))
         /\ \E b \in FreeBlocks(m.heap) : u = Reallocate(m, x, l, b)
  BY DEF resize, l
<1> QED BY <1>3, <1>4, <1>5, <1>6 DEF l

----------------------------------------------------------------------------
(* The operations that store a result, and the copies. *)

\* What two steps leave as it was, both together leave as it was.
LEMMA KeepsTransitive ==
  ASSUME NEW m, NEW u, NEW w, NEW x \in Obj, Keeps(u, m, x), Keeps(w, u, x)
  PROVE  Keeps(w, m, x)
BY DEF Keeps

\* Writing the result, normalize() and sign() keep a memory sound.
LEMMA FinishSound ==
  ASSUME NEW m, Sound(m), NEW x \in Obj, Writable(m.obj[x]),
         NEW v \in Value, NEW s \in BOOLEAN,
         NEW n \in Nat, n >= Len[v], m.obj[x].m_limbs = Smaller(n, MaxLimbs)
  PROVE  Keeps(Finish(m, x, v, s), m, x) /\ Finish(m, x, v, s).threw = m.threw
<1> DEFINE c == IF m.obj[x].m_limbs >= Len[v] THEN v ELSE Wrap[v]
           w == Write(m, x, c)
           z == SetLimbs(w, x, Len[c])
<1>1. /\ c \in Value /\ Len[c] \in Nat /\ Len[c] # 0
      /\ Len[c] <= m.obj[x].m_limbs
  BY SizesAssumption, ValueAssumption DEF Smaller
<1>2. Finish(m, x, v, s) = SetSign(z, x, s)
  BY DEF Finish, SetLimbs
<1> HIDE DEF c
<1>3. /\ Keeps(w, m, x) /\ w.threw = m.threw
      /\ w.obj[x].m_limbs = m.obj[x].m_limbs
      /\ w.obj[x].m_internal => w.obj[x].m_data \in Buffer
  BY <1>1, WriteSound DEF Contents
<1> HIDE DEF w
<1>4. Sound(w) /\ Writable(w.obj[x]) /\ w.obj[x] \in Object /\ WellFormed(w.obj[x])
  BY <1>3, ObjectFacts DEF Keeps
<1>5. Len[c] <= capacity(w.obj[x])
  <2>1. capacity(w.obj[x]) \in Nat
    BY <1>4, LimbsInType DEF Writable
  <2>2. w.obj[x].m_limbs <= capacity(w.obj[x]) /\ w.obj[x].m_limbs \in Nat
    BY <1>4 DEF WellFormed, Writable, Object
  <2> QED BY <1>1, <1>3, <2>1, <2>2
<1>6. Keeps(z, w, x) /\ z.threw = w.threw
  BY <1>1, <1>3, <1>4, <1>5, SetLimbsSound
<1> HIDE DEF z
<1>7. Keeps(SetSign(z, x, s), z, x) /\ SetSign(z, x, s).threw = z.threw
  BY <1>6, SetSignSound DEF Keeps
<1> QED BY <1>2, <1>3, <1>6, <1>7, KeepsTransitive

\* A magnitude occupies at least one limb.
LEMMA LenType ==
  ASSUME NEW v \in Value
  PROVE  Len[v] \in Nat /\ Len[v] # 0 /\ Len[v] - 1 \in Nat
BY ValueAssumption

\* A result is given at least the limbs it occupies.
LEMMA RoomType ==
  ASSUME NEW v \in Value, NEW n \in Room(v)
  PROVE  n \in Nat /\ n >= Len[v]
BY LenType DEF Room

\* An operation that asks for all its limbs first ends in a sound memory.
LEMMA StoreSound ==
  ASSUME NEW m, Sound(m), ~m.threw, NEW x \in Obj, Writable(m.obj[x]),
         NEW v \in Value, NEW n \in Nat, n >= Len[v], NEW s \in BOOLEAN,
         NEW w \in store(m, x, n, v, s)
  PROVE  Keeps(w, m, x)
<1>1. PICK u \in resize(m, x, n, Len[v]) :
        w = IF u.threw THEN u ELSE Finish(u, x, v, s)
  BY DEF store
<1>2. Keeps(u, m, x) /\ (~u.threw => u.obj[x].m_limbs = Smaller(n, MaxLimbs))
  BY <1>1, LenType, ResizeSound
<1>3. CASE u.threw
  BY <1>1, <1>2, <1>3
<1>4. CASE ~u.threw
  <2>1. Keeps(Finish(u, x, v, s), u, x)
    BY <1>2, <1>4, FinishSound DEF Keeps
  <2> QED BY <1>1, <1>2, <1>4, <2>1, KeepsTransitive
<1> QED BY <1>3, <1>4

\* So does one that resizes a second time, when it has found a carry, and throws.
LEMMA StoreWithCarrySound ==
  ASSUME NEW m, Sound(m), ~m.threw, NEW x \in Obj, Writable(m.obj[x]),
         NEW v \in Value, NEW s \in BOOLEAN, NEW w \in storeWithCarry(m, x, v, s)
  PROVE  Keeps(w, m, x)
<1>1. PICK u \in resize(m, x, Len[v] - 1, Len[v] - 1) :
        w \in IF u.threw THEN {u}
              ELSE {IF z.threw THEN z ELSE Finish(z, x, v, s) :
                      z \in resize(Write(u, x, Junk), x, Len[v], Len[v])}
  BY DEF storeWithCarry
<1>2. Keeps(u, m, x)
  BY <1>1, LenType, ResizeSound
<1>3. CASE u.threw
  BY <1>1, <1>2, <1>3
<1>4. CASE ~u.threw
  <2> DEFINE j == Write(u, x, Junk)
  <2>1. Keeps(j, u, x) /\ j.threw = u.threw
    BY <1>2, WriteSound DEF Keeps, Contents
  <2>2. PICK z \in resize(j, x, Len[v], Len[v]) :
          w = IF z.threw THEN z ELSE Finish(z, x, v, s)
    BY <1>1, <1>4
  <2> HIDE DEF j
  <2>3. Keeps(z, j, x) /\ (~z.threw => z.obj[x].m_limbs = Smaller(Len[v], MaxLimbs))
    BY <1>4, <2>1, <2>2, LenType, ResizeSound DEF Keeps
  <2>4. Keeps(z, m, x)
    BY <1>2, <2>1, <2>3, KeepsTransitive
  <2>5. CASE z.threw
    BY <2>2, <2>4, <2>5
  <2>6. CASE ~z.threw
    <3>1. Sound(z) /\ Writable(z.obj[x]) /\ Len[v] \in Nat /\ Len[v] >= Len[v]
      BY <2>3, LenType DEF Keeps
    <3>2. Keeps(Finish(z, x, v, s), z, x)
      BY <2>3, <2>6, <3>1, FinishSound
    <3> QED BY <2>2, <2>4, <2>6, <3>2, KeepsTransitive
  <2> QED BY <2>5, <2>6
<1> QED BY <1>3, <1>4

\* The memcpy of the limbs keeps a memory sound.
LEMMA CopyLimbsSound ==
  ASSUME NEW m, Sound(m), NEW x \in Obj, NEW y \in Obj, Writable(m.obj[x]),
         m.obj[y].alive
  PROVE  Keeps(CopyLimbs(m, x, y), m, x) /\ CopyLimbs(m, x, y).threw = m.threw
<1>1. LimbsIn(m.heap, m.obj[y]) \in Contents
  BY LimbsInType
<1>2. CASE Hollow(m.obj[y])
  BY <1>2 DEF CopyLimbs, Keeps
<1>3. CASE ~Hollow(m.obj[y])
  BY <1>1, <1>3, WriteSound DEF CopyLimbs
<1> QED BY <1>2, <1>3

\* After assign() the target is sound, also when it threw.
LEMMA AssignSound ==
  ASSUME NEW m, Sound(m), ~m.threw, NEW x \in Obj, NEW y \in Obj,
         Writable(m.obj[x]), m.obj[y].alive, NEW w \in assign(m, x, y)
  PROVE  Keeps(w, m, x)
<1>1. CASE x = y
  BY <1>1 DEF assign, Keeps
<1>2. CASE x # y
  <2> DEFINE o == m.obj[y]
             e == SetLimbs(m, x, 0)
  <2>1. PICK u \in resize(e, x, o.m_limbs, o.m_limbs) :
          w = IF u.threw THEN u ELSE PutSign(CopyLimbs(u, x, y), x, o.m_sign)
    BY <1>2 DEF assign, SetLimbs, PutSign
  <2>2. o \in Object /\ capacity(m.obj[x]) \in Nat
    BY ObjectFacts, LimbsInType DEF Writable
  <2>3. Keeps(e, m, x) /\ e.threw = m.threw
    BY <2>2, SetLimbsSound
  <2> HIDE DEF e
  <2>4. Keeps(u, e, x)
    BY <2>1, <2>2, <2>3, ResizeSound DEF Keeps, Object
  <2>5. Keeps(u, m, x) /\ u.obj[y].alive
    BY <1>2, <2>3, <2>4, KeepsTransitive DEF Keeps
  <2>6. CASE u.threw
    BY <2>1, <2>5, <2>6
  <2>7. CASE ~u.threw
    <3> DEFINE c == CopyLimbs(u, x, y)
    <3>1. Keeps(c, u, x)
      BY <2>5, CopyLimbsSound DEF Keeps
    <3> HIDE DEF c
    <3>2. Keeps(PutSign(c, x, o.m_sign), c, x)
      BY <2>2, <3>1, PutSignSound DEF Keeps, Object
    <3> QED BY <2>1, <2>5, <2>7, <3>1, <3>2, KeepsTransitive DEF c
  <2> QED BY <2>6, <2>7
<1> QED BY <1>1, <1>2

\* What a constructor leaves: a sound memory in which only x is new, unless
\* the constructor threw and there is no x.
Constructs(u, m, x) ==
  /\ Sound(u)
  /\ \A y \in Obj \ {x} : u.obj[y] = m.obj[y]

\* The copy constructor builds a sound object, or throws and leaves none behind.
LEMMA CopyConstructSound ==
  ASSUME NEW m, Sound(m), ~m.threw, NEW x \in Obj, NEW y \in Obj \ {x},
         ~m.obj[x].alive, m.obj[y].alive, NEW w \in copyConstruct(m, x, y)
  PROVE  Constructs(w, m, x)
<1> DEFINE o == m.obj[y]
<1>1. /\ o \in Object /\ WellFormed(o) /\ m \in Memory
      /\ LimbsIn(m.heap, o) \in Contents
  BY ObjectFacts, LimbsInType
<1>2. ~Owns(m.obj[x])
  BY DEF Owns
<1>3. CASE o.m_alias
  <2> DEFINE q == [o EXCEPT !.m_internal = FALSE]
  <2>1. w = Put(m, x, q)
    BY <1>3 DEF copyConstruct
  <2>2. /\ q \in Object /\ q.m_data = o.m_data /\ q.alive = o.alive
        /\ q.m_internal = FALSE /\ q.m_alias = o.m_alias
        /\ q.m_limbs = o.m_limbs
    BY <1>1 DEF Object
  <2>3. WellFormed(q) /\ ~Owns(q)
    BY <1>1, <1>3, <2>2 DEF WellFormed, Owns, capacity
  <2> HIDE DEF q
  <2> QED BY <1>1, <1>2, <2>1, <2>2, <2>3, PutSound, PutEffect DEF Constructs
<1>4. CASE ~o.m_alias
  <2> DEFINE q == [Default EXCEPT !.m_limbs = 0, !.m_sign = o.m_sign]
             e == Put(m, x, q)
  <2>1. PICK u \in resize(e, x, o.m_limbs, o.m_limbs) :
          w = IF u.threw THEN Throw(m) ELSE CopyLimbs(u, x, y)
    BY <1>4 DEF copyConstruct
  <2>2. /\ q \in Object /\ q.alive /\ q.m_internal /\ ~q.m_alias /\ q.m_limbs = 0
    BY <1>1, ValueAssumption DEF Object, Default, Buffer, Contents
  <2>3. WellFormed(q) /\ ~Owns(q) /\ Writable(q)
    BY <2>2, SizesAssumption DEF WellFormed, Owns, Writable, capacity
  <2> HIDE DEF q
  <2>4. Keeps(e, m, x) /\ e.threw = m.threw
    BY <1>1, <1>2, <2>2, <2>3, PutSound, PutEffect DEF Keeps
  <2> HIDE DEF e
  <2>5. Keeps(u, e, x)
    BY <1>1, <2>1, <2>4, ResizeSound DEF Keeps, Object
  <2>6. CASE u.threw
    BY <2>1, <2>6, ThrowSound DEF Constructs
  <2>7. CASE ~u.threw
    <3>1. Keeps(u, m, x) /\ u.obj[y].alive
      BY <2>4, <2>5, KeepsTransitive DEF Keeps
    <3>2. Keeps(CopyLimbs(u, x, y), m, x)
      BY <3>1, CopyLimbsSound, KeepsTransitive DEF Keeps
    <3> QED BY <2>1, <2>7, <3>2 DEF Keeps, Constructs
  <2> QED BY <2>6, <2>7
<1> QED BY <1>3, <1>4

----------------------------------------------------------------------------
(* Moves and swaps: blocks change owners. *)

\* The hollow object that a move leaves behind is sound: it owns nothing.
LEMMA TakeOverSound ==
  ASSUME NEW m, NEW x \in Obj, NEW y \in Obj \ {x}, SoundOn(m, Obj \ {x}),
         Writable(m.obj[y])
  PROVE  Sound(TakeOver(m, x, y))
<1> DEFINE o == m.obj[y]
<1>1. o \in Object /\ WellFormed(o) /\ m \in Memory
  BY DEF SoundOn, Memory
<1>2. CASE o.m_internal
  <2> DEFINE d == [limbs |-> Content(m.heap, o)]
             q == [o EXCEPT !.m_data = d]
  <2>1. TakeOver(m, x, y) = Put(m, x, q)
    BY <1>2 DEF TakeOver
  <2>2. d \in Buffer
    BY <1>1, <1>2 DEF Content, LimbsIn, Buffer, Contents
  <2> HIDE DEF d
  <2>3. /\ q \in Object /\ q.m_data = d /\ q.alive = o.alive
        /\ q.m_internal = o.m_internal /\ q.m_alias = o.m_alias
        /\ q.m_limbs = o.m_limbs
    BY <1>1, <2>2 DEF Object
  <2>4. WellFormed(q) /\ ~Owns(q)
    BY <1>1, <1>2, <2>2, <2>3 DEF WellFormed, Owns, Writable, capacity
  <2> HIDE DEF q
  <2> QED BY <2>1, <2>3, <2>4, PutOwnerless
<1>3. CASE ~o.m_internal
  <2> DEFINE p == Put(m, x, o)
             q == [p.obj[y] EXCEPT !.m_limbs = 0, !.m_internal = TRUE]
  <2>1. TakeOver(m, x, y) = Put(p, y, q)
    BY <1>3 DEF TakeOver
  <2>2. SoundOn(p, Obj \ {y}) /\ p.obj[y] = o
    <3>1. Owns(o)
      BY <1>3 DEF Owns, Writable
    <3>2. p.obj[y] = o
      BY <1>1, PutEffect
    <3> QED BY <3>1, <3>2, TransferSound
  <2> HIDE DEF p
  <2>3. /\ q \in Object /\ q.alive = o.alive /\ q.m_data = o.m_data
        /\ q.m_internal = TRUE /\ q.m_alias = o.m_alias /\ q.m_limbs = 0
    BY <1>1, <2>2 DEF Object
  <2>4. WellFormed(q) /\ ~Owns(q)
    BY <2>3, SizesAssumption DEF WellFormed, Owns, Writable, capacity
  <2> HIDE DEF q
  <2> QED BY <2>1, <2>2, <2>3, <2>4, PutOwnerless
<1> QED BY <1>2, <1>3

\* Self-move included: the object frees its block, copies the stale pointer
\* onto itself, and then disowns it.
LEMMA MoveAssignSound ==
  ASSUME NEW m, Sound(m), NEW x \in Obj, NEW y \in Obj,
         Writable(m.obj[x]), Writable(m.obj[y])
  PROVE  Sound(moveAssign(m, x, y))
<1> DEFINE d == [m EXCEPT !.heap = Release(m.heap, m.obj[x])]
<1>1. moveAssign(m, x, y) = TakeOver(d, x, y)
  BY DEF moveAssign
<1>2. SoundOn(d, Obj \ {x}) /\ d.obj = m.obj
  BY ReleaseSound, ZenonT(60) DEF Sound, SoundOn, Memory
<1> HIDE DEF d
<1>3. CASE x # y
  BY <1>1, <1>2, <1>3, TakeOverSound
<1>4. CASE x = y
  <2> DEFINE o == m.obj[x]
  <2>1. o \in Object /\ WellFormed(o) /\ m \in Memory /\ d \in Memory
    BY <1>2, ObjectFacts DEF SoundOn
  <2>2. CASE o.m_internal
    <3> DEFINE b == [limbs |-> Content(d.heap, o)]
               q == [o EXCEPT !.m_data = b]
    <3>1. TakeOver(d, x, x) = Put(d, x, q)
      BY <1>2, <2>2 DEF TakeOver
    <3>2. b \in Buffer
      BY <2>1, <2>2 DEF Content, LimbsIn, Buffer, Contents
    <3> HIDE DEF b
    <3>3. /\ q \in Object /\ q.m_data = b /\ q.alive = o.alive
          /\ q.m_internal = o.m_internal /\ q.m_alias = o.m_alias
          /\ q.m_limbs = o.m_limbs
      BY <2>1, <3>2 DEF Object
    <3>4. WellFormed(q) /\ ~Owns(q)
      BY <2>1, <2>2, <3>2, <3>3 DEF WellFormed, Owns, Writable, capacity
    <3> HIDE DEF q
    <3> QED BY <1>1, <1>2, <1>4, <3>1, <3>3, <3>4, PutOwnerless
  <2>3. CASE ~o.m_internal
    <3> DEFINE p == Put(d, x, o)
               q == [p.obj[x] EXCEPT !.m_limbs = 0, !.m_internal = TRUE]
    <3>1. TakeOver(d, x, x) = Put(p, x, q)
      BY <1>2, <2>3 DEF TakeOver
    <3>2. p.obj[x] = o /\ p = d
      BY <1>2, <2>1 DEF Put, Memory
    <3> HIDE DEF p
    <3>3. /\ q \in Object /\ q.alive = o.alive /\ q.m_data = o.m_data
          /\ q.m_internal = TRUE /\ q.m_alias = o.m_alias /\ q.m_limbs = 0
      BY <2>1, <3>2 DEF Object
    <3>4. WellFormed(q) /\ ~Owns(q)
      BY <3>3, SizesAssumption DEF WellFormed, Owns, Writable, capacity
    <3> HIDE DEF q
    <3> QED BY <1>1, <1>2, <1>4, <3>1, <3>2, <3>3, <3>4, PutOwnerless
  <2> QED BY <2>2, <2>3
<1> QED BY <1>3, <1>4

\* do_swap() of two objects that are not aliases exchanges what they own.
LEMMA SwapSound ==
  ASSUME NEW m, Sound(m), NEW x \in Obj, NEW y \in Obj,
         Writable(m.obj[x]), Writable(m.obj[y])
  PROVE  /\ Sound(do_swap(m, x, y))
         /\ \A z \in Obj \ {x, y} : do_swap(m, x, y).obj[z] = m.obj[z]
         /\ do_swap(m, x, y).threw = m.threw
<1> DEFINE a == m.obj[x]
           b == m.obj[y]
           w == do_swap(m, x, y)
           p == [b EXCEPT !.m_alias = a.m_alias]
           q == [a EXCEPT !.m_alias = b.m_alias]
<1>1. a \in Object /\ b \in Object /\ m \in Memory /\ ~a.m_alias /\ ~b.m_alias
  BY ObjectFacts DEF Writable
<1>2. p = b /\ q = a
  BY <1>1 DEF Object
<1>3. w = [m EXCEPT !.obj = [m.obj EXCEPT ![x] = p, ![y] = q]]
  BY DEF do_swap
<1> HIDE DEF p, q, w
<1>4. /\ w \in Memory /\ w.heap = m.heap /\ w.threw = m.threw
      /\ w.obj[x] = b /\ w.obj[y] = a
      /\ \A z \in Obj \ {x, y} : w.obj[z] = m.obj[z]
  BY <1>1, <1>2, <1>3 DEF Memory
<1>5. \A z \in Obj : w.obj[z] = IF z = x THEN b ELSE IF z = y THEN a ELSE m.obj[z]
  BY <1>4
<1>6. Sound(w)
  <2>1. \A c \in Block : w.heap[c].cap > 0 =>
          \E z \in Obj : Owns(w.obj[z]) /\ w.obj[z].m_data.data = c
    <3> SUFFICES ASSUME NEW c \in Block, m.heap[c].cap > 0
                 PROVE  \E z \in Obj : Owns(w.obj[z]) /\ w.obj[z].m_data.data = c
      BY <1>4
    <3>1. PICK z \in Obj : Owns(m.obj[z]) /\ m.obj[z].m_data.data = c
      BY DEF Sound, SoundOn
    <3>2. CASE z = x
      BY <1>4, <3>1, <3>2
    <3>3. CASE z = y
      BY <1>4, <3>1, <3>3
    <3>4. CASE z # x /\ z # y
      BY <1>4, <3>1, <3>4
    <3> QED BY <3>2, <3>3, <3>4
  <2>2. \A z \in Obj : WellFormed(w.obj[z])
    BY <1>5 DEF Sound, SoundOn
  <2>3. \A z \in Obj : Owns(w.obj[z]) =>
          /\ w.obj[z].m_data.data \in Block
          /\ w.heap[w.obj[z].m_data.data].cap = w.obj[z].m_data.capacity
          /\ w.obj[z].m_data.capacity > 0
    BY <1>4, <1>5, SMTT(60) DEF Sound, SoundOn
  <2>4. \A z1, z2 \in Obj :
          Owns(w.obj[z1]) /\ Owns(w.obj[z2]) /\ w.obj[z1].m_data.data = w.obj[z2].m_data.data
            => z1 = z2
    BY <1>5, SMTT(60) DEF Sound, SoundOn
  <2> QED BY <1>4, <2>1, <2>2, <2>3, <2>4 DEF Sound, SoundOn
<1> QED BY <1>4, <1>6 DEF w

\* Zero needs no room: *this = 0 never throws.
LEMMA StoreZeroSucceeds ==
  ASSUME NEW m, Sound(m), ~m.threw, NEW x \in Obj, Writable(m.obj[x]),
         NEW z \in store(m, x, 1, Zero, FALSE)
  PROVE  ~z.threw
<1> DEFINE i == ResizeInPlace(m, x, 1)
<1>1. capacity(m.obj[x]) \in Nat /\ 1 <= capacity(m.obj[x])
  <2>1. CASE m.obj[x].m_internal
    BY <2>1, SizesAssumption DEF capacity
  <2>2. CASE ~m.obj[x].m_internal
    <3>1. Owns(m.obj[x])
      BY <2>2 DEF Owns, Writable
    <3> QED BY <2>2, <3>1, LimbsInType DEF Sound, SoundOn, capacity, Writable
  <2> QED BY <2>1, <2>2
<1>2. Smaller(1, MaxLimbs) = 1 /\ ~(1 < 1) /\ Len[Zero] = 1 /\ Zero \in Value
  BY SizesAssumption, ValueAssumption DEF Smaller
<1>3. resize(m, x, 1, Len[Zero]) = {i}
  BY <1>1, <1>2 DEF resize
<1>4. Keeps(i, m, x) /\ ~i.threw /\ i.obj[x].m_limbs = 1
  BY <1>1, ResizeInPlaceSound
<1> HIDE DEF i
<1>5. z = Finish(i, x, Zero, FALSE)
  BY <1>3, <1>4 DEF store
<1>6. Finish(i, x, Zero, FALSE).threw = i.threw
  <2>1. Sound(i) /\ Writable(i.obj[x]) /\ FALSE \in BOOLEAN
    BY <1>4 DEF Keeps
  <2>2. i.obj[x].m_limbs = Smaller(1, MaxLimbs) /\ 1 >= Len[Zero]
    BY <1>2, <1>4
  <2> QED BY <1>2, <2>1, <2>2, FinishSound
<1> QED BY <1>4, <1>5, <1>6

\* Whatever the digits, the temporary is destroyed with the block it then owns.
LEMMA AssignStringSound ==
  ASSUME NEW m, Sound(m), ~m.threw, NEW x \in Obj, NEW t \in Obj \ {x},
         Writable(m.obj[x]), ~m.obj[t].alive,
         NEW v \in Value, NEW s \in BOOLEAN, NEW bad \in BOOLEAN,
         NEW w \in do_assign_string(m, x, t, v, s, bad)
  PROVE  Sound(w)
<1>1. PICK z \in store(m, x, 1, Zero, FALSE) :
        \E u \in store(Put(z, t, Default), t, Len[v], v, s) :
          w = destroy(IF u.threw \/ bad THEN Throw(u) ELSE do_swap(u, t, x), t)
  BY DEF do_assign_string
<1>2. PICK u \in store(Put(z, t, Default), t, Len[v], v, s) :
        w = destroy(IF u.threw \/ bad THEN Throw(u) ELSE do_swap(u, t, x), t)
  BY <1>1
<1>3. Keeps(z, m, x)
  <2>1. Zero \in Value /\ 1 \in Nat /\ 1 >= Len[Zero] /\ FALSE \in BOOLEAN
    BY ValueAssumption
  <2> QED BY <1>1, <2>1, StoreSound
<1>4. ~z.threw
  BY <1>1, StoreZeroSucceeds
<1> DEFINE e == Put(z, t, Default)
<1>5. Default \in Object /\ WellFormed(Default) /\ ~Owns(Default) /\ Writable(Default)
  BY ValueAssumption, SizesAssumption
  DEF Default, Object, Buffer, Contents, WellFormed, Owns, Writable, capacity
<1>6. /\ Sound(e) /\ ~e.threw /\ Writable(e.obj[t]) /\ Writable(e.obj[x])
  <2>1. z \in Memory /\ ~Owns(z.obj[t]) /\ Sound(z) /\ Writable(z.obj[x])
    BY <1>3, ObjectFacts DEF Keeps, Owns
  <2> QED BY <1>4, <1>5, <2>1, PutSound, PutEffect
<1> HIDE DEF e
<1>7. Keeps(u, e, t)
  <2>1. Len[v] \in Nat /\ Len[v] >= Len[v]
    BY LenType
  <2> QED BY <1>2, <1>6, <2>1, StoreSound DEF e
<1>8. Sound(u) /\ Writable(u.obj[t]) /\ Writable(u.obj[x])
  BY <1>6, <1>7 DEF Keeps
<1>9. Sound(IF u.threw \/ bad THEN Throw(u) ELSE do_swap(u, t, x))
  BY <1>8, ThrowSound, SwapSound
<1> QED BY <1>2, <1>9, DestroySound

----------------------------------------------------------------------------
(* The theorem. *)

\* RepresentationOK, OwnedBlocksAllocated, SoleOwner and NoLeak say of the live
\* objects what Sound says of all; a dead object is not alive, hence no owner.
LEMMA SoundImplies ==
  ASSUME Sound(Now), threw \in BOOLEAN, checked \in BOOLEAN
  PROVE  TypeOK /\ RepresentationOK /\ OwnedBlocksAllocated /\ SoleOwner /\ NoLeak
<1>1. Now.obj = obj /\ Now.heap = heap
  BY DEF Now, Mem
<1>2. obj \in [Obj -> Object] /\ heap \in [Block -> HeapBlock]
  BY <1>1 DEF Sound, SoundOn, Memory
<1>3. TypeOK
  BY <1>2 DEF TypeOK
<1>4. RepresentationOK
  BY <1>1 DEF Sound, SoundOn, WellFormed, RepresentationOK, Live, Usable, Hollow
<1>5. OwnedBlocksAllocated /\ SoleOwner
  BY <1>1 DEF Sound, SoundOn, OwnedBlocksAllocated, SoleOwner, Live
<1>6. NoLeak
  BY <1>1 DEF Sound, SoundOn, NoLeak, Live, Owns
<1> QED BY <1>3, <1>4, <1>5, <1>6

IInv == Sound(Now) /\ threw \in BOOLEAN /\ checked \in BOOLEAN

\* No object owns anything at the start.
LEMMA InitSound == Init => IInv
<1> SUFFICES ASSUME Init PROVE IInv
  OBVIOUS
<1>1. Free \in HeapBlock /\ Free.cap = 0
  BY DEF Free, HeapBlock, Contents
<1>2. /\ Now \in Memory /\ \A x \in Obj : Now.obj[x] = Dead
      /\ \A b \in Block : Now.heap[b].cap = 0
  BY <1>1, DeadOwnsNothing DEF Init, Now, Mem, Memory
<1>3. threw \in BOOLEAN /\ checked \in BOOLEAN
  BY DEF Init
<1>4. Sound(Now)
  BY <1>2, DeadOwnsNothing DEF Sound, SoundOn
<1> QED BY <1>3, <1>4 DEF IInv

\* A call that ends in a sound memory preserves the invariant.
LEMMA BecomeSound ==
  ASSUME IInv, NEW m, Sound(m), Become(m)
  PROVE  IInv'
<1>1. Now' = Mem(m.obj, m.heap, FALSE)
  BY DEF Become, Now
<1>2. /\ Now' \in Memory /\ Now'.obj = m.obj /\ Now'.heap = m.heap
      /\ threw' \in BOOLEAN /\ checked' \in BOOLEAN
  BY <1>1 DEF Become, Mem, Sound, SoundOn, Memory, IInv
<1>3. Sound(Now')
  BY <1>2 DEF Sound, SoundOn
<1> QED BY <1>2, <1>3 DEF IInv

\* The objects a step names, seen from the lemmas on member functions
LEMMA NowFacts ==
  ASSUME IInv
  PROVE  /\ Sound(Now) /\ ~Now.threw
         /\ \A x \in Live : x \in Obj /\ Now.obj[x].alive
         /\ \A x \in Targets : x \in Live /\ Writable(Now.obj[x])
         /\ \A x \in Unused : x \in Obj /\ ~Now.obj[x].alive /\ ~Owns(Now.obj[x])
                              /\ x \notin Live
BY DEF IInv, Now, Mem, Live, Targets, Unused, Writable, Owns

\* Every constructor preserves the invariant.
LEMMA CreateSound == IInv /\ Create => IInv'
<1> SUFFICES ASSUME IInv, NEW x \in Unused,
                    \/ \E v \in Value, s \in BOOLEAN : Construct(x, v, s)
                    \/ ConstructAlias(x)
                    \/ \E y \in Live : CopyConstruct(x, y)
                    \/ \E y \in Targets : MoveConstruct(x, y)
             PROVE  IInv'
  BY DEF Create
<1>1. /\ Sound(Now) /\ ~Now.threw /\ x \in Obj /\ ~Owns(Now.obj[x])
      /\ ~Now.obj[x].alive /\ x \notin Live
  BY NowFacts
<1>2. ASSUME NEW v \in Value, NEW s \in BOOLEAN, Construct(x, v, s)
      PROVE  IInv'
  <2> DEFINE n == s /\ v # Zero
             d == [limbs |-> v]
             r == [Default EXCEPT !.m_limbs = Len[v], !.m_sign = n, !.m_data = d]
  <2>1. d \in Buffer /\ n \in BOOLEAN /\ Len[v] \in Nat /\ Len[v] <= InternalLimbs
    <3>1. Len[v] <= 2
      BY <1>2 DEF Construct
    <3>2. Len[v] <= InternalLimbs /\ Len[v] \in Nat
      BY <3>1, LenType, SizesAssumption
    <3>3. d \in Buffer
      BY DEF Buffer, Contents
    <3>4. n \in BOOLEAN
      OBVIOUS
    <3> QED BY <3>2, <3>3, <3>4
  <2>2. Become(Put(Now, x, r))
    BY <1>2 DEF Construct
  <2> HIDE DEF d, n
  <2>3. /\ r \in Object /\ r.m_internal /\ ~r.m_alias /\ r.m_data = d
        /\ r.m_limbs = Len[v]
    BY <2>1 DEF Object, Default
  <2>4. WellFormed(r) /\ ~Owns(r)
    BY <2>1, <2>3 DEF WellFormed, Owns, capacity
  <2> HIDE DEF r
  <2> QED BY <1>1, <2>2, <2>3, <2>4, PutSound, BecomeSound
<1>3. ASSUME ConstructAlias(x)
      PROVE  IInv'
  <2> DEFINE d == [data |-> Lit, capacity |-> Len[LitValue]]
             r == [Default EXCEPT !.m_limbs = Len[LitValue], !.m_internal = FALSE,
                                  !.m_alias = TRUE, !.m_data = d]
  <2>1. Len[LitValue] \in Nat
    BY ValueAssumption
  <2>2. d \in Pointer /\ d.data = Lit /\ d.capacity = Len[LitValue]
    BY <2>1 DEF Pointer
  <2>3. Become(Put(Now, x, r))
    BY <1>3 DEF ConstructAlias
  <2> HIDE DEF d
  <2>4. /\ r \in Object /\ ~r.m_internal /\ r.m_alias /\ r.m_data = d
        /\ r.m_limbs = Len[LitValue]
    BY <2>1, <2>2 DEF Object, Default
  <2>5. WellFormed(r) /\ ~Owns(r)
    BY <2>1, <2>2, <2>4 DEF WellFormed, Owns, capacity
  <2> HIDE DEF r
  <2> QED BY <1>1, <2>3, <2>4, <2>5, PutSound, BecomeSound
<1>4. ASSUME NEW y \in Live, CopyConstruct(x, y)
      PROVE  IInv'
  <2>1. PICK m \in copyConstruct(Now, x, y) : Become(m)
    BY <1>4 DEF CopyConstruct
  <2>2. y \in Obj \ {x} /\ Now.obj[y].alive
    BY <1>1, NowFacts
  <2> QED BY <1>1, <2>1, <2>2, CopyConstructSound, BecomeSound DEF Constructs
<1>5. ASSUME NEW y \in Targets, MoveConstruct(x, y)
      PROVE  IInv'
  <2>1. y \in Obj \ {x} /\ Writable(Now.obj[y])
    BY <1>1, NowFacts
  <2>2. Sound(TakeOver(Now, x, y))
    BY <1>1, <2>1, OwnerlessSound, TakeOverSound
  <2> QED BY <1>5, <2>2, BecomeSound DEF MoveConstruct
<1> QED BY <1>2, <1>3, <1>4, <1>5

\* A product into one of its operands: the copy is gone when the call returns.
LEMMA ComputeFromCopySound ==
  ASSUME NEW m, Sound(m), ~m.threw, NEW x \in Obj, NEW t \in Obj \ {x},
         Writable(m.obj[x]), ~m.obj[t].alive, NEW v \in Value, NEW s \in BOOLEAN,
         NEW w \in computeFromCopy(m, x, t, v, s)
  PROVE  Sound(w)
<1>1. PICK c \in copyConstruct(m, t, x) :
        w \in IF c.threw THEN {c}
              ELSE {destroy(u, t) : u \in UNION {store(c, x, n, v, s) : n \in Room(v)}}
  BY DEF computeFromCopy
<1>2. Sound(c) /\ Writable(c.obj[x])
  BY <1>1, CopyConstructSound DEF Constructs, Writable
<1>3. CASE c.threw
  BY <1>1, <1>2, <1>3
<1>4. CASE ~c.threw
  <2>0. PICK n \in Room(v) : \E u \in store(c, x, n, v, s) : w = destroy(u, t)
    BY <1>1, <1>4
  <2>1. PICK u \in store(c, x, n, v, s) : w = destroy(u, t)
    BY <2>0
  <2>2. Sound(u)
    BY <1>2, <1>4, <2>1, RoomType, StoreSound DEF Keeps
  <2> QED BY <2>1, <2>2, DestroySound
<1> QED BY <1>3, <1>4

\* Every member function called on a live object preserves the invariant.
LEMMA UpdateSound == IInv /\ Update => IInv'
<1> SUFFICES ASSUME IInv, NEW x \in Targets,
                    \/ \E y \in Live : Assign(x, y)
                    \/ \E y \in Targets : MoveAssign(x, y)
                    \/ \E y \in Targets : Swap(x, y)
                    \/ \E v \in Value, s \in BOOLEAN :
                         Compute(x, v, s) \/ ComputeWithCarry(x, v, s)
                    \/ \E t \in Unused, v \in Value, s \in BOOLEAN :
                         \/ ComputeFromCopy(x, t, v, s)
                         \/ \E bad \in BOOLEAN : AssignString(x, t, v, s, bad)
             PROVE  IInv'
  BY DEF Update
<1>1. Sound(Now) /\ ~Now.threw /\ x \in Obj /\ Writable(Now.obj[x]) /\ x \in Live
  BY NowFacts
<1>2. ASSUME NEW y \in Live, Assign(x, y)
      PROVE  IInv'
  <2>1. PICK m \in assign(Now, x, y) : Become(m)
    BY <1>2 DEF Assign
  <2>2. Keeps(m, Now, x)
    BY <1>1, <2>1, NowFacts, AssignSound
  <2> QED BY <2>1, <2>2, BecomeSound DEF Keeps
<1>3. ASSUME NEW y \in Targets, MoveAssign(x, y)
      PROVE  IInv'
  <2>1. Sound(moveAssign(Now, x, y))
    BY <1>1, NowFacts, MoveAssignSound
  <2> QED BY <1>3, <2>1, BecomeSound DEF MoveAssign
<1>4. ASSUME NEW y \in Targets, Swap(x, y)
      PROVE  IInv'
  <2>1. Sound(do_swap(Now, x, y))
    BY <1>1, NowFacts, SwapSound
  <2> QED BY <1>4, <2>1, BecomeSound DEF Swap
<1>5. ASSUME NEW v \in Value, NEW s \in BOOLEAN, Compute(x, v, s)
      PROVE  IInv'
  BY <1>1, <1>5, RoomType, StoreSound, BecomeSound DEF Compute, Keeps
<1>6. ASSUME NEW v \in Value, NEW s \in BOOLEAN, ComputeWithCarry(x, v, s)
      PROVE  IInv'
  BY <1>1, <1>6, StoreWithCarrySound, BecomeSound DEF ComputeWithCarry, Keeps
<1>7. ASSUME NEW t \in Unused, NEW v \in Value, NEW s \in BOOLEAN,
             ComputeFromCopy(x, t, v, s)
      PROVE  IInv'
  <2>1. t \in Obj \ {x} /\ ~Now.obj[t].alive
    BY <1>1, NowFacts
  <2> QED BY <1>1, <1>7, <2>1, ComputeFromCopySound, BecomeSound DEF ComputeFromCopy
<1>8. ASSUME NEW t \in Unused, NEW v \in Value, NEW s \in BOOLEAN, NEW bad \in BOOLEAN,
             AssignString(x, t, v, s, bad)
      PROVE  IInv'
  <2>1. t \in Obj \ {x} /\ ~Now.obj[t].alive
    BY <1>1, NowFacts
  <2> QED BY <1>1, <1>8, <2>1, AssignStringSound, BecomeSound DEF AssignString
<1> QED BY <1>2, <1>3, <1>4, <1>5, <1>6, <1>7, <1>8

\* Every step preserves the invariant.
LEMMA NextSound == IInv /\ [Next]_vars => IInv'
<1> SUFFICES ASSUME IInv, [Next]_vars PROVE IInv'
  OBVIOUS
<1>1. CASE Create
  BY <1>1, CreateSound
<1>2. CASE Update
  BY <1>2, UpdateSound
<1>3. ASSUME NEW x \in Live, Destroy(x)
      PROVE  IInv'
  <2>1. Sound(destroy(Now, x))
    BY NowFacts, DestroySound
  <2> QED BY <1>3, <2>1, BecomeSound DEF Destroy
<1>4. CASE UNCHANGED vars
  BY <1>4 DEF vars, IInv, Now, Mem
<1> QED BY <1>1, <1>2, <1>3, <1>4 DEF Next

\* Memory safety: in every reachable state the fields have their types, the
\* union is read as what was written, the block of every owner is allocated
\* with the capacity the owner believes in, no block has two owners, and every
\* allocated block has one - whatever copies, moves, swaps, failed allocations
\* and overflows happened before.
THEOREM MemorySafety ==
  Spec => [](TypeOK /\ RepresentationOK /\ OwnedBlocksAllocated /\ SoleOwner /\ NoLeak)
<1>1. IInv => TypeOK /\ RepresentationOK /\ OwnedBlocksAllocated /\ SoleOwner /\ NoLeak
  BY SoundImplies DEF IInv
<1> QED BY <1>1, InitSound, NextSound, PTL DEF Spec

\* The union: limbs are read as what was written last, the buffer or the pointer, also
\* after a move that left the stale pointer in it.
THEOREM UnionReadAsWritten == Spec => []RepresentationOK
BY MemorySafety, PTL

\* No use after free: the block an object works in is allocated, with the capacity
\* that deallocate will be given.
THEOREM NoUseAfterFree == Spec => []OwnedBlocksAllocated
BY MemorySafety, PTL

\* No double free: the destructors of two objects never free one block.
THEOREM NoDoubleFree == Spec => []SoleOwner
BY MemorySafety, PTL

\* Nothing leaks, although any allocation may throw in the middle of a call.
THEOREM NoBlockLost == Spec => []NoLeak
BY MemorySafety, PTL

----------------------------------------------------------------------------
(* The numbers.  What a member function does to memory is sound by the      *)
(* lemmas above.  Here each gets a second lemma, about the number that its  *)
(* target holds then; that the other objects hold what they held is one     *)
(* fact, Beside, which follows from who owns which block.                   *)

\* NormalForm of one object; and no object has more limbs than resize() gives
Normal(m, x) ==
  m.obj[x].alive =>
    /\ m.obj[x].m_limbs <= MaxLimbs
    /\ m.obj[x].m_limbs # 0 /\ LimbsIn(m.heap, m.obj[x]) \in Value =>
         /\ m.obj[x].m_limbs = Len[LimbsIn(m.heap, m.obj[x])]
         /\ LimbsIn(m.heap, m.obj[x]) = Zero => ~m.obj[x].m_sign

\* x holds the result of an operation.
Result(m, x) ==
  /\ Normal(m, x)
  /\ \E v \in Value, s \in BOOLEAN : (v = Zero => ~s) /\ Held(m, x) = <<v, s>>

\* From m to u nothing has happened to an object other than x, or to its limbs.
Beside(u, m, x) ==
  \A y \in Obj \ {x} :
    /\ u.obj[y] = m.obj[y]
    /\ m.obj[y].alive => LimbsIn(u.heap, u.obj[y]) = LimbsIn(m.heap, m.obj[y])

Unchanged(u, m) == u.obj = m.obj /\ u.heap = m.heap

----------------------------------------------------------------------------
(* Other objects. *)

\* What two steps do not touch, both together do not touch.
LEMMA BesideTransitive ==
  ASSUME NEW m, NEW u, NEW w, NEW x \in Obj, Beside(u, m, x), Beside(w, u, x)
  PROVE  Beside(w, m, x)
BY DEF Beside

\* An object that is not touched holds the number that it held.
LEMMA BesideHeld ==
  ASSUME NEW m, NEW u, NEW x \in Obj, Beside(u, m, x), NEW y \in Obj \ {x}
  PROVE  Held(u, y) = Held(m, y) /\ (Normal(m, y) => Normal(u, y))
BY DEF Beside, Held, NumberIn, Normal

\* No other object sees what happens to the blocks of x and to free blocks.
LEMMA BesideBlocks ==
  ASSUME NEW m, Sound(m), NEW u, NEW x \in Obj,
         \A y \in Obj \ {x} : u.obj[y] = m.obj[y],
         \A c \in Block : /\ m.heap[c].cap > 0
                          /\ ~(Owns(m.obj[x]) /\ m.obj[x].m_data.data = c)
                          => u.heap[c] = m.heap[c]
  PROVE  Beside(u, m, x)
<1> SUFFICES ASSUME NEW y \in Obj \ {x}, m.obj[y].alive
             PROVE  LimbsIn(u.heap, m.obj[y]) = LimbsIn(m.heap, m.obj[y])
  BY DEF Beside
<1>1. m.obj[y] \in Object /\ WellFormed(m.obj[y])
  BY ObjectFacts
<1>2. CASE m.obj[y].m_internal \/ m.obj[y].m_data.data = Lit
  BY <1>2 DEF LimbsIn
<1>3. CASE ~m.obj[y].m_internal /\ m.obj[y].m_data.data # Lit
  <2> DEFINE c == m.obj[y].m_data.data
  <2>1. Owns(m.obj[y])
    BY <1>1, <1>3 DEF WellFormed, Owns
  <2>2. c \in Block /\ m.heap[c].cap > 0
    BY <2>1 DEF Sound, SoundOn
  <2>3. ~(Owns(m.obj[x]) /\ m.obj[x].m_data.data = c)
    BY <2>1 DEF Sound, SoundOn
  <2>4. u.heap[c] = m.heap[c]
    BY <2>2, <2>3
  <2> QED BY <1>3, <2>4 DEF LimbsIn
<1> QED BY <1>2, <1>3

\* Only x is replaced.
LEMMA PutBeside ==
  ASSUME NEW m \in Memory, NEW x \in Obj, NEW r \in Object
  PROVE  Beside(Put(m, x, r), m, x)
BY PutEffect DEF Beside

----------------------------------------------------------------------------
(* Writing limbs. *)

\* A write is read back, and nowhere else.
LEMMA WriteValue ==
  ASSUME NEW m, Sound(m), NEW x \in Obj, Writable(m.obj[x]), NEW c \in Contents
  PROVE  /\ Beside(Write(m, x, c), m, x)
         /\ LimbsIn(Write(m, x, c).heap, Write(m, x, c).obj[x]) = c
         /\ Write(m, x, c).obj[x].m_sign = m.obj[x].m_sign
<1> DEFINE r == m.obj[x]
           w == Write(m, x, c)
<1> SUFFICES /\ Beside(w, m, x)
             /\ LimbsIn(w.heap, w.obj[x]) = c
             /\ w.obj[x].m_sign = r.m_sign
  OBVIOUS
<1>1. r \in Object /\ WellFormed(r) /\ m \in Memory
  BY ObjectFacts
<1>2. CASE r.m_internal
  <2> DEFINE d == [limbs |-> c]
             q == [r EXCEPT !.m_data = d]
  <2>1. w = Put(m, x, q)
    BY <1>2 DEF Write
  <2>2. d \in Buffer /\ d.limbs = c
    BY DEF Buffer
  <2> HIDE DEF d
  <2>3. q \in Object /\ q.m_data = d /\ q.m_internal /\ q.m_sign = r.m_sign
    BY <1>1, <1>2, <2>2 DEF Object
  <2> HIDE DEF q, w
  <2>4. Beside(w, m, x) /\ w.obj[x] = q
    BY <1>1, <2>1, <2>3, PutBeside, PutEffect
  <2> QED BY <2>2, <2>3, <2>4 DEF LimbsIn
<1>3. CASE ~r.m_internal
  <2> DEFINE b == r.m_data.data
             e == [cap |-> m.heap[b].cap, limbs |-> c]
  <2>1. Owns(r) /\ b \in Block /\ b # Lit
    BY <1>1, <1>3, MemoryAssumption DEF Owns, Writable, Sound, SoundOn
  <2>2. w = PutBlock(m, b, e) /\ e.limbs = c
    BY <1>3 DEF Write
  <2> HIDE DEF e, w
  <2>3. /\ w.obj = m.obj /\ w.heap[b] = e
        /\ \A d \in Block \ {b} : w.heap[d] = m.heap[d]
    BY <1>1, <2>1, <2>2 DEF Memory, PutBlock
  <2>4. Beside(w, m, x)
    BY <2>1, <2>3, BesideBlocks
  <2> QED BY <1>3, <2>1, <2>2, <2>3, <2>4 DEF LimbsIn
<1> QED BY <1>2, <1>3

\* A change of m_sign
LEMMA PutSignValue ==
  ASSUME NEW m, Sound(m), NEW x \in Obj, Writable(m.obj[x]), NEW t \in BOOLEAN
  PROVE  /\ Beside(PutSign(m, x, t), m, x)
         /\ LimbsIn(PutSign(m, x, t).heap, PutSign(m, x, t).obj[x]) = LimbsIn(m.heap, m.obj[x])
         /\ PutSign(m, x, t).obj[x].m_limbs = m.obj[x].m_limbs
         /\ PutSign(m, x, t).obj[x].m_sign = t
<1> DEFINE r == m.obj[x]
           w == PutSign(m, x, t)
           q == [r EXCEPT !.m_sign = t]
<1> SUFFICES /\ Beside(w, m, x)
             /\ LimbsIn(w.heap, w.obj[x]) = LimbsIn(m.heap, r)
             /\ w.obj[x].m_limbs = r.m_limbs /\ w.obj[x].m_sign = t
  OBVIOUS
<1>1. r \in Object /\ m \in Memory
  BY ObjectFacts
<1>2. w = Put(m, x, q)
  BY DEF PutSign
<1>3. /\ q \in Object /\ q.m_data = r.m_data /\ q.m_internal = r.m_internal
      /\ q.m_limbs = r.m_limbs /\ q.m_sign = t
  BY <1>1 DEF Object
<1> HIDE DEF q, w
<1>4. Beside(w, m, x) /\ w.obj[x] = q /\ w.heap = m.heap
  BY <1>1, <1>2, <1>3, PutBeside, PutEffect
<1> QED BY <1>3, <1>4 DEF LimbsIn

\* A change of m_limbs
LEMMA SetLimbsValue ==
  ASSUME NEW m, Sound(m), NEW x \in Obj, Writable(m.obj[x]), NEW n \in Nat
  PROVE  /\ Beside(SetLimbs(m, x, n), m, x)
         /\ LimbsIn(SetLimbs(m, x, n).heap, SetLimbs(m, x, n).obj[x]) = LimbsIn(m.heap, m.obj[x])
         /\ SetLimbs(m, x, n).obj[x].m_limbs = n
         /\ SetLimbs(m, x, n).obj[x].m_sign = m.obj[x].m_sign
<1> DEFINE r == m.obj[x]
           w == SetLimbs(m, x, n)
           q == [r EXCEPT !.m_limbs = n]
<1> SUFFICES /\ Beside(w, m, x)
             /\ LimbsIn(w.heap, w.obj[x]) = LimbsIn(m.heap, r)
             /\ w.obj[x].m_limbs = n /\ w.obj[x].m_sign = r.m_sign
  OBVIOUS
<1>1. r \in Object /\ m \in Memory
  BY ObjectFacts
<1>2. w = Put(m, x, q)
  BY DEF SetLimbs
<1>3. /\ q \in Object /\ q.m_data = r.m_data /\ q.m_internal = r.m_internal
      /\ q.m_limbs = n /\ q.m_sign = r.m_sign
  BY <1>1 DEF Object
<1> HIDE DEF q, w
<1>4. Beside(w, m, x) /\ w.obj[x] = q /\ w.heap = m.heap
  BY <1>1, <1>2, <1>3, PutBeside, PutEffect
<1> QED BY <1>3, <1>4 DEF LimbsIn

\* sign(b): zero is never negative.
LEMMA SetSignValue ==
  ASSUME NEW m, Sound(m), NEW x \in Obj, Writable(m.obj[x]), NEW s \in BOOLEAN
  PROVE  /\ Beside(SetSign(m, x, s), m, x)
         /\ LimbsIn(SetSign(m, x, s).heap, SetSign(m, x, s).obj[x]) = LimbsIn(m.heap, m.obj[x])
         /\ SetSign(m, x, s).obj[x].m_limbs = m.obj[x].m_limbs
         /\ SetSign(m, x, s).obj[x].m_sign
              = (s /\ ~(m.obj[x].m_limbs = 1 /\ LimbsIn(m.heap, m.obj[x]) = Zero))
<1> DEFINE t == s /\ ~(m.obj[x].m_limbs = 1 /\ LimbsIn(m.heap, m.obj[x]) = Zero)
<1>1. SetSign(m, x, s) = PutSign(m, x, t)
  BY DEF SetSign, PutSign
<1>2. t \in BOOLEAN
  OBVIOUS
<1>3. SUFFICES /\ Beside(PutSign(m, x, t), m, x)
               /\ LimbsIn(PutSign(m, x, t).heap, PutSign(m, x, t).obj[x]) = LimbsIn(m.heap, m.obj[x])
               /\ PutSign(m, x, t).obj[x].m_limbs = m.obj[x].m_limbs
               /\ PutSign(m, x, t).obj[x].m_sign = t
  BY <1>1
<1> HIDE DEF t
<1> QED BY <1>2, PutSignValue

----------------------------------------------------------------------------
(* resize() *)

\* A buffer that is large enough is kept.
LEMMA ResizeInPlaceValue ==
  ASSUME NEW m, Sound(m), NEW x \in Obj, Writable(m.obj[x]), NEW n \in Nat
  PROVE  /\ Beside(ResizeInPlace(m, x, n), m, x)
         /\ ResizeInPlace(m, x, n).obj[x].m_sign = m.obj[x].m_sign
<1> DEFINE r == m.obj[x]
           w == ResizeInPlace(m, x, n)
           c == LimbsIn(m.heap, r)
           d == IF r.m_internal THEN [limbs |-> c] ELSE r.m_data
           q == [r EXCEPT !.m_limbs = n, !.m_data = d]
<1>1. r \in Object /\ m \in Memory /\ c \in Contents
  BY ObjectFacts, LimbsInType DEF Writable
<1>2. w = Put(m, x, q)
  BY DEF ResizeInPlace
<1> HIDE DEF c
<1>3. d \in Buffer \cup Pointer
  BY <1>1 DEF Object, Buffer
<1> HIDE DEF d
<1>4. q \in Object /\ q.m_sign = r.m_sign
  BY <1>1, <1>3 DEF Object
<1> HIDE DEF q, w
<1>5. Beside(w, m, x) /\ w.obj[x].m_sign = r.m_sign
  BY <1>1, <1>2, <1>4, PutBeside, PutEffect
<1> QED BY <1>5 DEF w

\* A new buffer is a block that was free, and the old one was the object's own.
LEMMA ReallocateValue ==
  ASSUME NEW m, Sound(m), NEW x \in Obj, NEW n \in Nat, Writable(m.obj[x]),
         NEW b \in FreeBlocks(m.heap)
  PROVE  /\ Beside(Reallocate(m, x, n, b), m, x)
         /\ Reallocate(m, x, n, b).obj[x].m_sign = m.obj[x].m_sign
<1> DEFINE r   == m.obj[x]
           cap == Grow(capacity(r), n)
           ld  == [data |-> b, capacity |-> cap]
           q   == [r EXCEPT !.m_internal = FALSE, !.m_limbs = n, !.m_data = ld]
           e   == [cap |-> cap, limbs |-> Content(m.heap, r)]
           h   == [m.heap EXCEPT ![b] = e]
           w   == Reallocate(m, x, n, b)
<1>1. r \in Object /\ m \in Memory
  BY ObjectFacts
<1>2. b \in Block /\ m.heap[b].cap = 0
  BY DEF FreeBlocks
<1>3. w = Mem([m.obj EXCEPT ![x] = q], Release(h, r), m.threw)
  BY DEF Reallocate
<1> HIDE DEF cap, e, ld
<1>4. q.m_sign = r.m_sign
  BY <1>1 DEF Object
<1> HIDE DEF q
<1>5. \A c \in Block \ {b} : h[c] = m.heap[c]
  BY <1>1, <1>2 DEF Memory
<1>6. h = [m.heap EXCEPT ![b] = e]
  OBVIOUS
<1>7. \A c \in Block \ {b} :
        ~(Owns(r) /\ r.m_data.data = c) => Release(h, r)[c] = m.heap[c]
  BY <1>1, <1>2, <1>5, <1>6 DEF Release, Memory
<1> HIDE DEF h
<1>8. /\ w.obj[x] = q /\ w.heap = Release(h, r)
      /\ \A y \in Obj \ {x} : w.obj[y] = m.obj[y]
  BY <1>1, <1>3 DEF Mem, Memory
<1> HIDE DEF w
<1>9. \A c \in Block : m.heap[c].cap > 0 /\ ~(Owns(r) /\ r.m_data.data = c)
                         => w.heap[c] = m.heap[c]
  BY <1>2, <1>7, <1>8
<1>10. Beside(w, m, x) /\ w.obj[x].m_sign = r.m_sign
  BY <1>4, <1>8, <1>9, BesideBlocks
<1> QED BY <1>10 DEF w

\* resize() changes no other object; if it throws it changes nothing.
LEMMA ResizeValue ==
  ASSUME NEW m, Sound(m), ~m.threw, NEW x \in Obj, Writable(m.obj[x]),
         NEW n \in Nat, NEW k \in Nat, NEW u \in resize(m, x, n, k)
  PROVE  /\ Beside(u, m, x)
         /\ u.obj[x].m_sign = m.obj[x].m_sign
         /\ u.threw => Unchanged(u, m)
<1> DEFINE l == Smaller(n, MaxLimbs)
<1>1. l \in Nat /\ l <= MaxLimbs
  BY SizesAssumption DEF Smaller
<1>2. capacity(m.obj[x]) \in Nat
  BY LimbsInType DEF Writable
<1>3. CASE u = Throw(m)
  <2>1. u.obj = m.obj /\ u.heap = m.heap
    BY <1>3, ObjectFacts DEF Throw, Memory
  <2> QED BY <2>1 DEF Beside, Unchanged
<1>4. CASE l <= capacity(m.obj[x]) /\ u = ResizeInPlace(m, x, l)
  BY <1>1, <1>4, ResizeInPlaceValue, ResizeInPlaceSound
<1>5. CASE /\ ~(l <= capacity(m.obj[x]))
           /\ \E b \in FreeBlocks(m.heap) : u = Reallocate(m, x, l, b)
  <2>1. PICK b \in FreeBlocks(m.heap) : u = Reallocate(m, x, l, b)
    BY <1>5
  <2> QED BY <1>1, <1>2, <1>5, <2>1, ReallocateValue, ReallocateSound
<1> HIDE DEF l
<1>6. \/ u = Throw(m)
      \/ l <= capacity(m.obj[x]) /\ u = ResizeInPlace(m, x, l)
      \/ /\ ~(l <= capacity(m.obj[x]))
         /\ \E b \in FreeBlocks(m.heap) : u = Reallocate(m, x, l, b)
  BY DEF resize, l
<1> QED BY <1>3, <1>4, <1>5, <1>6 DEF l

----------------------------------------------------------------------------
(* Results. *)

\* The result of an operation, or what is left of it, is a number in normal form.
LEMMA FinishValue ==
  ASSUME NEW m, Sound(m), NEW x \in Obj, Writable(m.obj[x]),
         NEW v \in Value, NEW s \in BOOLEAN,
         NEW n \in Nat, n >= Len[v], m.obj[x].m_limbs = Smaller(n, MaxLimbs)
  PROVE  /\ Beside(Finish(m, x, v, s), m, x) /\ Result(Finish(m, x, v, s), x)
         /\ Held(Finish(m, x, v, s), x) = Delivered(v, s)
<1> DEFINE c == IF m.obj[x].m_limbs >= Len[v] THEN v ELSE Wrap[v]
           w == Write(m, x, c)
           z == SetLimbs(w, x, Len[c])
           f == SetSign(z, x, s)
<1>1. /\ c \in Value /\ Len[c] \in Nat /\ Len[c] # 0 /\ Len[c] <= MaxLimbs
      /\ Len[c] <= m.obj[x].m_limbs
  BY SizesAssumption, ValueAssumption DEF Smaller
<1>2. Finish(m, x, v, s) = f
  BY DEF Finish, SetLimbs
<1>10. Delivered(v, s) = <<c, s /\ c # Zero>>
  <2>1. m.obj[x].m_limbs >= Len[v] <=> Len[v] <= MaxLimbs
    BY SizesAssumption, ValueAssumption DEF Smaller
  <2> QED BY <2>1 DEF Delivered
<1> HIDE DEF c
<1>3. /\ Keeps(w, m, x) /\ Beside(w, m, x)
      /\ w.obj[x].m_limbs = m.obj[x].m_limbs
      /\ w.obj[x].m_internal => w.obj[x].m_data \in Buffer
      /\ LimbsIn(w.heap, w.obj[x]) = c
  BY <1>1, WriteSound, WriteValue DEF Contents
<1> HIDE DEF w
<1>4. Sound(w) /\ Writable(w.obj[x]) /\ w.obj[x] \in Object /\ WellFormed(w.obj[x])
  BY <1>3, ObjectFacts DEF Keeps
<1>5. Len[c] <= capacity(w.obj[x])
  <2>1. capacity(w.obj[x]) \in Nat
    BY <1>4, LimbsInType DEF Writable
  <2>2. w.obj[x].m_limbs <= capacity(w.obj[x]) /\ w.obj[x].m_limbs \in Nat
    BY <1>4 DEF WellFormed, Writable, Object
  <2> QED BY <1>1, <1>3, <2>1, <2>2
<1>6. /\ Keeps(z, w, x) /\ Beside(z, w, x)
      /\ LimbsIn(z.heap, z.obj[x]) = c /\ z.obj[x].m_limbs = Len[c]
  BY <1>1, <1>3, <1>4, <1>5, SetLimbsSound, SetLimbsValue
<1> HIDE DEF z
<1>7. /\ Keeps(f, z, x) /\ Beside(f, z, x)
      /\ LimbsIn(f.heap, f.obj[x]) = c /\ f.obj[x].m_limbs = Len[c]
      /\ f.obj[x].m_sign = (s /\ ~(Len[c] = 1 /\ c = Zero))
  BY <1>6, SetSignSound, SetSignValue DEF Keeps
<1> HIDE DEF f
<1>8. f.obj[x].alive /\ f.obj[x].m_sign \in BOOLEAN /\ (c = Zero => ~f.obj[x].m_sign)
  BY <1>7, ValueAssumption DEF Keeps, Writable
<1>9. Result(f, x)
  BY <1>1, <1>7, <1>8 DEF Result, Normal, Held, NumberIn
<1>11. Held(f, x) = Delivered(v, s)
  <2>1. f.obj[x].m_sign = (s /\ c # Zero)
    BY <1>7, ValueAssumption
  <2> QED BY <1>1, <1>7, <1>8, <1>10, <2>1 DEF Held, NumberIn
<1> QED BY <1>2, <1>3, <1>6, <1>7, <1>9, <1>11, BesideTransitive

\* An operation that asks for its limbs first changes its target completely, or not
\* at all.
LEMMA StoreValue ==
  ASSUME NEW m, Sound(m), ~m.threw, NEW x \in Obj, Writable(m.obj[x]),
         NEW v \in Value, NEW n \in Nat, n >= Len[v], NEW s \in BOOLEAN,
         NEW w \in store(m, x, n, v, s)
  PROVE  /\ Beside(w, m, x)
         /\ IF w.threw THEN Unchanged(w, m)
            ELSE Result(w, x) /\ Held(w, x) = Delivered(v, s)
<1>1. PICK u \in resize(m, x, n, Len[v]) :
        w = IF u.threw THEN u ELSE Finish(u, x, v, s)
  BY DEF store
<1>2. /\ Keeps(u, m, x) /\ Beside(u, m, x)
      /\ ~u.threw => u.obj[x].m_limbs = Smaller(n, MaxLimbs)
      /\ u.threw => Unchanged(u, m)
  BY <1>1, LenType, ResizeSound, ResizeValue
<1>3. CASE u.threw
  BY <1>1, <1>2, <1>3
<1>4. CASE ~u.threw
  <2>1. /\ Beside(Finish(u, x, v, s), u, x) /\ Result(Finish(u, x, v, s), x)
        /\ Held(Finish(u, x, v, s), x) = Delivered(v, s)
        /\ ~Finish(u, x, v, s).threw
    BY <1>2, <1>4, FinishSound, FinishValue DEF Keeps
  <2> QED BY <1>1, <1>2, <1>4, <2>1, BesideTransitive
<1> QED BY <1>3, <1>4

\* One that resizes a second time may leave limbs that are no number.
LEMMA StoreWithCarryValue ==
  ASSUME NEW m, Sound(m), ~m.threw, NEW x \in Obj, Writable(m.obj[x]),
         NEW v \in Value, NEW s \in BOOLEAN, NEW w \in storeWithCarry(m, x, v, s)
  PROVE  /\ Beside(w, m, x)
         /\ IF w.threw
            THEN Unchanged(w, m) \/ (Held(w, x) = Unspecified /\ Normal(w, x))
            ELSE Result(w, x) /\ Held(w, x) = Delivered(v, s)
<1>1. PICK u \in resize(m, x, Len[v] - 1, Len[v] - 1) :
        w \in IF u.threw THEN {u}
              ELSE {IF z.threw THEN z ELSE Finish(z, x, v, s) :
                      z \in resize(Write(u, x, Junk), x, Len[v], Len[v])}
  BY DEF storeWithCarry
<1>2. /\ Keeps(u, m, x) /\ Beside(u, m, x)
      /\ ~u.threw => u.obj[x].m_limbs = Smaller(Len[v] - 1, MaxLimbs)
      /\ u.threw => Unchanged(u, m)
  BY <1>1, LenType, ResizeSound, ResizeValue
<1>3. CASE u.threw
  BY <1>1, <1>2, <1>3
<1>4. CASE ~u.threw
  <2> DEFINE j == Write(u, x, Junk)
  <2>1. /\ Keeps(j, u, x) /\ j.threw = u.threw /\ Beside(j, u, x)
        /\ LimbsIn(j.heap, j.obj[x]) = Junk
        /\ j.obj[x].m_limbs = Smaller(Len[v] - 1, MaxLimbs)
    BY <1>2, <1>4, WriteSound, WriteValue DEF Keeps, Contents
  <2>2. PICK z \in resize(j, x, Len[v], Len[v]) :
          w = IF z.threw THEN z ELSE Finish(z, x, v, s)
    BY <1>1, <1>4
  <2> HIDE DEF j
  <2>3. /\ Keeps(z, j, x) /\ Beside(z, j, x)
        /\ ~z.threw => z.obj[x].m_limbs = Smaller(Len[v], MaxLimbs)
        /\ z.threw => Unchanged(z, j)
    BY <1>4, <2>1, <2>2, LenType, ResizeSound, ResizeValue DEF Keeps
  <2>4. Beside(z, m, x)
    BY <1>2, <2>1, <2>3, BesideTransitive
  <2>5. CASE z.threw
    <3>1. /\ LimbsIn(z.heap, z.obj[x]) = Junk /\ z.obj[x].alive
          /\ z.obj[x].m_limbs <= MaxLimbs
      BY <2>1, <2>3, <2>5, LenType, SizesAssumption
      DEF Unchanged, Keeps, Writable, Smaller
    <3>2. Held(z, x) = Unspecified /\ Normal(z, x)
      BY <3>1, ValueAssumption DEF Held, NumberIn, Normal
    <3> QED BY <2>2, <2>4, <2>5, <3>2
  <2>6. CASE ~z.threw
    <3>1. Sound(z) /\ Writable(z.obj[x]) /\ Len[v] \in Nat /\ Len[v] >= Len[v]
      BY <2>3, LenType DEF Keeps
    <3>2. /\ Beside(Finish(z, x, v, s), z, x) /\ Result(Finish(z, x, v, s), x)
          /\ Held(Finish(z, x, v, s), x) = Delivered(v, s)
          /\ ~Finish(z, x, v, s).threw
      BY <2>3, <2>6, <3>1, FinishSound, FinishValue
    <3> QED BY <2>2, <2>4, <2>6, <3>2, BesideTransitive
  <2> QED BY <2>5, <2>6
<1> QED BY <1>3, <1>4

----------------------------------------------------------------------------
(* Copies, moves and swaps. *)

\* After the limbs of y have been copied to x, which has as many and its sign, x holds
\* the number of y.
LEMMA CopyLimbsValue ==
  ASSUME NEW m, Sound(m), NEW x \in Obj, NEW y \in Obj \ {x}, Writable(m.obj[x]),
         m.obj[y].alive, Normal(m, y), m.obj[x].m_limbs = m.obj[y].m_limbs
  PROVE  /\ Beside(CopyLimbs(m, x, y), m, x)
         /\ CopyLimbs(m, x, y).obj[x].m_sign = m.obj[x].m_sign
         /\ CopyLimbs(m, x, y).obj[x].m_limbs = m.obj[y].m_limbs
         /\ m.obj[y].m_limbs # 0 =>
              LimbsIn(CopyLimbs(m, x, y).heap, CopyLimbs(m, x, y).obj[x])
                = LimbsIn(m.heap, m.obj[y])
<1>1. LimbsIn(m.heap, m.obj[y]) \in Contents
  BY LimbsInType
<1>2. CASE Hollow(m.obj[y])
  BY <1>2 DEF CopyLimbs, Hollow, Beside
<1>3. CASE ~Hollow(m.obj[y])
  BY <1>1, <1>3, WriteSound, WriteValue DEF CopyLimbs
<1> QED BY <1>2, <1>3

\* Limbs, their number and the sign make up the number.
LEMMA SameHeld ==
  ASSUME NEW m, NEW u, NEW x \in Obj, NEW y \in Obj,
         u.obj[x].alive, m.obj[y].alive, Normal(m, y),
         u.obj[x].m_limbs = m.obj[y].m_limbs, u.obj[x].m_sign = m.obj[y].m_sign,
         m.obj[y].m_limbs # 0 => LimbsIn(u.heap, u.obj[x]) = LimbsIn(m.heap, m.obj[y])
  PROVE  Held(u, x) = Held(m, y) /\ Normal(u, x)
BY DEF Held, NumberIn, Normal

\* assign() makes the target equal to the source, or empty if it throws.
LEMMA AssignValue ==
  ASSUME NEW m, Sound(m), ~m.threw, NEW x \in Obj, NEW y \in Obj \ {x},
         Writable(m.obj[x]), m.obj[y].alive, Normal(m, y), NEW w \in assign(m, x, y)
  PROVE  /\ Beside(w, m, x)
         /\ Held(w, x) = (IF w.threw THEN Unspecified ELSE Held(m, y)) /\ Normal(w, x)
<1> DEFINE o == m.obj[y]
           e == SetLimbs(m, x, 0)
<1>1. PICK u \in resize(e, x, o.m_limbs, o.m_limbs) :
        w = IF u.threw THEN u ELSE PutSign(CopyLimbs(u, x, y), x, o.m_sign)
  BY DEF assign, SetLimbs, PutSign
<1>2. /\ o \in Object /\ capacity(m.obj[x]) \in Nat /\ o.m_limbs \in Nat
      /\ o.m_limbs <= MaxLimbs /\ o.m_sign \in BOOLEAN
  BY ObjectFacts, LimbsInType DEF Writable, Object, Normal
<1>3. /\ Keeps(e, m, x) /\ e.threw = m.threw /\ Beside(e, m, x)
      /\ e.obj[x].m_limbs = 0
  BY <1>2, SetLimbsSound, SetLimbsValue
<1> HIDE DEF e
<1>4. /\ Keeps(u, e, x) /\ Beside(u, e, x)
      /\ ~u.threw => u.obj[x].m_limbs = Smaller(o.m_limbs, MaxLimbs)
      /\ u.threw => Unchanged(u, e)
  BY <1>1, <1>2, <1>3, ResizeSound, ResizeValue DEF Keeps
<1>5. Beside(u, m, x) /\ u.obj[y] = o /\ Sound(u) /\ Writable(u.obj[x])
  BY <1>3, <1>4, BesideTransitive DEF Keeps
<1>6. CASE u.threw
  <2>1. w = u /\ u.obj[x].alive /\ u.obj[x].m_limbs = 0
    BY <1>1, <1>3, <1>4, <1>5, <1>6 DEF Unchanged, Writable
  <2>2. Held(w, x) = Unspecified /\ Normal(w, x)
    BY <2>1, SizesAssumption DEF Held, NumberIn, Normal
  <2> QED BY <1>5, <1>6, <2>1, <2>2
<1>7. CASE ~u.threw
  <2> DEFINE c == CopyLimbs(u, x, y)
             p == PutSign(c, x, o.m_sign)
  <2>1. u.obj[x].m_limbs = u.obj[y].m_limbs
    BY <1>2, <1>4, <1>5, <1>7, SizesAssumption DEF Smaller
  <2>2. Normal(u, y) /\ Held(u, y) = Held(m, y)
    BY <1>5, BesideHeld
  <2>3. /\ Beside(c, u, x) /\ Keeps(c, u, x) /\ ~c.threw
        /\ c.obj[x].m_limbs = o.m_limbs
        /\ o.m_limbs # 0 => LimbsIn(c.heap, c.obj[x]) = LimbsIn(u.heap, u.obj[y])
    BY <1>5, <1>7, <2>1, <2>2, CopyLimbsValue, CopyLimbsSound
  <2> HIDE DEF c
  <2>4. /\ Beside(p, c, x) /\ Keeps(p, c, x) /\ ~p.threw
        /\ p.obj[x].m_limbs = o.m_limbs /\ p.obj[x].m_sign = o.m_sign
        /\ o.m_limbs # 0 => LimbsIn(p.heap, p.obj[x]) = LimbsIn(u.heap, u.obj[y])
    BY <1>2, <2>3, PutSignValue, PutSignSound DEF Keeps
  <2> HIDE DEF p
  <2>5. p.obj[x].alive
    BY <2>4 DEF Keeps, Writable
  <2>6. Held(p, x) = Held(u, y) /\ Normal(p, x)
    BY <1>5, <2>2, <2>4, <2>5, SameHeld
  <2>7. w = p
    BY <1>1, <1>7 DEF p, c
  <2> QED BY <1>5, <2>2, <2>3, <2>4, <2>6, <2>7, BesideTransitive
<1> QED BY <1>6, <1>7

\* The copy constructor yields an equal number, or none.
LEMMA CopyConstructValue ==
  ASSUME NEW m, Sound(m), ~m.threw, NEW x \in Obj, NEW y \in Obj \ {x},
         ~m.obj[x].alive, m.obj[y].alive, Normal(m, y), NEW w \in copyConstruct(m, x, y)
  PROVE  /\ Beside(w, m, x)
         /\ IF w.threw THEN Unchanged(w, m)
            ELSE Held(w, x) = Held(m, y) /\ Normal(w, x)
<1> DEFINE o == m.obj[y]
<1>1. /\ o \in Object /\ WellFormed(o) /\ m \in Memory
      /\ o.m_limbs \in Nat /\ o.m_limbs <= MaxLimbs /\ o.m_sign \in BOOLEAN
  BY ObjectFacts DEF Object, Normal
<1>2. ~Owns(m.obj[x])
  BY DEF Owns
<1>3. CASE o.m_alias
  <2> DEFINE q == [o EXCEPT !.m_internal = FALSE]
  <2>1. w = Put(m, x, q)
    BY <1>3 DEF copyConstruct
  <2>2. q = o
    BY <1>1, <1>3 DEF WellFormed, Object
  <2>3. Beside(w, m, x) /\ w.obj[x] = o /\ w.heap = m.heap /\ w.threw = m.threw
    BY <1>1, <2>1, <2>2, PutBeside, PutEffect
  <2>4. Held(w, x) = Held(m, y) /\ Normal(w, x)
    BY <2>3, SameHeld
  <2> QED BY <2>3, <2>4
<1>4. CASE ~o.m_alias
  <2> DEFINE q == [Default EXCEPT !.m_limbs = 0, !.m_sign = o.m_sign]
             e == Put(m, x, q)
  <2>1. PICK u \in resize(e, x, o.m_limbs, o.m_limbs) :
          w = IF u.threw THEN Throw(m) ELSE CopyLimbs(u, x, y)
    BY <1>4 DEF copyConstruct
  <2>2. /\ q \in Object /\ q.alive /\ q.m_internal /\ ~q.m_alias /\ q.m_limbs = 0
        /\ q.m_sign = o.m_sign
    BY <1>1, ValueAssumption DEF Object, Default, Buffer, Contents
  <2>3. WellFormed(q) /\ ~Owns(q) /\ Writable(q)
    BY <2>2, SizesAssumption DEF WellFormed, Owns, Writable, capacity
  <2> HIDE DEF q
  <2>4. /\ Keeps(e, m, x) /\ e.threw = m.threw /\ Beside(e, m, x)
        /\ e.obj[x].m_sign = o.m_sign
    BY <1>1, <1>2, <2>2, <2>3, PutSound, PutEffect, PutBeside DEF Keeps
  <2> HIDE DEF e
  <2>5. /\ Keeps(u, e, x) /\ Beside(u, e, x)
        /\ ~u.threw => u.obj[x].m_limbs = Smaller(o.m_limbs, MaxLimbs)
        /\ u.obj[x].m_sign = o.m_sign
    BY <1>1, <2>1, <2>4, ResizeSound, ResizeValue DEF Keeps
  <2>6. CASE u.threw
    <3>1. w = Throw(m)
      BY <2>1, <2>6
    <3>2. w.obj = m.obj /\ w.heap = m.heap /\ w.threw
      BY <1>1, <3>1 DEF Throw, Memory
    <3> QED BY <3>2 DEF Unchanged, Beside
  <2>7. CASE ~u.threw
    <3>1. Keeps(u, m, x) /\ Beside(u, m, x) /\ u.obj[y] = o
      BY <2>4, <2>5, KeepsTransitive, BesideTransitive DEF Keeps
    <3>2. u.obj[x].m_limbs = u.obj[y].m_limbs
      BY <1>1, <2>5, <2>7, <3>1, SizesAssumption DEF Smaller
    <3>3. Normal(u, y) /\ Held(u, y) = Held(m, y)
      BY <3>1, BesideHeld
    <3> DEFINE c == CopyLimbs(u, x, y)
    <3>4. /\ Beside(c, u, x) /\ Keeps(c, u, x) /\ ~c.threw
          /\ c.obj[x].m_sign = o.m_sign /\ c.obj[x].m_limbs = o.m_limbs
          /\ o.m_limbs # 0 => LimbsIn(c.heap, c.obj[x]) = LimbsIn(u.heap, u.obj[y])
      BY <2>5, <2>7, <3>1, <3>2, <3>3, CopyLimbsValue, CopyLimbsSound DEF Keeps
    <3>5. w = c
      BY <2>1, <2>7
    <3> HIDE DEF c
    <3>6. Held(c, x) = Held(u, y) /\ Normal(c, x)
      BY <3>1, <3>3, <3>4, SameHeld DEF Keeps, Writable
    <3> QED BY <3>1, <3>3, <3>4, <3>5, <3>6, BesideTransitive
  <2> QED BY <2>6, <2>7
<1> QED BY <1>3, <1>4

\* A move transfers the number; the source keeps it, or holds none.
LEMMA TakeOverValue ==
  ASSUME NEW m \in Memory, NEW x \in Obj, NEW y \in Obj \ {x}, Writable(m.obj[y]),
         WellFormed(m.obj[y]), Normal(m, y)
  PROVE  /\ \A z \in Obj \ {x, y} : /\ Held(TakeOver(m, x, y), z) = Held(m, z)
                                    /\ Normal(m, z) => Normal(TakeOver(m, x, y), z)
         /\ Held(TakeOver(m, x, y), x) = Held(m, y) /\ Normal(TakeOver(m, x, y), x)
         /\ Held(TakeOver(m, x, y), y) \in {Held(m, y), Unspecified}
         /\ Normal(TakeOver(m, x, y), y)
<1> DEFINE o == m.obj[y]
           w == TakeOver(m, x, y)
<1>1. o \in Object /\ o.alive
  BY DEF Memory, Writable
<1>2. CASE o.m_internal
  <2> DEFINE c == Content(m.heap, o)
             d == [limbs |-> c]
             q == [o EXCEPT !.m_data = d]
  <2>1. w = Put(m, x, q)
    BY <1>2 DEF TakeOver
  <2>2. d \in Buffer /\ d.limbs = c /\ (o.m_limbs # 0 => c = LimbsIn(m.heap, o))
    BY <1>1, <1>2 DEF Content, LimbsIn, Buffer, Contents
  <2> HIDE DEF c, d
  <2>3. /\ q \in Object /\ q.m_data = d /\ q.alive /\ q.m_internal
        /\ q.m_limbs = o.m_limbs /\ q.m_sign = o.m_sign
    BY <1>1, <1>2, <2>2 DEF Object
  <2> HIDE DEF q, w
  <2>4. Beside(w, m, x) /\ w.obj[x] = q
    BY <2>1, <2>3, PutBeside, PutEffect
  <2>5. o.m_limbs # 0 => LimbsIn(w.heap, w.obj[x]) = LimbsIn(m.heap, o)
    BY <2>2, <2>3, <2>4 DEF LimbsIn
  <2>6. Held(w, x) = Held(m, y) /\ Normal(w, x)
    BY <1>1, <2>3, <2>4, <2>5, SameHeld
  <2>7. \A z \in Obj \ {x} : Held(w, z) = Held(m, z) /\ (Normal(m, z) => Normal(w, z))
    BY <2>4, BesideHeld
  <2> QED BY <2>6, <2>7 DEF w
<1>3. CASE ~o.m_internal
  <2> DEFINE p == Put(m, x, o)
             q == [p.obj[y] EXCEPT !.m_limbs = 0, !.m_internal = TRUE]
  <2>1. w = Put(p, y, q)
    BY <1>3 DEF TakeOver
  <2>2. /\ p \in Memory /\ p.heap = m.heap /\ p.obj[x] = o /\ p.obj[y] = o
        /\ Beside(p, m, x)
    BY <1>1, PutEffect, PutBeside
  <2> HIDE DEF p
  <2>3. q \in Object /\ q.alive /\ q.m_limbs = 0
    BY <1>1, <2>2 DEF Object
  <2> HIDE DEF q, w
  <2>4. /\ w.heap = m.heap /\ w.obj[y] = q /\ Beside(w, p, y)
        /\ w.obj[x] = o
    BY <2>1, <2>2, <2>3, PutEffect, PutBeside
  <2>5. Held(w, x) = Held(m, y) /\ Normal(w, x)
    BY <1>1, <2>4, SameHeld
  <2>6. Held(w, y) = Unspecified /\ Normal(w, y)
    BY <2>3, <2>4, SizesAssumption DEF Held, NumberIn, Normal
  <2>7. \A z \in Obj \ {x, y} : Held(w, z) = Held(m, z) /\ (Normal(m, z) => Normal(w, z))
    BY <2>2, <2>4, BesideHeld
  <2> QED BY <2>5, <2>6, <2>7 DEF w
<1> QED BY <1>2, <1>3

\* The block that an object frees was nobody else's.
LEMMA ReleaseBeside ==
  ASSUME NEW m, Sound(m), NEW x \in Obj
  PROVE  Beside([m EXCEPT !.heap = Release(m.heap, m.obj[x])], m, x)
<1> DEFINE d == [m EXCEPT !.heap = Release(m.heap, m.obj[x])]
<1>1. m \in Memory
  BY ObjectFacts
<1>2. d.obj = m.obj /\ d.heap = Release(m.heap, m.obj[x])
  BY <1>1 DEF Memory
<1>3. \A c \in Block : ~(Owns(m.obj[x]) /\ m.obj[x].m_data.data = c)
                         => d.heap[c] = m.heap[c]
  BY <1>1, <1>2 DEF Release, Memory
<1> HIDE DEF d
<1>4. Beside(d, m, x)
  BY <1>2, <1>3, BesideBlocks
<1> QED BY <1>4 DEF d

\* The destructor ends one object.
LEMMA DestroyValue ==
  ASSUME NEW m, Sound(m), NEW x \in Obj
  PROVE  Beside(destroy(m, x), m, x) /\ Held(destroy(m, x), x) = NoNumber
         /\ Normal(destroy(m, x), x)
<1> DEFINE d == [m EXCEPT !.heap = Release(m.heap, m.obj[x])]
<1>1. Beside(d, m, x)
  BY ReleaseBeside
<1>2. SoundOn(d, Obj \ {x})
  BY ReleaseSound
<1>3. destroy(m, x) = Put(d, x, Dead) /\ d \in Memory
  BY <1>2 DEF destroy, Put, SoundOn, Memory
<1> HIDE DEF d
<1>4. Beside(Put(d, x, Dead), d, x) /\ Put(d, x, Dead).obj[x] = Dead
  BY <1>3, PutBeside, PutEffect, DeadOwnsNothing
<1>5. ~Dead.alive
  BY DEF Dead, Default
<1> QED BY <1>1, <1>3, <1>4, <1>5, BesideTransitive DEF Held, NumberIn, Normal

\* do_swap() exchanges two numbers.
LEMMA SwapValue ==
  ASSUME NEW m, Sound(m), NEW x \in Obj, NEW y \in Obj,
         Writable(m.obj[x]), Writable(m.obj[y]), Normal(m, x), Normal(m, y)
  PROVE  /\ \A z \in Obj \ {x, y} : /\ Held(do_swap(m, x, y), z) = Held(m, z)
                                    /\ Normal(m, z) => Normal(do_swap(m, x, y), z)
         /\ Held(do_swap(m, x, y), x) = Held(m, y) /\ Normal(do_swap(m, x, y), x)
         /\ Held(do_swap(m, x, y), y) = Held(m, x) /\ Normal(do_swap(m, x, y), y)
<1> DEFINE a == m.obj[x]
           b == m.obj[y]
           w == do_swap(m, x, y)
           p == [b EXCEPT !.m_alias = a.m_alias]
           q == [a EXCEPT !.m_alias = b.m_alias]
<1>1. /\ a \in Object /\ b \in Object /\ m \in Memory /\ ~a.m_alias /\ ~b.m_alias
      /\ a.alive /\ b.alive
  BY ObjectFacts DEF Writable
<1>2. p = b /\ q = a
  BY <1>1 DEF Object
<1>3. w = [m EXCEPT !.obj = [m.obj EXCEPT ![x] = p, ![y] = q]]
  BY DEF do_swap
<1> HIDE DEF p, q, w
<1>4. /\ w.heap = m.heap /\ w.obj[x] = b /\ w.obj[y] = a
      /\ \A z \in Obj \ {x, y} : w.obj[z] = m.obj[z]
  BY <1>1, <1>2, <1>3 DEF Memory
<1>5. /\ Held(w, x) = Held(m, y) /\ Normal(w, x)
      /\ Held(w, y) = Held(m, x) /\ Normal(w, y)
  BY <1>1, <1>4, SameHeld
<1>6. \A z \in Obj \ {x, y} : Held(w, z) = Held(m, z) /\ (Normal(m, z) => Normal(w, z))
  BY <1>4 DEF Held, NumberIn, Normal
<1> QED BY <1>5, <1>6 DEF w

\* A move assignment releases the target's own block first.
LEMMA MoveAssignValue ==
  ASSUME NEW m, Sound(m), NEW x \in Obj, NEW y \in Obj \ {x},
         Writable(m.obj[x]), Writable(m.obj[y]), Normal(m, y)
  PROVE  /\ \A z \in Obj \ {x, y} : /\ Held(moveAssign(m, x, y), z) = Held(m, z)
                                    /\ Normal(m, z) => Normal(moveAssign(m, x, y), z)
         /\ Held(moveAssign(m, x, y), x) = Held(m, y) /\ Normal(moveAssign(m, x, y), x)
         /\ Held(moveAssign(m, x, y), y) \in {Held(m, y), Unspecified}
         /\ Normal(moveAssign(m, x, y), y)
<1> DEFINE d == [m EXCEPT !.heap = Release(m.heap, m.obj[x])]
<1>1. moveAssign(m, x, y) = TakeOver(d, x, y)
  BY DEF moveAssign
<1>2. SoundOn(d, Obj \ {x}) /\ d.obj = m.obj /\ d \in Memory
  BY ReleaseSound DEF Sound, SoundOn, Memory
<1>3. Beside(d, m, x)
  BY ReleaseBeside
<1> HIDE DEF d
<1>4. \A z \in Obj \ {x} : Held(d, z) = Held(m, z) /\ (Normal(m, z) => Normal(d, z))
  BY <1>3, BesideHeld
<1>5. Writable(d.obj[y]) /\ WellFormed(d.obj[y]) /\ Normal(d, y)
  BY <1>2, <1>4 DEF SoundOn
<1> QED BY <1>1, <1>2, <1>4, <1>5, TakeOverValue

\* A number that is moved to itself stays, or is lost.
LEMMA SelfMoveValue ==
  ASSUME NEW m, Sound(m), NEW x \in Obj, Writable(m.obj[x]), Normal(m, x)
  PROVE  /\ Beside(moveAssign(m, x, x), m, x)
         /\ Held(moveAssign(m, x, x), x) \in {Held(m, x), Unspecified}
         /\ Normal(moveAssign(m, x, x), x)
<1> DEFINE o == m.obj[x]
           h == Release(m.heap, o)
           d == [m EXCEPT !.heap = h]
           w == moveAssign(m, x, x)
<1>1. w = TakeOver(d, x, x)
  BY DEF moveAssign
<1>2. /\ d.obj = m.obj /\ d \in Memory /\ d.heap = h
      /\ o \in Object /\ o.alive /\ WellFormed(o)
  BY ReleaseSound, ObjectFacts DEF SoundOn, Memory, Writable
<1>3. Beside(d, m, x)
  BY ReleaseBeside
<1>4. o.m_internal => h = m.heap
  BY DEF Release, Owns
<1> HIDE DEF d, h
<1>5. CASE o.m_internal
  <2> DEFINE c == Content(d.heap, o)
             b == [limbs |-> c]
             q == [o EXCEPT !.m_data = b]
  <2>1. w = Put(d, x, q)
    BY <1>1, <1>2, <1>5 DEF TakeOver
  <2>2. b \in Buffer /\ b.limbs = c /\ (o.m_limbs # 0 => c = LimbsIn(m.heap, o))
    BY <1>2, <1>4, <1>5 DEF Content, LimbsIn, Buffer, Contents
  <2> HIDE DEF c, b
  <2>3. /\ q \in Object /\ q.m_data = b /\ q.alive /\ q.m_internal
        /\ q.m_limbs = o.m_limbs /\ q.m_sign = o.m_sign
    BY <1>2, <1>5, <2>2 DEF Object
  <2> HIDE DEF q, w
  <2>4. Beside(w, d, x) /\ w.obj[x] = q
    BY <1>2, <2>1, <2>3, PutBeside, PutEffect
  <2>5. o.m_limbs # 0 => LimbsIn(w.heap, w.obj[x]) = LimbsIn(m.heap, o)
    BY <2>2, <2>3, <2>4 DEF LimbsIn
  <2>6. Held(w, x) = Held(m, x) /\ Normal(w, x)
    BY <1>2, <2>3, <2>4, <2>5, SameHeld
  <2>7. Beside(w, m, x)
    BY <1>3, <2>4, BesideTransitive
  <2> QED BY <2>6, <2>7 DEF w
<1>6. CASE ~o.m_internal
  <2> DEFINE p == Put(d, x, o)
             q == [p.obj[x] EXCEPT !.m_limbs = 0, !.m_internal = TRUE]
  <2>1. w = Put(p, x, q)
    BY <1>1, <1>2, <1>6 DEF TakeOver
  <2>2. p \in Memory /\ p.obj[x] = o /\ Beside(p, d, x)
    BY <1>2, PutEffect, PutBeside
  <2> HIDE DEF p
  <2>3. q \in Object /\ q.alive /\ q.m_limbs = 0
    BY <1>2, <2>2 DEF Object
  <2> HIDE DEF q, w
  <2>4. Beside(w, p, x) /\ w.obj[x] = q
    BY <2>1, <2>2, <2>3, PutEffect, PutBeside
  <2>5. Held(w, x) = Unspecified /\ Normal(w, x)
    BY <2>3, <2>4, SizesAssumption DEF Held, NumberIn, Normal
  <2>6. Beside(w, m, x)
    BY <1>3, <2>2, <2>4, BesideTransitive
  <2> QED BY <2>5, <2>6 DEF w
<1> QED BY <1>5, <1>6

\* The zero that a string assignment leaves when it throws
ZeroNumber == <<Zero, FALSE>>

\* Zero is delivered as it is.
LEMMA ZeroDelivered == Delivered(Zero, FALSE) = ZeroNumber
<1>1. Len[Zero] <= MaxLimbs
  BY ValueAssumption, SizesAssumption
<1> QED BY <1>1, Zenon DEF Delivered, ZeroNumber

\* A string assignment ends with a number in the target, if only with zero.
LEMMA AssignStringValue ==
  ASSUME NEW m, Sound(m), ~m.threw, NEW x \in Obj, NEW t \in Obj \ {x},
         Writable(m.obj[x]), ~m.obj[t].alive, Normal(m, x),
         NEW v \in Value, NEW s \in BOOLEAN, NEW bad \in BOOLEAN,
         NEW w \in do_assign_string(m, x, t, v, s, bad)
  PROVE  /\ \A z \in Obj \ {x} : Held(w, z) = Held(m, z) /\ (Normal(m, z) => Normal(w, z))
         /\ Result(w, x)
         /\ w.threw => Held(w, x) = ZeroNumber
         /\ ~w.threw => ~bad /\ Held(w, x) = Delivered(v, s)
<1>1. PICK z \in store(m, x, 1, Zero, FALSE) :
        \E u \in store(Put(z, t, Default), t, Len[v], v, s) :
          w = destroy(IF u.threw \/ bad THEN Throw(u) ELSE do_swap(u, t, x), t)
  BY DEF do_assign_string
<1>2. PICK u \in store(Put(z, t, Default), t, Len[v], v, s) :
        w = destroy(IF u.threw \/ bad THEN Throw(u) ELSE do_swap(u, t, x), t)
  BY <1>1
<1>3. ~z.threw
  BY <1>1, StoreZeroSucceeds
<1>4. /\ Keeps(z, m, x) /\ Beside(z, m, x) /\ Result(z, x)
      /\ Held(z, x) = ZeroNumber
  <2>1. Zero \in Value /\ 1 \in Nat /\ 1 >= Len[Zero]
    BY ValueAssumption
  <2>2. ASSUME NEW b \in BOOLEAN, z \in store(m, x, 1, Zero, b)
        PROVE  /\ Keeps(z, m, x) /\ Beside(z, m, x) /\ Result(z, x)
               /\ Held(z, x) = Delivered(Zero, b)
    BY <1>3, <2>1, <2>2, StoreSound, StoreValue
  <2> QED BY <1>1, <2>2, ZeroDelivered, Zenon
<1> DEFINE e == Put(z, t, Default)
<1>5. Default \in Object /\ WellFormed(Default) /\ ~Owns(Default) /\ Writable(Default)
  BY ValueAssumption, SizesAssumption
  DEF Default, Object, Buffer, Contents, WellFormed, Owns, Writable, capacity
<1>6. /\ Sound(e) /\ ~e.threw /\ Writable(e.obj[t]) /\ Writable(e.obj[x])
      /\ Beside(e, z, t)
  <2>1. z \in Memory /\ ~Owns(z.obj[t]) /\ Sound(z) /\ Writable(z.obj[x])
    BY <1>4, ObjectFacts DEF Keeps, Owns
  <2> QED BY <1>3, <1>5, <2>1, PutSound, PutEffect, PutBeside
<1> HIDE DEF e
<1>7. /\ Keeps(u, e, t) /\ Beside(u, e, t)
      /\ ~u.threw => Result(u, t) /\ Held(u, t) = Delivered(v, s)
  <2>1. Len[v] \in Nat /\ Len[v] >= Len[v]
    BY LenType
  <2> QED BY <1>2, <1>6, <2>1, StoreSound, StoreValue DEF e
<1>8. Beside(u, z, t) /\ Sound(u) /\ Writable(u.obj[t]) /\ Writable(u.obj[x])
  BY <1>6, <1>7, BesideTransitive DEF Keeps
<1>9. Held(u, x) = ZeroNumber /\ Normal(u, x) /\ Result(u, x)
  BY <1>4, <1>8, BesideHeld DEF Result
<1> DEFINE r == IF u.threw \/ bad THEN Throw(u) ELSE do_swap(u, t, x)
<1>10. /\ Sound(r) /\ Result(r, x) /\ r \in Memory /\ (bad => r.threw)
       /\ Held(r, x) = IF r.threw THEN ZeroNumber ELSE Delivered(v, s)
       /\ \A y \in Obj \ {x, t} : Held(r, y) = Held(u, y) /\ (Normal(u, y) => Normal(r, y))
  <2>1. CASE u.threw \/ bad
    <3>1. r.obj = u.obj /\ r.heap = u.heap /\ r.threw /\ Sound(r)
      BY <1>8, <2>1, ThrowSound, ObjectFacts DEF Throw, Memory
    <3>2. \A y : Held(r, y) = Held(u, y) /\ (Normal(u, y) => Normal(r, y))
      BY <3>1, Zenon DEF Held, NumberIn, Normal
    <3>3. Result(r, x)
      BY <1>9, <3>2 DEF Result
    <3>4. Held(r, x) = ZeroNumber
      BY <1>9, <3>2
    <3> QED BY <3>1, <3>2, <3>3, <3>4, ObjectFacts
  <2>2. CASE ~(u.threw \/ bad)
    <3>1. r = do_swap(u, t, x)
      BY <2>2
    <3>2. /\ Result(u, t) /\ Normal(u, t) /\ Normal(u, x)
          /\ Held(u, t) = Delivered(v, s)
      BY <1>7, <1>9, <2>2 DEF Result
    <3> HIDE DEF r
    <3>3. ~r.threw
      BY <1>8, <2>2, <3>1, ObjectFacts DEF do_swap, Memory
    <3>4. Sound(r) /\ r \in Memory
      BY <1>8, <3>1, SwapSound, ObjectFacts
    <3> QED BY <1>8, <2>2, <3>1, <3>2, <3>3, <3>4, SwapValue DEF Result
  <2> QED BY <2>1, <2>2
<1>11. w = destroy(r, t)
  BY <1>2
<1> HIDE DEF r
<1>12. Beside(w, r, t) /\ Held(w, t) = NoNumber /\ Normal(w, t)
  BY <1>10, <1>11, DestroyValue
<1>13. Result(w, x) /\ Held(w, x) = Held(r, x) /\ w.threw = r.threw
  <2>1. w.threw = r.threw
    BY <1>10, <1>11 DEF destroy, Memory
  <2> QED BY <1>10, <1>12, <2>1, BesideHeld DEF Result
<1>14. \A y \in Obj \ {x, t} : Held(w, y) = Held(m, y) /\ (Normal(m, y) => Normal(w, y))
  BY <1>4, <1>8, <1>10, <1>12, BesideHeld
<1>15. Held(m, t) = NoNumber
  BY DEF Held, NumberIn
<1> QED BY <1>10, <1>12, <1>13, <1>14, <1>15

\* A product into one of its operands delivers its result, or leaves the operand alone.
LEMMA ComputeFromCopyValue ==
  ASSUME NEW m, Sound(m), ~m.threw, NEW x \in Obj, NEW t \in Obj \ {x},
         Writable(m.obj[x]), ~m.obj[t].alive, Normal(m, x),
         NEW v \in Value, NEW s \in BOOLEAN, NEW w \in computeFromCopy(m, x, t, v, s)
  PROVE  /\ \A z \in Obj \ {x} : Held(w, z) = Held(m, z) /\ (Normal(m, z) => Normal(w, z))
         /\ Normal(w, x)
         /\ IF w.threw THEN Held(w, x) = Held(m, x)
            ELSE Result(w, x) /\ Held(w, x) = Delivered(v, s)
<1>1. PICK c \in copyConstruct(m, t, x) :
        w \in IF c.threw THEN {c}
              ELSE {destroy(u, t) : u \in UNION {store(c, x, n, v, s) : n \in Room(v)}}
  BY DEF computeFromCopy
<1>2. Sound(c) /\ c.obj[x] = m.obj[x] /\ m.obj[x].alive
  BY <1>1, CopyConstructSound DEF Constructs, Writable
<1>3. Beside(c, m, t) /\ (c.threw => Unchanged(c, m))
  BY <1>1, <1>2, CopyConstructValue
<1>4. CASE c.threw
  <2>1. w = c
    BY <1>1, <1>4
  <2>2. \A z : Held(w, z) = Held(m, z) /\ (Normal(m, z) => Normal(w, z))
    BY <1>3, <1>4, <2>1 DEF Unchanged, Held, NumberIn, Normal
  <2> QED BY <1>4, <2>1, <2>2
<1>5. CASE ~c.threw
  <2>0. PICK n \in Room(v) : \E u \in store(c, x, n, v, s) : w = destroy(u, t)
    BY <1>1, <1>5
  <2>1. PICK u \in store(c, x, n, v, s) : w = destroy(u, t)
    BY <2>0
  <2>2. /\ Keeps(u, c, x) /\ Beside(u, c, x)
        /\ IF u.threw THEN Unchanged(u, c)
           ELSE Result(u, x) /\ Held(u, x) = Delivered(v, s)
    BY <1>2, <1>5, <2>1, RoomType, StoreSound, StoreValue
  <2>3. Beside(w, u, t) /\ Held(w, t) = NoNumber /\ Normal(w, t)
    BY <2>1, <2>2, DestroyValue DEF Keeps
  <2>4. w.threw = u.threw
    BY <2>1, <2>2, ObjectFacts DEF destroy, Memory, Keeps
  <2>5. Held(w, x) = Held(u, x) /\ (Normal(u, x) => Normal(w, x))
    BY <2>3, BesideHeld
  <2>6. \A z \in Obj \ {x, t} : Held(w, z) = Held(m, z) /\ (Normal(m, z) => Normal(w, z))
    BY <1>3, <2>2, <2>3, BesideHeld
  <2>7. Held(m, t) = NoNumber
    BY DEF Held, NumberIn
  <2>8. CASE u.threw
    <3>1. Held(u, x) = Held(c, x) /\ (Normal(c, x) => Normal(u, x))
      BY <2>2, <2>8 DEF Unchanged, Held, NumberIn, Normal
    <3>2. Held(c, x) = Held(m, x) /\ Normal(c, x)
      BY <1>3, BesideHeld
    <3> QED BY <2>3, <2>4, <2>5, <2>6, <2>7, <2>8, <3>1, <3>2
  <2>9. CASE ~u.threw
    BY <2>2, <2>3, <2>4, <2>5, <2>6, <2>7, <2>9 DEF Result
  <2> QED BY <2>8, <2>9
<1> QED BY <1>4, <1>5

----------------------------------------------------------------------------
(* Steps. *)

\* The invariant: memory is sound and every number in normal form.
NInv == IInv /\ \A x \in Obj : Normal(Now, x)

Others(m, S) == \A z \in Obj \ S : Held(m, z) = Held(Now, z)

\* What a call may do to the numbers: the actions of NumberValues
Allowed(m) ==
  \/ Others(m, {})
  \/ \E x \in Obj : Others(m, {x}) /\ Result(m, x)
  \/ \E x \in Live : Others(m, {x}) /\ Held(m, x) \in {Unspecified, NoNumber}
  \/ \E x \in Obj, y \in Live : Others(m, {x}) /\ Held(m, x) = Held(Now, y)
  \/ \E x \in Obj, y \in Live :
       /\ x # y /\ Others(m, {x, y})
       /\ Held(m, x) = Held(Now, y) /\ Held(m, y) \in {Held(Now, y), Unspecified}
  \/ \E x \in Live, y \in Live :
       Others(m, {x, y}) /\ Held(m, x) = Held(Now, y) /\ Held(m, y) = Held(Now, x)

Refines(m) == Allowed(m) /\ \A z \in Obj : Normal(m, z)

\* Held is Number, of the variables before a step.
LEMMA NumberHeld ==
  ASSUME NEW x \in Obj
  PROVE  Number(x) = Held(Now, x)
BY DEF Number, Held, Now, Mem

\* When a call ends in m, Number is what m holds.
LEMMA NumberHeldAfter ==
  ASSUME NEW x \in Obj, NEW m, Become(m)
  PROVE  Number(x)' = Held(m, x)
BY DEF Number, Held, NumberIn, Become, LimbsIn

\* An object that is alive is a number, or unspecified.
LEMMA LiveExists ==
  ASSUME IInv, NEW x \in Live
  PROVE  x \in Obj /\ Number(x) # NoNumber
<1>1. x \in Obj /\ obj[x].alive /\ obj[x].m_sign \in BOOLEAN
  BY DEF Live, IInv, Sound, SoundOn, Memory, Now, Mem, Object
<1>2. Number(x) \in {<<LimbsIn(heap, obj[x]), obj[x].m_sign>>, Unspecified}
      /\ (LimbsIn(heap, obj[x]) \notin Value => Number(x) = Unspecified)
  BY <1>1 DEF Number, NumberIn
<1> QED BY <1>1, <1>2, NumberAssumption

\* Each of the allowed changes is a step of NumberValues, or none.
LEMMA AllowedSteps ==
  ASSUME IInv, NEW m, Become(m), Allowed(m)
  PROVE  [Numbers!Next]_[x \in Obj |-> Number(x)]
<1> DEFINE val == [x \in Obj |-> Number(x)]
           new == [x \in Obj |-> Held(m, x)]
<1>1. val' = new
  BY NumberHeldAfter
<1>2. \A z \in Obj : val[z] = Held(Now, z) /\ new[z] = Held(m, z)
  BY NumberHeld
<1>3. \A z \in Live : z \in Obj /\ val[z] # NoNumber
  BY LiveExists
<1>4. CASE Others(m, {})
  <2>1. new = val
    BY <1>2, <1>4 DEF Others
  <2> QED BY <1>1, <2>1
<1>5. ASSUME NEW x \in Obj, Others(m, {x})
      PROVE  new = [val EXCEPT ![x] = new[x]]
  BY <1>2, <1>5 DEF Others
<1>6. ASSUME NEW x \in Obj, Others(m, {x}), Result(m, x)
      PROVE  Numbers!Next
  <2>1. PICK v \in Value, s \in BOOLEAN : (v = Zero => ~s) /\ Held(m, x) = <<v, s>>
    BY <1>6 DEF Result
  <2>2. new[x] \in Numbers!Results
    BY <1>2, <2>1 DEF Numbers!Results
  <2>3. Numbers!Assigned(x)
    BY <1>1, <1>5, <1>6, <2>2 DEF Numbers!Assigned, Numbers!Set
  <2> QED BY <2>3 DEF Numbers!Next
<1>7. ASSUME NEW x \in Live, Others(m, {x}), Held(m, x) \in {Unspecified, NoNumber}
      PROVE  Numbers!Next
  <2>1. new[x] \in {Unspecified, NoNumber} /\ x \in Obj /\ val[x] # NoNumber
    BY <1>2, <1>3, <1>7
  <2>2. Numbers!Lose(x) \/ Numbers!Destroy(x)
    BY <1>1, <1>5, <1>7, <2>1 DEF Numbers!Lose, Numbers!Destroy, Numbers!Exists, Numbers!Set
  <2> QED BY <2>1, <2>2 DEF Numbers!Next
<1>8. ASSUME NEW x \in Obj, NEW y \in Live, Others(m, {x}), Held(m, x) = Held(Now, y)
      PROVE  Numbers!Next
  <2>1. y \in Obj /\ val[y] # NoNumber /\ new[x] = val[y]
    BY <1>2, <1>3, <1>8
  <2>2. Numbers!Copy(x, y)
    BY <1>1, <1>5, <1>8, <2>1 DEF Numbers!Copy, Numbers!Exists, Numbers!Set
  <2> QED BY <2>1, <2>2 DEF Numbers!Next
<1>9. ASSUME NEW x \in Obj, NEW y \in Live, x # y, Others(m, {x, y}),
             Held(m, x) = Held(Now, y), Held(m, y) \in {Held(Now, y), Unspecified}
      PROVE  Numbers!Next
  <2>1. /\ y \in Obj /\ val[y] # NoNumber /\ new[x] = val[y]
        /\ new[y] \in {val[y], Unspecified}
    BY <1>2, <1>3, <1>9
  <2>2. new = [val EXCEPT ![x] = val[y], ![y] = new[y]]
    BY <1>2, <1>9, <2>1 DEF Others
  <2>3. Numbers!Move(x, y)
    BY <1>1, <1>9, <2>1, <2>2 DEF Numbers!Move, Numbers!Exists
  <2> QED BY <2>1, <2>3 DEF Numbers!Next
<1>10. ASSUME NEW x \in Live, NEW y \in Live, Others(m, {x, y}),
              Held(m, x) = Held(Now, y), Held(m, y) = Held(Now, x)
       PROVE  Numbers!Next
  <2>1. /\ x \in Obj /\ y \in Obj /\ val[x] # NoNumber /\ val[y] # NoNumber
        /\ new[x] = val[y] /\ new[y] = val[x]
    BY <1>2, <1>3, <1>10
  <2>2. new = [val EXCEPT ![x] = val[y], ![y] = val[x]]
    BY <1>2, <1>10, <2>1 DEF Others
  <2>3. Numbers!Swap(x, y)
    BY <1>1, <2>1, <2>2 DEF Numbers!Swap, Numbers!Exists
  <2> QED BY <2>1, <2>3 DEF Numbers!Next
<1> QED BY <1>4, <1>6, <1>7, <1>8, <1>9, <1>10 DEF Allowed

\* Facts about the objects that a step names
LEMMA NowValues ==
  ASSUME NInv
  PROVE  /\ Sound(Now) /\ ~Now.threw /\ \A x \in Obj : Normal(Now, x)
         /\ \A x \in Live : x \in Obj /\ Now.obj[x].alive
         /\ \A x \in Targets : x \in Live /\ Writable(Now.obj[x])
         /\ \A x \in Unused : /\ x \in Obj /\ ~Now.obj[x].alive /\ x \notin Live
                              /\ Held(Now, x) = NoNumber
BY NowFacts DEF NInv, Held, NumberIn

\* A call that changes at most x
LEMMA RefinesBeside ==
  ASSUME NInv, NEW x \in Obj, NEW m, Beside(m, Now, x), Normal(m, x)
  PROVE  Others(m, {x}) /\ \A z \in Obj : Normal(m, z)
BY BesideHeld, NowValues DEF Others

\* A call that changes nothing
LEMMA RefinesUnchanged ==
  ASSUME NInv, NEW m, Unchanged(m, Now)
  PROVE  Refines(m)
<1>1. \A z \in Obj : Held(m, z) = Held(Now, z) /\ (Normal(Now, z) => Normal(m, z))
  BY DEF Unchanged, Held, NumberIn, Normal
<1> QED BY <1>1, NowValues DEF Refines, Allowed, Others

\* A call that leaves a result in x
LEMMA RefinesResult ==
  ASSUME NInv, NEW x \in Obj, NEW m, Beside(m, Now, x), Result(m, x)
  PROVE  Refines(m)
BY RefinesBeside DEF Refines, Allowed, Result

\* Constructors
LEMMA CreateRefines ==
  ASSUME NInv, Create
  PROVE  \E m : Become(m) /\ Refines(m)
<1> SUFFICES ASSUME NEW x \in Unused,
                    \/ \E v \in Value, s \in BOOLEAN : Construct(x, v, s)
                    \/ ConstructAlias(x)
                    \/ \E y \in Live : CopyConstruct(x, y)
                    \/ \E y \in Targets : MoveConstruct(x, y)
             PROVE  \E m : Become(m) /\ Refines(m)
  BY DEF Create
<1>1. /\ Sound(Now) /\ ~Now.threw /\ x \in Obj /\ ~Now.obj[x].alive /\ x \notin Live
      /\ Now \in Memory
  BY NowValues, ObjectFacts
<1>2. ASSUME NEW v \in Value, NEW s \in BOOLEAN, Construct(x, v, s)
      PROVE  \E m : Become(m) /\ Refines(m)
  <2> DEFINE n == s /\ v # Zero
             d == [limbs |-> v]
             r == [Default EXCEPT !.m_limbs = Len[v], !.m_sign = n, !.m_data = d]
             m == Put(Now, x, r)
  <2>1. /\ d \in Buffer /\ d.limbs = v /\ n \in BOOLEAN /\ (v = Zero => ~n)
        /\ Len[v] \in Nat /\ Len[v] # 0 /\ Len[v] <= MaxLimbs
    <3>1. Len[v] <= 2
      BY <1>2 DEF Construct
    <3>2. Len[v] <= MaxLimbs /\ Len[v] \in Nat /\ Len[v] # 0
      BY <3>1, LenType, SizesAssumption
    <3>3. d \in Buffer
      BY DEF Buffer, Contents
    <3> QED BY <3>2, <3>3
  <2>2. Become(m)
    BY <1>2 DEF Construct
  <2> HIDE DEF d, n
  <2>3. /\ r \in Object /\ r.m_internal /\ r.m_data = d /\ r.alive
        /\ r.m_limbs = Len[v] /\ r.m_sign = n
    BY <2>1 DEF Object, Default
  <2> HIDE DEF r
  <2>4. m.obj[x] = r /\ Beside(m, Now, x)
    BY <1>1, <2>3, PutEffect, PutBeside
  <2> HIDE DEF m
  <2>5. LimbsIn(m.heap, m.obj[x]) = v
    BY <2>1, <2>3, <2>4 DEF LimbsIn
  <2>6. Result(m, x)
    BY <2>1, <2>3, <2>4, <2>5 DEF Result, Normal, Held, NumberIn
  <2> QED BY <1>1, <2>2, <2>4, <2>6, RefinesResult
<1>3. ASSUME ConstructAlias(x)
      PROVE  \E m : Become(m) /\ Refines(m)
  <2> DEFINE d == [data |-> Lit, capacity |-> Len[LitValue]]
             r == [Default EXCEPT !.m_limbs = Len[LitValue], !.m_internal = FALSE,
                                  !.m_alias = TRUE, !.m_data = d]
             m == Put(Now, x, r)
  <2>1. /\ LitValue \in Value /\ Len[LitValue] \in Nat /\ Len[LitValue] # 0
        /\ Len[LitValue] <= MaxLimbs
    BY ValueAssumption
  <2>2. d \in Pointer /\ d.data = Lit
    BY <2>1 DEF Pointer
  <2>3. Become(m)
    BY <1>3 DEF ConstructAlias
  <2> HIDE DEF d
  <2>4. /\ r \in Object /\ ~r.m_internal /\ r.m_data = d /\ r.alive
        /\ r.m_limbs = Len[LitValue] /\ ~r.m_sign /\ r.m_sign \in BOOLEAN
    BY <2>1, <2>2 DEF Object, Default
  <2> HIDE DEF r
  <2>5. m.obj[x] = r /\ Beside(m, Now, x)
    BY <1>1, <2>4, PutEffect, PutBeside
  <2> HIDE DEF m
  <2>6. LimbsIn(m.heap, m.obj[x]) = LitValue
    BY <2>2, <2>4, <2>5 DEF LimbsIn
  <2>7. Result(m, x)
    BY <2>1, <2>4, <2>5, <2>6 DEF Result, Normal, Held, NumberIn
  <2> QED BY <1>1, <2>3, <2>5, <2>7, RefinesResult
<1>4. ASSUME NEW y \in Live, CopyConstruct(x, y)
      PROVE  \E m : Become(m) /\ Refines(m)
  <2>1. PICK m \in copyConstruct(Now, x, y) : Become(m)
    BY <1>4 DEF CopyConstruct
  <2>2. y \in Obj \ {x} /\ Now.obj[y].alive /\ Normal(Now, y)
    BY <1>1, NowValues
  <2>3. /\ Beside(m, Now, x)
        /\ IF m.threw THEN Unchanged(m, Now)
           ELSE Held(m, x) = Held(Now, y) /\ Normal(m, x)
    BY <1>1, <2>1, <2>2, CopyConstructValue
  <2>4. CASE m.threw
    BY <2>1, <2>3, <2>4, RefinesUnchanged
  <2>5. CASE ~m.threw
    BY <1>1, <2>1, <2>3, <2>5, RefinesBeside DEF Refines, Allowed
  <2> QED BY <2>4, <2>5
<1>5. ASSUME NEW y \in Targets, MoveConstruct(x, y)
      PROVE  \E m : Become(m) /\ Refines(m)
  <2> DEFINE m == TakeOver(Now, x, y)
  <2>1. /\ y \in Obj \ {x} /\ y \in Live /\ Writable(Now.obj[y])
        /\ WellFormed(Now.obj[y]) /\ Normal(Now, y)
    BY <1>1, NowValues, ObjectFacts
  <2>2. /\ \A z \in Obj \ {x, y} : Held(m, z) = Held(Now, z) /\ (Normal(Now, z) => Normal(m, z))
        /\ Held(m, x) = Held(Now, y) /\ Normal(m, x)
        /\ Held(m, y) \in {Held(Now, y), Unspecified} /\ Normal(m, y)
    BY <1>1, <2>1, TakeOverValue
  <2>3. Become(m)
    BY <1>5 DEF MoveConstruct
  <2> HIDE DEF m
  <2>4. Others(m, {x, y}) /\ \A z \in Obj : Normal(m, z)
    BY <2>2, NowValues DEF Others
  <2>5. x # y /\ x \in Obj
    BY <1>1, <2>1
  <2> QED BY <2>1, <2>2, <2>3, <2>4, <2>5 DEF Refines, Allowed
<1> QED BY <1>2, <1>3, <1>4, <1>5

\* A product into one of its operands is computed from a copy, which is gone when the
\* call returns.
LEMMA ComputeFromCopyRefines ==
  ASSUME NInv, NEW x \in Targets, NEW t \in Unused, NEW v \in Value, NEW s \in BOOLEAN,
         ComputeFromCopy(x, t, v, s)
  PROVE  \E m : Become(m) /\ Refines(m)
<1>1. PICK m \in computeFromCopy(Now, x, t, v, s) : Become(m)
  BY DEF ComputeFromCopy
<1>2. /\ Sound(Now) /\ ~Now.threw /\ x \in Obj /\ Writable(Now.obj[x]) /\ Normal(Now, x)
      /\ t \in Obj \ {x} /\ ~Now.obj[t].alive
  BY NowValues
<1>3. /\ \A z \in Obj \ {x} : Held(m, z) = Held(Now, z) /\ (Normal(Now, z) => Normal(m, z))
      /\ Normal(m, x)
      /\ Held(m, x) = Held(Now, x) \/ Result(m, x)
  BY <1>1, <1>2, ComputeFromCopyValue
<1>4. Others(m, {x}) /\ \A z \in Obj : Normal(m, z)
  BY <1>3, NowValues DEF Others
<1>5. CASE Held(m, x) = Held(Now, x)
  <2>1. Others(m, {})
    BY <1>4, <1>5 DEF Others
  <2> QED BY <1>1, <1>4, <2>1 DEF Refines, Allowed
<1>6. CASE Result(m, x)
  BY <1>1, <1>2, <1>4, <1>6 DEF Refines, Allowed
<1> QED BY <1>3, <1>5, <1>6

\* Member functions called on a live object
LEMMA UpdateRefines ==
  ASSUME NInv, Update
  PROVE  \E m : Become(m) /\ Refines(m)
<1> SUFFICES ASSUME NEW x \in Targets,
                    \/ \E y \in Live : Assign(x, y)
                    \/ \E y \in Targets : MoveAssign(x, y)
                    \/ \E y \in Targets : Swap(x, y)
                    \/ \E v \in Value, s \in BOOLEAN :
                         Compute(x, v, s) \/ ComputeWithCarry(x, v, s)
                    \/ \E t \in Unused, v \in Value, s \in BOOLEAN :
                         \/ ComputeFromCopy(x, t, v, s)
                         \/ \E bad \in BOOLEAN : AssignString(x, t, v, s, bad)
             PROVE  \E m : Become(m) /\ Refines(m)
  BY DEF Update
<1>1. /\ Sound(Now) /\ ~Now.threw /\ x \in Obj /\ Writable(Now.obj[x]) /\ x \in Live
      /\ Normal(Now, x)
  BY NowValues
<1>2. ASSUME NEW y \in Live, Assign(x, y)
      PROVE  \E m : Become(m) /\ Refines(m)
  <2>1. PICK m \in assign(Now, x, y) : Become(m)
    BY <1>2 DEF Assign
  <2>2. CASE x = y
    <3>1. Unchanged(m, Now)
      BY <2>1, <2>2 DEF assign, Unchanged
    <3> QED BY <2>1, <3>1, RefinesUnchanged
  <2>3. CASE x # y
    <3>1. y \in Obj \ {x} /\ Now.obj[y].alive /\ Normal(Now, y)
      BY <1>1, <2>3, NowValues
    <3>2. /\ Beside(m, Now, x) /\ Normal(m, x)
          /\ Held(m, x) \in {Held(Now, y), Unspecified}
      BY <1>1, <2>1, <3>1, AssignValue
    <3>3. Others(m, {x}) /\ \A z \in Obj : Normal(m, z)
      BY <1>1, <3>2, RefinesBeside
    <3>4. CASE Held(m, x) = Held(Now, y)
      BY <1>1, <2>1, <3>3, <3>4 DEF Refines, Allowed
    <3>5. CASE Held(m, x) = Unspecified
      BY <1>1, <2>1, <3>3, <3>5 DEF Refines, Allowed
    <3> QED BY <3>2, <3>4, <3>5
  <2> QED BY <2>2, <2>3
<1>3. ASSUME NEW y \in Targets, MoveAssign(x, y)
      PROVE  \E m : Become(m) /\ Refines(m)
  <2> DEFINE m == moveAssign(Now, x, y)
  <2>1. Become(m)
    BY <1>3 DEF MoveAssign
  <2>2. y \in Obj /\ y \in Live /\ Writable(Now.obj[y]) /\ Normal(Now, y)
    BY NowValues
  <2>3. CASE x = y
    <3>1. /\ Beside(m, Now, x) /\ Normal(m, x)
          /\ Held(m, x) \in {Held(Now, x), Unspecified}
      BY <1>1, <2>3, SelfMoveValue
    <3> HIDE DEF m
    <3>2. Others(m, {x}) /\ \A z \in Obj : Normal(m, z)
      BY <1>1, <3>1, RefinesBeside
    <3>3. CASE Held(m, x) = Held(Now, x)
      BY <1>1, <2>1, <3>2, <3>3 DEF Refines, Allowed
    <3>4. CASE Held(m, x) = Unspecified
      BY <1>1, <2>1, <3>2, <3>4 DEF Refines, Allowed
    <3> QED BY <3>1, <3>3, <3>4
  <2>4. CASE x # y
    <3>1. /\ \A z \in Obj \ {x, y} : Held(m, z) = Held(Now, z) /\ (Normal(Now, z) => Normal(m, z))
          /\ Held(m, x) = Held(Now, y) /\ Normal(m, x)
          /\ Held(m, y) \in {Held(Now, y), Unspecified} /\ Normal(m, y)
      BY <1>1, <2>2, <2>4, MoveAssignValue
    <3> HIDE DEF m
    <3>2. Others(m, {x, y}) /\ \A z \in Obj : Normal(m, z)
      BY <3>1, NowValues DEF Others
    <3> QED BY <1>1, <2>1, <2>2, <2>4, <3>1, <3>2 DEF Refines, Allowed
  <2> QED BY <2>3, <2>4
<1>4. ASSUME NEW y \in Targets, Swap(x, y)
      PROVE  \E m : Become(m) /\ Refines(m)
  <2> DEFINE m == do_swap(Now, x, y)
  <2>1. Become(m)
    BY <1>4 DEF Swap
  <2>2. y \in Obj /\ y \in Live /\ Writable(Now.obj[y]) /\ Normal(Now, y)
    BY NowValues
  <2>3. /\ \A z \in Obj \ {x, y} : Held(m, z) = Held(Now, z) /\ (Normal(Now, z) => Normal(m, z))
        /\ Held(m, x) = Held(Now, y) /\ Normal(m, x)
        /\ Held(m, y) = Held(Now, x) /\ Normal(m, y)
    BY <1>1, <2>2, SwapValue
  <2> HIDE DEF m
  <2>4. Others(m, {x, y}) /\ \A z \in Obj : Normal(m, z)
    BY <2>3, NowValues DEF Others
  <2> QED BY <1>1, <2>1, <2>2, <2>3, <2>4 DEF Refines, Allowed
<1>5. ASSUME NEW v \in Value, NEW s \in BOOLEAN, Compute(x, v, s)
      PROVE  \E m : Become(m) /\ Refines(m)
  <2>1. PICK n \in Room(v) : \E m \in store(Now, x, n, v, s) : Become(m)
    BY <1>5 DEF Compute
  <2>2. PICK m \in store(Now, x, n, v, s) : Become(m)
    BY <2>1
  <2>3. Beside(m, Now, x) /\ IF m.threw THEN Unchanged(m, Now) ELSE Result(m, x)
    BY <1>1, <2>2, RoomType, StoreValue
  <2> QED BY <1>1, <2>2, <2>3, RefinesUnchanged, RefinesResult
<1>6. ASSUME NEW v \in Value, NEW s \in BOOLEAN, ComputeWithCarry(x, v, s)
      PROVE  \E m : Become(m) /\ Refines(m)
  <2>1. PICK m \in storeWithCarry(Now, x, v, s) : Become(m)
    BY <1>6 DEF ComputeWithCarry
  <2>2. /\ Beside(m, Now, x)
        /\ \/ Unchanged(m, Now)
           \/ Held(m, x) = Unspecified /\ Normal(m, x)
           \/ Result(m, x)
    BY <1>1, <2>1, StoreWithCarryValue
  <2>3. CASE Held(m, x) = Unspecified /\ Normal(m, x)
    BY <1>1, <2>1, <2>2, <2>3, RefinesBeside DEF Refines, Allowed
  <2> QED BY <1>1, <2>1, <2>2, <2>3, RefinesUnchanged, RefinesResult
<1>7. ASSUME NEW t \in Unused, NEW v \in Value, NEW s \in BOOLEAN, NEW bad \in BOOLEAN,
             AssignString(x, t, v, s, bad)
      PROVE  \E m : Become(m) /\ Refines(m)
  <2>1. PICK m \in do_assign_string(Now, x, t, v, s, bad) : Become(m)
    BY <1>7 DEF AssignString
  <2>2. t \in Obj \ {x} /\ ~Now.obj[t].alive
    BY <1>1, NowValues
  <2>3. /\ \A z \in Obj \ {x} : Held(m, z) = Held(Now, z) /\ (Normal(Now, z) => Normal(m, z))
        /\ Result(m, x)
    BY <1>1, <2>1, <2>2, AssignStringValue
  <2>4. Others(m, {x}) /\ \A z \in Obj : Normal(m, z)
    BY <2>3, NowValues DEF Others, Result
  <2> QED BY <1>1, <2>1, <2>3, <2>4 DEF Refines, Allowed
<1> QED BY <1>2, <1>3, <1>4, <1>5, <1>6, <1>7, ComputeFromCopyRefines

\* Every step of the storage is a step of the numbers, and keeps them in normal form.
LEMMA NextRefines ==
  NInv /\ [Next]_vars => NInv' /\ [Numbers!Next]_[x \in Obj |-> Number(x)]
<1> SUFFICES ASSUME NInv, [Next]_vars
             PROVE  NInv' /\ [Numbers!Next]_[x \in Obj |-> Number(x)]
  OBVIOUS
<1>1. IInv'
  BY NextSound DEF NInv
<1>2. ASSUME NEW m, Become(m), Refines(m)
      PROVE  NInv' /\ [Numbers!Next]_[x \in Obj |-> Number(x)]
  <2>1. \A x \in Obj : Normal(Now, x)'
    BY <1>2 DEF Refines, Normal, Now, Mem, Become, LimbsIn
  <2>2. NInv'
    BY <1>1, <2>1 DEF NInv
  <2> QED BY <1>2, <2>2, AllowedSteps DEF Refines, NInv
<1>3. CASE Create
  BY <1>2, <1>3, CreateRefines
<1>4. CASE Update
  BY <1>2, <1>4, UpdateRefines
<1>5. ASSUME NEW x \in Live, Destroy(x)
      PROVE  NInv' /\ [Numbers!Next]_[z \in Obj |-> Number(z)]
  <2> DEFINE m == destroy(Now, x)
  <2>1. Become(m) /\ x \in Obj
    BY <1>5, NowValues DEF Destroy
  <2>2. Beside(m, Now, x) /\ Held(m, x) = NoNumber /\ Normal(m, x)
    BY <2>1, NowValues, DestroyValue
  <2> HIDE DEF m
  <2>3. Refines(m)
    BY <2>1, <2>2, RefinesBeside DEF Refines, Allowed
  <2> QED BY <1>2, <2>1, <2>3
<1>6. CASE UNCHANGED vars
  <2>1. obj' = obj /\ heap' = heap /\ Now' = Now
    BY <1>6 DEF vars, Now, Mem
  <2>2. NInv'
    BY <1>1, <2>1 DEF NInv, Normal, LimbsIn
  <2>3. [x \in Obj |-> Number(x)]' = [x \in Obj |-> Number(x)]
    BY <2>1 DEF Number, NumberIn, LimbsIn
  <2> QED BY <2>2, <2>3
<1> QED BY <1>3, <1>4, <1>5, <1>6 DEF Next

\* At the start there are no objects, and no numbers.
LEMMA InitRefines == Init => NInv /\ Numbers!Init
<1> SUFFICES ASSUME Init PROVE NInv /\ Numbers!Init
  OBVIOUS
<1>1. \A x \in Obj : obj[x] = Dead /\ ~obj[x].alive
  BY DEF Init, Dead, Default
<1>2. NInv
  BY <1>1, InitSound DEF NInv, Normal, Now, Mem
<1>3. Numbers!Init
  BY <1>1 DEF Numbers!Init, Number, NumberIn
<1> QED BY <1>2, <1>3

\* Each call leaves the numbers it should, from every state that satisfies the invariant.
LEMMA DeliversNow == NInv => CallsDeliver
<1> SUFFICES ASSUME NInv PROVE CallsDeliver
  OBVIOUS
<1>1. /\ Sound(Now) /\ ~Now.threw /\ Now \in Memory
      /\ \A x \in Obj : Normal(Now, x) /\ Number(x) = Held(Now, x)
  BY NowValues, NumberHeld, ObjectFacts DEF Sound, SoundOn
<1>2. /\ \A x \in Live : x \in Obj /\ Now.obj[x].alive
      /\ \A x \in Targets : x \in Live /\ Writable(Now.obj[x])
      /\ \A x \in Unused : /\ x \in Obj /\ ~Now.obj[x].alive /\ x \notin Live
                            /\ Number(x) = NoNumber
  BY <1>1, NowValues
<1>3. ASSUME NEW x \in Obj, NEW m, Beside(m, Now, x)
      PROVE  Leaves(m, x, Held(m, x))
  BY <1>1, <1>3, BesideHeld DEF Leaves
<1>4. ASSUME NEW m, Unchanged(m, Now)
      PROVE  \A z \in Obj : Held(m, z) = Number(z)
  <2>1. \A z \in Obj : Held(m, z) = Held(Now, z)
    BY <1>4 DEF Unchanged, Held, NumberIn
  <2> QED BY <1>1, <2>1
<1>5. CopiesDeliver
  <2>1. ASSUME NEW y \in Live, NEW x \in Unused, NEW m \in copyConstruct(Now, x, y)
        PROVE  Leaves(m, x, IF m.threw THEN NoNumber ELSE Number(y))
    <3>1. x \in Obj /\ y \in Obj \ {x}
      BY <1>2
    <3>2. /\ Beside(m, Now, x)
          /\ IF m.threw THEN Unchanged(m, Now) ELSE Held(m, x) = Held(Now, y)
      BY <1>1, <1>2, <3>1, CopyConstructValue
    <3>3. m.threw => Held(m, x) = NoNumber
      BY <1>2, <1>4, <3>1, <3>2
    <3> QED BY <1>1, <1>3, <3>1, <3>2, <3>3
  <2>2. ASSUME NEW y \in Live, NEW x \in Targets, NEW m \in assign(Now, x, y)
        PROVE  Leaves(m, x, IF m.threw THEN Unspecified ELSE Number(y))
    <3>1. x \in Obj /\ y \in Obj /\ Writable(Now.obj[x])
      BY <1>2
    <3>2. CASE x = y
      <4>1. m = Now
        BY <3>2 DEF assign
      <4> QED BY <1>1, <3>1, <3>2, <4>1 DEF Leaves
    <3>3. CASE x # y
      <4>1. /\ Beside(m, Now, x)
            /\ Held(m, x) = IF m.threw THEN Unspecified ELSE Held(Now, y)
        BY <1>1, <1>2, <3>1, <3>3, AssignValue
      <4> QED BY <1>1, <1>3, <3>1, <4>1
    <3> QED BY <3>2, <3>3
  <2> QED BY <2>1, <2>2 DEF CopiesDeliver
<1>6. MovesDeliver
  <2>1. ASSUME NEW y \in Targets, NEW x \in Unused \cup Targets, NEW z \in Obj
        PROVE  Held(IF x \in Unused THEN TakeOver(Now, x, y) ELSE moveAssign(Now, x, y), z)
                 \in IF z = y THEN {Number(y), Unspecified}
                     ELSE {Number(IF z = x THEN y ELSE z)}
    <3>1. x \in Obj /\ y \in Obj /\ Writable(Now.obj[y]) /\ WellFormed(Now.obj[y])
      BY <1>1, <1>2, ObjectFacts
    <3>2. CASE x \in Unused
      <4>1. y \in Obj \ {x}
        BY <1>2, <3>2
      <4>2. /\ \A w \in Obj \ {x, y} : Held(TakeOver(Now, x, y), w) = Held(Now, w)
            /\ Held(TakeOver(Now, x, y), x) = Held(Now, y)
            /\ Held(TakeOver(Now, x, y), y) \in {Held(Now, y), Unspecified}
        BY <1>1, <3>1, <4>1, TakeOverValue
      <4> QED BY <1>1, <3>1, <3>2, <4>1, <4>2
    <3>3. CASE x \notin Unused /\ x # y
      <4>1. Writable(Now.obj[x]) /\ y \in Obj \ {x}
        BY <1>2, <3>1, <3>3
      <4>2. /\ \A w \in Obj \ {x, y} : Held(moveAssign(Now, x, y), w) = Held(Now, w)
            /\ Held(moveAssign(Now, x, y), x) = Held(Now, y)
            /\ Held(moveAssign(Now, x, y), y) \in {Held(Now, y), Unspecified}
        BY <1>1, <3>1, <4>1, MoveAssignValue
      <4> QED BY <1>1, <3>1, <3>3, <4>2
    <3>4. CASE x \notin Unused /\ x = y
      <4>1. /\ Beside(moveAssign(Now, x, x), Now, x)
            /\ Held(moveAssign(Now, x, x), x) \in {Held(Now, x), Unspecified}
        BY <1>1, <3>1, <3>4, SelfMoveValue
      <4> QED BY <1>1, <3>1, <3>4, <4>1, BesideHeld
    <3> QED BY <3>2, <3>3, <3>4
  <2>2. ASSUME NEW y \in Targets, NEW x \in Targets, NEW z \in Obj
        PROVE  Held(do_swap(Now, x, y), z)
                 = Number(IF z = x THEN y ELSE IF z = y THEN x ELSE z)
    <3>1. x \in Obj /\ y \in Obj /\ Writable(Now.obj[x]) /\ Writable(Now.obj[y])
      BY <1>2
    <3>2. /\ \A w \in Obj \ {x, y} : Held(do_swap(Now, x, y), w) = Held(Now, w)
          /\ Held(do_swap(Now, x, y), x) = Held(Now, y)
          /\ Held(do_swap(Now, x, y), y) = Held(Now, x)
      BY <1>1, <3>1, SwapValue
    <3> QED BY <1>1, <3>1, <3>2
  <2> QED BY <2>1, <2>2 DEF MovesDeliver
<1>7. ResultsDeliver
  <2> SUFFICES ASSUME NEW x \in Targets, NEW v \in Value, NEW s \in BOOLEAN
               PROVE  Delivers(x, v, s)
    BY DEF ResultsDeliver
  <2>1. x \in Obj /\ Writable(Now.obj[x])
    BY <1>2
  <2>2. ASSUME NEW n \in Room(v), NEW m \in store(Now, x, n, v, s)
        PROVE  Leaves(m, x, IF m.threw THEN Number(x) ELSE Delivered(v, s))
    <3>1. /\ Beside(m, Now, x)
          /\ IF m.threw THEN Unchanged(m, Now) ELSE Held(m, x) = Delivered(v, s)
      BY <1>1, <2>1, RoomType, StoreValue
    <3> QED BY <1>3, <1>4, <2>1, <3>1
  <2>3. ASSUME NEW m \in storeWithCarry(Now, x, v, s)
        PROVE  IF m.threw THEN Leaves(m, x, Number(x)) \/ Leaves(m, x, Unspecified)
               ELSE Leaves(m, x, Delivered(v, s))
    <3>1. /\ Beside(m, Now, x)
          /\ IF m.threw THEN Unchanged(m, Now) \/ Held(m, x) = Unspecified
             ELSE Held(m, x) = Delivered(v, s)
      BY <1>1, <2>1, StoreWithCarryValue
    <3> QED BY <1>3, <1>4, <2>1, <3>1
  <2>4. ASSUME NEW t \in Unused, NEW m \in computeFromCopy(Now, x, t, v, s)
        PROVE  Leaves(m, x, IF m.threw THEN Number(x) ELSE Delivered(v, s))
    <3>1. t \in Obj \ {x} /\ ~Now.obj[t].alive
      BY <1>2
    <3>2. /\ \A z \in Obj \ {x} : Held(m, z) = Held(Now, z)
          /\ Held(m, x) = IF m.threw THEN Held(Now, x) ELSE Delivered(v, s)
      BY <1>1, <2>1, <3>1, ComputeFromCopyValue
    <3> QED BY <1>1, <2>1, <3>2 DEF Leaves
  <2>5. ASSUME NEW t \in Unused, NEW bad \in BOOLEAN,
               NEW m \in do_assign_string(Now, x, t, v, s, bad)
        PROVE  IF m.threw THEN Leaves(m, x, <<Zero, FALSE>>)
               ELSE ~bad /\ Leaves(m, x, Delivered(v, s))
    <3>1. t \in Obj \ {x} /\ ~Now.obj[t].alive
      BY <1>2
    <3>2. /\ \A z \in Obj \ {x} : Held(m, z) = Held(Now, z)
          /\ m.threw => Held(m, x) = ZeroNumber
          /\ ~m.threw => ~bad /\ Held(m, x) = Delivered(v, s)
      BY <1>1, <2>1, <3>1, AssignStringValue
    <3>3. /\ m.threw => Leaves(m, x, ZeroNumber)
          /\ ~m.threw => Leaves(m, x, Delivered(v, s))
      BY <1>1, <2>1, <3>2 DEF Leaves
    <3> QED BY <3>2, <3>3, Zenon DEF ZeroNumber
  <2> QED BY <2>2, <2>3, <2>4, <2>5 DEF Delivers
<1> QED BY <1>5, <1>6, <1>7 DEF CallsDeliver

\* Normal form: every number that an operation has completed has all its limbs and no
\* leading zero, and zero is not negative, whatever copies, moves, swaps and failed
\* operations came before.
THEOREM NumbersInNormalForm == Spec => []NormalForm
<1>1. NInv => NormalForm
  BY DEF NInv, Normal, NormalForm, Live, Usable, Hollow, Now, Mem
<1> QED BY <1>1, InitRefines, NextRefines, PTL DEF Spec

\* What each call does: a copy equals its source, a move takes the number of its source
\* along, a swap exchanges two, an operation leaves its result cut to the precision, and a
\* call that throws leaves its target as it was, or without a number, or at zero, each as
\* CallsDeliver says; no call touches another number.  This holds of every call in every
\* reachable state, whatever representations earlier moves and throws have left behind.
THEOREM CallsDeliverNumbers == Spec => []CallsDeliver
BY InitRefines, NextRefines, DeliversNow, PTL DEF Spec

\* Refinement: the storage implements NumberValues.  Objects are independent of each
\* other although they share, steal and exchange blocks: a step sets one number, or moves
\* one from an object that keeps it or is left without, or exchanges two.
THEOREM StorageImplementsValues == Spec => ImplementsNumberValues
<1>1. Init => NInv /\ Numbers!Init
  BY InitRefines
<1>2. NInv /\ [Next]_vars => NInv' /\ [Numbers!Next]_[x \in Obj |-> Number(x)]
  BY NextRefines
<1> QED BY <1>1, <1>2, PTL DEF Spec, ImplementsNumberValues, Numbers!Spec
=============================================================================
